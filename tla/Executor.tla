------------------------------ MODULE Executor ------------------------------
(***************************************************************************)
(* The block executor of src/internal/chain/executor.go: BeginBlock,       *)
(* DeliverTx (check, the type's Validate, StateManager.commit and the      *)
(* synthetic transaction engine), Commit, and a crash of the node.         *)
(*                                                                         *)
(* The state DB is split into what is committed (kvState and the other  *)
(* kv variables) and what the block's DBTransaction buffers (dState and   *)
(* the other d variables).  GetCurrentEntry sees the buffer over the      *)
(* committed state; GetPersistentEntry(.., false) and                    *)
(* every query see only the committed state.  DeliverTx is called by the   *)
(* consensus engine synchronously, one call at a time, so each call is one *)
(* atomic step; its outcomes are separate actions.                         *)
(***************************************************************************)
EXTENDS StateManager, Ranks

CONSTANTS
  TxIds,          \* transaction hashes of the envelopes consensus may deliver
  TxKind,         \* transaction type of each envelope
  TxWellFormed,   \* Transaction, SigInfo present and len(ChainID) = 32
  TxSigned,       \* at least one signature and ValidateSig() holds
  TxSponsor,      \* ResourceChain of SigInfo.URL
  TxAuthorized,   \* sponsor type, SigSpecId, key book index and key match
  TxKey,          \* the signing key
  TxNonce,        \* the nonce of the signature
  Keys,           \* signing keys
  KeyNonce,       \* nonce stored on the key page entry / lite account
  ValidateCalls,  \* the call sequences an executor's Validate may make
  MaxHeight,      \* bound on committed blocks
  MaxDeliver,     \* bound on DeliverTx calls in one block
  ZeroChain       \* the all-zero chain ID, under which no record is stored

(* The transaction types the executor registry knows. *)
Kinds == {"genesis", "user", "synthCreate", "synthDeposit"}

(* TxType.IsSynthetic(): every type but the user-signed ones. *)
IsSynthetic(k) == k # "user"

(* The content of a state record: the transaction that created it and the *)
(* one that wrote it last (the txHash passed to AddStateEntry).           *)
Rec == [cr : TxIds, wr : TxIds]

Status == {"none", "0", "1"}

ASSUME ExecutorAssumption ==
  /\ TxKind \in [TxIds -> Kinds]
  /\ TxWellFormed \in [TxIds -> BOOLEAN]
  /\ TxSigned \in [TxIds -> BOOLEAN]
  /\ TxSponsor \in [TxIds -> Chains]
  /\ TxAuthorized \in [TxIds -> BOOLEAN]
  /\ TxKey \in [TxIds -> Keys]
  /\ TxNonce \in [TxIds -> Nat]
  /\ KeyNonce \in [Keys -> Nat]
  /\ ValidateCalls \subseteq Seq(Call)
  /\ MaxHeight \in Nat
  /\ MaxDeliver \in Nat
  /\ Absent \notin Rec
  /\ ZeroChain \notin Chains

VARIABLES
  height,      \* last committed block (db.BlockIndex())
  inBlock,     \* between BeginBlock and Commit
  leader,      \* m.leader
  delivered,   \* DeliverTx calls in this block (bounded)
  executors,   \* the keys of m.executors (in memory)
  kvState,     \* committed state records, by chain ID
  kvBody,      \* committed accepted-transaction records
  kvStatus,    \* committed pending-transaction status code
  kvCount,     \* committed SyntheticTransactionCount
  kvLinks,     \* committed AddSynthTx links <<parent, synthetic nonce>>
  kvAccepted,  \* history: accepted transactions in commit order
  dState,      \* DBTransaction buffer: records written in this block
  dBody,       \* accepted-transaction records added in this block
  dStatus,     \* pending records written in this block ("none" = not)
  dCount,      \* SyntheticTransactionCount as the DBTransaction reads it
  dLinks,      \* synthetic links added in this block
  dAccepted,   \* history: transactions accepted in this block
  kvDir,       \* committed directory index, per identity
  kvDirLog,    \* history: committed AddDirectoryEntry calls <<tx, chain>>
  dDir,        \* directory index as the DBTransaction reads it
  dDirLog,     \* history: AddDirectoryEntry calls flushed in this block
  batch,       \* signed synthetic transactions queued by BroadcastTx
  sent         \* synthetic transactions sent by BatchSend

vars == <<height, inBlock, leader, delivered, executors,
          kvState, kvBody, kvStatus, kvCount, kvLinks, kvAccepted,
          dState, dBody, dStatus, dCount, dLinks, dAccepted, batch, sent,
          kvDir, kvDirLog, dDir, dDirLog>>

dbTxVars == <<dState, dBody, dStatus, dCount, dLinks, dAccepted, dDir, dDirLog>>
kvVars == <<kvState, kvBody, kvStatus, kvCount, kvLinks, kvAccepted, kvDir, kvDirLog>>

-----------------------------------------------------------------------------
(* GetCurrentEntry: the block's write over the committed record. *)
Current(c) == IF dState[c] = Absent THEN kvState[c] ELSE dState[c]

(* The pending-transaction status as the DBTransaction reads it. *)
CurStatus(t) == IF dStatus[t] = "none" THEN kvStatus[t] ELSE dStatus[t]

(* Chains with a committed record: GetPersistentEntry(id, false) succeeds. *)
OnDisk == {c \in Chains : kvState[c] # Absent}

(***************************************************************************)
(* NewStateManager: the sponsor (the ResourceChain of SigInfo.URL) is      *)
(* loaded through the DBTransaction; a NotFound is returned alongside the *)
(* state manager.  Genesis has the built-in ACME sponsor.                  *)
(***************************************************************************)
SponsorFound(t) == TxKind[t] = "genesis" \/ Current(TxSponsor[t]) # Absent

(***************************************************************************)
(* Executor.check: genesis skips everything; otherwise the envelope must   *)
(* be signed, the sponsor must exist unless the type may create it,        *)
(* synthetic types stop there (checkSynthetic accepts), and user types     *)
(* need the sponsor's key book/page or lite key to match and every         *)
(* signature nonce above the stored one.  Nothing here writes a nonce.     *)
(***************************************************************************)
Check(t) ==
  \/ TxKind[t] = "genesis"
  \/ /\ TxSigned[t]
     /\ \/ SponsorFound(t)
        \/ TxKind[t] \in {"synthCreate", "synthDeposit"}
     /\ \/ IsSynthetic(TxKind[t])
        \/ /\ TxAuthorized[t]
           /\ KeyNonce[TxKey[t]] < TxNonce[t]

(* The calls an executor of t's type may make: synthetic executors panic  *)
(* on Create and Submit, so the ones that run make neither.               *)
CallsOf(t) ==
  {s \in ValidateCalls :
     IsSynthetic(TxKind[t]) => \A i \in 1..Len(s) : s[i].op \in {"update", "dir"}}

(* The record AddStateEntry stores for chain c written by t. *)
Written(t, c) ==
  [cr |-> IF Current(c) = Absent THEN t ELSE Current(c).cr, wr |-> t]

(* AddStateEntry for every chain of W. *)
AddStateEntries(t, W) ==
  dState' = [c \in Chains |-> IF c \in W THEN Written(t, c) ELSE dState[c]]

(* recordTransactionError: the pending record with status code "1". *)
RecordTransactionError(t) == dStatus' = [dStatus EXCEPT ![t] = "1"]

(* The genesis executor is deleted from the registry once it succeeds. *)
DropGenesis(t) ==
  executors' = IF TxKind[t] = "genesis" THEN executors \ {"genesis"} ELSE executors

(* A wrong counter read: from the committed store, missing this block's  *)
(* increments.                                                            *)
SynthCountReadCommitted == kvCount

(* The nonce nextSynthCount() returns: read through the DBTransaction. *)
SynthCountRead == dCount

(* An index read that misses this block's flushed writes. *)
DirReadCommitted == kvDir

(***************************************************************************)
(* StateManager.GetIndex falls back to dbTx.GetIndex, which reads the      *)
(* index through the block's DBTransaction: the raw writes earlier         *)
(* transactions of the block flushed with dbTx.Write are seen.             *)
(***************************************************************************)
DirRead == dDir

(* The chains of all AddDirectoryEntry calls of s, in order. *)
DirCalls(s) ==
  LET calls == SelectSeq(s, LAMBDA x : x.op = "dir")
  IN  [k \in 1..Len(calls) |-> calls[k].chain]

(* The AddDirectoryEntry calls of every sequence an executor may make name *)
(* chains: SelectSeq keeps elements of the sequence (a fact by induction   *)
(* over the sequence, stated here for the model's inputs).                 *)
ASSUME DirCallsAssumption ==
  \A s \in ValidateCalls :
    /\ DirCalls(s) \in Seq(Chains)
    /\ \A i \in Identities : DirAdds(s, i) \in Seq(Chains)

(***************************************************************************)
(* The loop at the top of commit(): every buffered index write of t's      *)
(* AddDirectoryEntry calls goes to the DBTransaction, before any stage is  *)
(* checked.  dDirLog records the calls whose writes were flushed.          *)
(***************************************************************************)
FlushIndex(t, s) ==
  /\ dDir' = FlushedIndex(s, DirRead)
  /\ dDirLog' = dDirLog \o [k \in 1..Len(DirCalls(s)) |-> <<t, DirCalls(s)[k]>>]

(***************************************************************************)
(* queryByChainId: GetPersistentEntry(id, false), the committed record.    *)
(* Any other chain ID (a transaction hash, the zero ID) is NotFound.       *)
(***************************************************************************)
QueryByChainId(c) ==
  [found  |-> c \in OnDisk,
   record |-> IF c \in OnDisk THEN kvState[c] ELSE Absent]

(***************************************************************************)
(* queryByTxId: GetTx must find the accepted body (else NotFound); the     *)
(* pending record and the synthetic links of the parent are read along,   *)
(* all from the committed state.                                           *)
(***************************************************************************)
QueryByTxId(t) ==
  [found   |-> t \in kvBody,
   pending |-> kvStatus[t],
   synth   |-> {l[2] : l \in {l \in kvLinks : l[1] = t}}]

(* queryByUrl: "?txid=" selects the txid query, else the URL's chain. *)
QueryByUrl(c, txid) ==
  IF txid # Absent THEN QueryByTxId(txid) ELSE QueryByChainId(c)

(***************************************************************************)
(* queryDirectoryByChainId on the committed index: NotFound without a      *)
(* Metadata record (count 0), an error when an entry below the count is    *)
(* missing, else the entries 0 .. count - 1.                               *)
(***************************************************************************)
QueryDirectory(i) ==
  LET d == kvDir[i] IN
  [found   |-> 0 < d.count /\ d.count <= Len(d.ent),
   entries |-> IF 0 < d.count /\ d.count <= Len(d.ent) THEN SubSeq(d.ent, 1, d.count) ELSE <<>>]

(***************************************************************************)
(* The requests Query decodes: by txid, by URL (with or without ?txid=),   *)
(* by chain ID, and DirectoryUrl for an identity (the URL's resource chain *)
(* is its identity chain when the URL is an identity, see Url.tla).        *)
(* TxHistory reads the transaction index, which is not modelled.          *)
(***************************************************************************)
QueryReq ==
  [type : {"txId"}, tx : TxIds]
    \cup [type : {"url"}, chain : Chains, txid : TxIds \cup {Absent}]
    \cup [type : {"chainId"}, chain : Chains]
    \cup [type : {"directory"}, id : Identities]

(***************************************************************************)
(* The chain ID the ChainId case looks up: it unmarshals the request from  *)
(* its own zero-valued ChainId field, not from q.Content, so it is always  *)
(* the all-zero ID whatever chain was asked for.                           *)
(***************************************************************************)
ChainIdRequested(q) == ZeroChain

(* Executor.Query: dispatch on the query type. *)
Query(q) ==
  CASE q.type = "txId"    -> QueryByTxId(q.tx)
    [] q.type = "url"     -> QueryByUrl(q.chain, q.txid)
    [] q.type = "chainId" -> QueryByChainId(ChainIdRequested(q))
    [] q.type = "directory" -> QueryDirectory(q.id)

-----------------------------------------------------------------------------
Init ==
  /\ height = 0
  /\ inBlock = FALSE
  /\ leader = FALSE
  /\ delivered = 0
  /\ executors = Kinds
  /\ kvState = [c \in Chains |-> Absent]
  /\ kvBody = {}
  /\ kvStatus = [t \in TxIds |-> "none"]
  /\ kvCount = 0
  /\ kvLinks = {}
  /\ kvAccepted = <<>>
  /\ dState = [c \in Chains |-> Absent]
  /\ dBody = {}
  /\ dStatus = [t \in TxIds |-> "none"]
  /\ dCount = 0
  /\ dLinks = {}
  /\ dAccepted = <<>>
  /\ kvDir = [i \in Identities |-> [count |-> 0, ent |-> <<>>]]
  /\ kvDirLog = <<>>
  /\ dDir = kvDir
  /\ dDirLog = <<>>
  /\ batch = {}
  /\ sent = {}

(* BeginBlock: take the leader flag, open a DBTransaction. *)
BeginBlock ==
  /\ ~inBlock
  /\ height < MaxHeight
  /\ inBlock' = TRUE
  /\ \E l \in BOOLEAN : leader' = l
  /\ delivered' = 0
  /\ UNCHANGED <<height, executors, kvVars, dbTxVars, batch, sent>>

(* The bound on DeliverTx calls checked one too late. *)
DeliverOffByOne ==
  /\ inBlock
  /\ delivered <= MaxDeliver
  /\ delivered' = delivered + 1

(* The part every DeliverTx call shares. *)
Deliver ==
  /\ inBlock
  /\ delivered < MaxDeliver
  /\ delivered' = delivered + 1

(* "malformed transaction": returned before anything is recorded. *)
DeliverMalformed(t) ==
  /\ Deliver
  /\ ~TxWellFormed[t]
  /\ UNCHANGED <<height, inBlock, leader, executors, kvVars, dbTxVars, batch, sent>>

(* No executor for the type (e.g. genesis after it ran): recorded as error. *)
DeliverUnsupported(t) ==
  /\ Deliver
  /\ TxWellFormed[t]
  /\ TxKind[t] \notin executors
  /\ RecordTransactionError(t)
  /\ UNCHANGED <<height, inBlock, leader, executors, kvVars, batch, sent,
                 dState, dBody, dCount, dLinks, dAccepted, dDir, dDirLog>>

(* "failed check": recorded as error. *)
DeliverCheckFailed(t) ==
  /\ Deliver
  /\ TxWellFormed[t]
  /\ TxKind[t] \in executors
  /\ ~Check(t)
  /\ RecordTransactionError(t)
  /\ UNCHANGED <<height, inBlock, leader, executors, kvVars, batch, sent,
                 dState, dBody, dCount, dLinks, dAccepted, dDir, dDirLog>>

(* "rejected by chain": the type's Validate returned an error. *)
DeliverRejected(t) ==
  /\ Deliver
  /\ TxWellFormed[t]
  /\ TxKind[t] \in executors
  /\ Check(t)
  /\ RecordTransactionError(t)
  /\ UNCHANGED <<height, inBlock, leader, executors, kvVars, batch, sent,
                 dState, dBody, dCount, dLinks, dAccepted, dDir, dDirLog>>

(***************************************************************************)
(* Validate succeeded with calls s but st.commit() refuses an update: the  *)
(* genesis entry is already deleted, AddTransaction has already stored the *)
(* body with status "0", commit() has already passed the stages before the *)
(* refused one to AddStateEntry, and recordTransactionError then rewrites  *)
(* the pending status to "1".  Nothing is rolled back.                     *)
(***************************************************************************)
DeliverCommitFailed(t, s) ==
  /\ Deliver
  /\ TxWellFormed[t]
  /\ TxKind[t] \in executors
  /\ Check(t)
  /\ CommitFails(s, IsSynthetic(TxKind[t]), OnDisk)
  /\ DropGenesis(t)
  /\ dBody' = dBody \cup {t}
  /\ RecordTransactionError(t)
  /\ FlushIndex(t, s)
  /\ AddStateEntries(t, UpdatesWritten(s, IsSynthetic(TxKind[t]), OnDisk))
  /\ UNCHANGED <<height, inBlock, leader, kvVars, batch, sent,
                 dCount, dLinks, dAccepted>>

(***************************************************************************)
(* submitSyntheticTx for n submissions of parent t: each gets the nonce    *)
(* nextSynthCount() reads and bumps through the DBTransaction, is stored   *)
(* with AddSynthTx under the parent, and on the leader is signed and       *)
(* queued with BroadcastTx.                                                *)
(***************************************************************************)
SubmitSyntheticTx(t, n) ==
  LET fresh == {SynthCountRead + k : k \in 0..(n - 1)}
  IN  /\ dCount' = SynthCountRead + n
      /\ dLinks' = dLinks \cup {<<t, m>> : m \in fresh}
      /\ batch' = IF leader THEN batch \cup fresh ELSE batch

(***************************************************************************)
(* Validate and commit() succeed: body and status "0" are stored, every    *)
(* update stage is written, and the submissions go to submitSyntheticTx.   *)
(***************************************************************************)
DeliverAccepted(t, s) ==
  /\ Deliver
  /\ TxWellFormed[t]
  /\ TxKind[t] \in executors
  /\ Check(t)
  /\ ~CommitFails(s, IsSynthetic(TxKind[t]), OnDisk)
  /\ DropGenesis(t)
  /\ dBody' = dBody \cup {t}
  /\ dStatus' = [dStatus EXCEPT ![t] = "0"]
  /\ FlushIndex(t, s)
  /\ AddStateEntries(t, UpdatesWritten(s, IsSynthetic(TxKind[t]), OnDisk))
  /\ SubmitSyntheticTx(t, NumSubmissions(s))
  /\ dAccepted' = Append(dAccepted, t)
  /\ UNCHANGED <<height, inBlock, leader, kvVars, sent>>

(* One DeliverTx call on envelope t. *)
DeliverTx(t) ==
  \/ DeliverMalformed(t)
  \/ DeliverUnsupported(t)
  \/ DeliverCheckFailed(t)
  \/ DeliverRejected(t)
  \/ \E s \in CallsOf(t) : DeliverCommitFailed(t, s) \/ DeliverAccepted(t, s)

(* A fresh DBTransaction: nothing buffered, the counter and the index as on disk. *)
ResetDbTx(count, dir) ==
  /\ dState' = [c \in Chains |-> Absent]
  /\ dBody' = {}
  /\ dStatus' = [t \in TxIds |-> "none"]
  /\ dCount' = count
  /\ dLinks' = {}
  /\ dAccepted' = <<>>
  /\ dDir' = dir
  /\ dDirLog' = <<>>

(* A Commit whose DB transaction does not persist the synthetic counter. *)
CommitCounterNotSaved ==
  /\ inBlock
  /\ height' = height + 1
  /\ kvState' = [c \in Chains |-> Current(c)]
  /\ kvBody' = kvBody \cup dBody
  /\ kvStatus' = [t \in TxIds |-> CurStatus(t)]
  /\ kvCount' = kvCount
  /\ kvLinks' = kvLinks \cup dLinks
  /\ kvAccepted' = kvAccepted \o dAccepted
  /\ kvDir' = dDir
  /\ kvDirLog' = kvDirLog \o dDirLog
  /\ ResetDbTx(kvCount, dDir)
  /\ sent' = sent \cup batch
  /\ batch' = {}
  /\ inBlock' = FALSE
  /\ UNCHANGED <<leader, delivered, executors>>

(***************************************************************************)
(* Commit: dbTx.Commit(height) lands every buffered write at once, then    *)
(* m.query.BatchSend() sends the queued synthetic transactions.            *)
(***************************************************************************)
Commit ==
  /\ inBlock
  /\ height' = height + 1
  /\ kvState' = [c \in Chains |-> Current(c)]
  /\ kvBody' = kvBody \cup dBody
  /\ kvStatus' = [t \in TxIds |-> CurStatus(t)]
  /\ kvCount' = dCount
  /\ kvLinks' = kvLinks \cup dLinks
  /\ kvAccepted' = kvAccepted \o dAccepted
  /\ kvDir' = dDir
  /\ kvDirLog' = kvDirLog \o dDirLog
  /\ ResetDbTx(dCount, dDir)
  /\ sent' = sent \cup batch
  /\ batch' = {}
  /\ inBlock' = FALSE
  /\ UNCHANGED <<leader, delivered, executors>>

(* A Commit that sends the batch before dbTx.Commit, which then panics. *)
CommitPanicBroadcastFirst ==
  /\ inBlock
  /\ inBlock' = FALSE
  /\ ResetDbTx(kvCount, kvDir)
  /\ sent' = sent \cup batch
  /\ batch' = {}
  /\ executors' = Kinds
  /\ UNCHANGED <<height, leader, delivered, kvVars>>

(***************************************************************************)
(* Commit when dbTx.Commit returns an error: the executor panics, the      *)
(* process dies with the block unwritten and the batch unsent.             *)
(***************************************************************************)
CommitPanic ==
  /\ inBlock
  /\ inBlock' = FALSE
  /\ ResetDbTx(kvCount, kvDir)
  /\ batch' = {}
  /\ executors' = Kinds
  /\ UNCHANGED <<height, leader, delivered, kvVars, sent>>

(***************************************************************************)
(* The node stops at any point and restarts: memory is lost, NewExecutor   *)
(* registers every executor again, and consensus replays the uncommitted   *)
(* block.                                                                  *)
(***************************************************************************)
Crash ==
  /\ inBlock' = FALSE
  /\ ResetDbTx(kvCount, kvDir)
  /\ batch' = {}
  /\ executors' = Kinds
  /\ UNCHANGED <<height, leader, delivered, kvVars, sent>>

Next ==
  \/ BeginBlock
  \/ \E t \in TxIds : DeliverTx(t)
  \/ Commit
  \/ CommitPanic
  \/ Crash

Spec == Init /\ [][Next]_vars

-----------------------------------------------------------------------------
(* Every variable has the type the code gives it. *)
TypeOK ==
  /\ height \in 0..MaxHeight
  /\ inBlock \in BOOLEAN
  /\ leader \in BOOLEAN
  /\ delivered \in 0..MaxDeliver
  /\ executors \subseteq Kinds
  /\ kvState \in [Chains -> Rec \cup {Absent}]
  /\ kvBody \subseteq TxIds
  /\ kvStatus \in [TxIds -> Status]
  /\ kvCount \in Nat
  /\ kvLinks \subseteq TxIds \X Nat
  /\ kvAccepted \in Seq(TxIds)
  /\ dState \in [Chains -> Rec \cup {Absent}]
  /\ dBody \subseteq TxIds
  /\ dStatus \in [TxIds -> Status]
  /\ dCount \in Nat
  /\ dLinks \subseteq TxIds \X Nat
  /\ dAccepted \in Seq(TxIds)
  /\ kvDir \in [Identities -> DirIndex]
  /\ kvDirLog \in Seq(TxIds \X Chains)
  /\ dDir \in [Identities -> DirIndex]
  /\ dDirLog \in Seq(TxIds \X Chains)
  /\ batch \subseteq Nat
  /\ sent \subseteq Nat

(***************************************************************************)
(* nextSynthCount/AddSynthTx: every synthetic transaction number handed    *)
(* out, committed or still buffered, is below the counter the              *)
(* DBTransaction reads, and names exactly one (parent, synthetic) link:    *)
(* no two synthetic transactions, in one block or across blocks, crashes   *)
(* and replays, get the same nonce.                                        *)
(***************************************************************************)
SynthNonceUnique ==
  \A l1, l2 \in kvLinks \cup dLinks :
     /\ l1[2] < dCount
     /\ l1[2] = l2[2] => l1 = l2

(***************************************************************************)
(* submitSyntheticTx/Commit: a synthetic transaction the leader has sent   *)
(* is on disk, linked to its parent, so every validator has it and a       *)
(* successor leader can resend it (spec: persisted before any broadcast).  *)
(***************************************************************************)
BroadcastOnlyPersisted ==
  \A m \in sent : \E p \in TxIds : <<p, m>> \in kvLinks

(***************************************************************************)
(* StateManager.commit: a data record (not a transaction record) that      *)
(* exists, committed or buffered, was created by a synthetic transaction:  *)
(* a user transaction's Update never brings a new data record into being.  *)
(***************************************************************************)
CreatedOnlyBySynthetic ==
  \A c \in Chains \ TxRecordChains :
     \A r \in {kvState[c], Current(c)} \ {Absent} : IsSynthetic(TxKind[r.cr])

(***************************************************************************)
(* Spec 8.1 and data-model invariant 5: when the txid query finds an       *)
(* accepted body, the pending record it returns has status "0".  DeliverTx *)
(* stores the body with AddTransaction before st.commit(), and a failing   *)
(* commit then rewrites the pending status to "1" (recordTransactionError),*)
(* as does a second delivery of an accepted transaction that fails.        *)
(***************************************************************************)
AcceptedTxHasStatusZero ==
  \A t \in TxIds :
     LET r == Query([type |-> "txId", tx |-> t]) IN r.found => r.pending = "0"

(***************************************************************************)
(* Spec 4.E/7: a transaction whose pending status is "1" (rejected) and    *)
(* that was never accepted, in this block or an earlier one, has left no   *)
(* state record behind.  DeliverTx does not discard the updates st.commit()*)
(* passed to AddStateEntry before it refused a later stage.                *)
(***************************************************************************)
RejectedTxLeavesNoState ==
  LET everAccepted == {kvAccepted[i] : i \in 1..Len(kvAccepted)}
                        \cup {dAccepted[i] : i \in 1..Len(dAccepted)}
  IN  \A c \in Chains :
        /\ Current(c) # Absent
        /\ Current(c).wr \notin everAccepted
        => CurStatus(Current(c).wr) # "1"

(***************************************************************************)
(* Spec 8.7: of two accepted user transactions signed with the same key,   *)
(* the later carries the strictly larger nonce.  check() compares against  *)
(* the stored nonce but never writes it back.                              *)
(***************************************************************************)
NonceStrictlyIncreasing ==
  \A i, j \in 1..Len(kvAccepted) :
     LET a == kvAccepted[i]
         b == kvAccepted[j]
     IN  (i < j /\ TxKind[a] = "user" /\ TxKind[b] = "user" /\ TxKey[a] = TxKey[b])
           => TxNonce[a] < TxNonce[b]


(***************************************************************************)
(* Spec 4.F and 8 (boundary cases): the genesis transaction is accepted    *)
(* once; a replay must be rejected as "unsupported TX type".  DeliverTx    *)
(* only deletes the genesis executor from the in-memory registry, so a     *)
(* restarted node (NewExecutor) accepts it again.                          *)
(***************************************************************************)
GenesisAcceptedOnce ==
  \A i, j \in 1..Len(kvAccepted) :
     TxKind[kvAccepted[i]] = "genesis" /\ TxKind[kvAccepted[j]] = "genesis" => i = j

(***************************************************************************)
(* Spec 4.H: the ChainId query answers by the raw 32-byte chain ID it is   *)
(* given: a chain with a committed record is found.  Executor.Query        *)
(* decodes the request from the wrong buffer and never finds it.           *)
(***************************************************************************)
QueryChainIdFindsRecord ==
  \A c \in OnDisk : Query([type |-> "chainId", chain |-> c]).found

-----------------------------------------------------------------------------
(***************************************************************************)
(* The committed synthetic links, the committed counter and what           *)
(* BatchSend has sent, seen as the abstract outbox of SynthOutbox.         *)
(***************************************************************************)
Outbox == INSTANCE SynthOutbox WITH
            Parents <- TxIds, links <- kvLinks, count <- kvCount, sent <- sent

(***************************************************************************)
(* The executor implements the outbox: Commit is the only step that moves  *)
(* the committed links, counter or sent set, it numbers a block's          *)
(* synthetic transactions from the committed counter upward, one link per  *)
(* nonce, and BatchSend sends only transactions of the block just          *)
(* persisted.  A failing dbTx.Commit, a restart, BeginBlock and DeliverTx  *)
(* are stutter steps of the outbox.                                        *)
(***************************************************************************)
SynthOutboxRefined == Outbox!Spec

-----------------------------------------------------------------------------
(* The positions of the logged AddDirectoryEntry calls for identity i,   *)
(* and their chains in the order of the calls.                             *)
LoggedAt(log, i) == {k \in 1..Len(log) : IdentityOf[log[k][2]] = i}
LoggedFor(log, i) ==
  [r \in 1..Cardinality(LoggedAt(log, i)) |-> log[NthOf(LoggedAt(log, i), r)][2]]

(* The calls FlushIndex logs for identity i are DirAdds(s, i): both keep   *)
(* the AddDirectoryEntry calls of s whose chain belongs to i, in order (a  *)
(* fact by induction over s, stated here for the model's inputs).          *)
ASSUME DirLogAssumption ==
  \A s \in ValidateCalls, t \in TxIds, i \in Identities :
    LoggedFor([k \in 1..Len(DirCalls(s)) |-> <<t, DirCalls(s)[k]>>], i) = DirAdds(s, i)

(***************************************************************************)
(* AddDirectoryEntry/commit(): the DirectoryUrl query of every identity   *)
(* returns each URL whose entry was committed, once, in the order of the   *)
(* calls, and NotFound only when there is none; no entry is overwritten by *)
(* a later transaction of the same block that read a stale count.  The    *)
(* index as the DBTransaction reads it lists the flushed adds alike, and   *)
(* both counts equal the number of entries.                                *)
(***************************************************************************)
DirectoryListsEveryAdd ==
  \A i \in Identities :
    /\ Query([type |-> "directory", id |-> i]).entries = LoggedFor(kvDirLog, i)
    /\ Query([type |-> "directory", id |-> i]).found = (LoggedFor(kvDirLog, i) # <<>>)
    /\ kvDir[i].count = Len(kvDir[i].ent)
    /\ dDir[i].ent = LoggedFor(kvDirLog \o dDirLog, i)
    /\ dDir[i].count = Len(dDir[i].ent)

(***************************************************************************)
(* Spec 4.E: commit() errors abort and the DBTransaction must be discarded, *)
(* so a transaction recorded as failed (status "1") leaves no directory    *)
(* entry.  commit() flushes m.writes before it checks any stage, and       *)
(* DeliverTx keeps the DBTransaction.                                      *)
(***************************************************************************)
FailedTxLeavesNoDirEntry ==
  LET log == kvDirLog \o dDirLog
  IN  \A k \in 1..Len(log) : CurStatus(log[k][1]) # "1"

=============================================================================
