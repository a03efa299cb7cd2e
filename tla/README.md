# TLA+ models of the Accumulate block execution pipeline

This directory holds TLA+ models of the block execution core under
`src/internal/chain/`, TLC configurations that check them on small instances,
and TLAPS proofs of their main safety invariants for every value of the
constants.

## 1. The system

Consensus drives one `Executor` (`executor.go`) per validator through the ABCI
calls of `abci.Chain` (`src/internal/abci/abci.go`):

* **BeginBlock** records the leader flag and opens a `DBTransaction` (the
  block's write buffer) on the state DB.
* **DeliverTx** runs each transaction to completion before the next call. The
  goroutine is commented out at executor.go:442, and ABCI calls it serially.
  The steps are:
  1. reject a malformed envelope;
  2. look up the executor of the type, or record an error;
  3. `check()`: the signature, the sponsor (through `NewStateManager`), the key
     book and page or lite key, and the nonce;
  4. the type's `Validate`, which calls `Update`, `Create` and `Submit` on a
     fresh `StateManager` (`state.go`);
  5. on success, delete the genesis executor, then store the body and pending
     status "0" with `AddTransaction`;
  6. `st.commit()`;
  7. `submitSyntheticTx`: number each submission with `nextSynthCount`, link
     it to its parent with `AddSynthTx`, and on the leader sign it and queue it
     with `BroadcastTx`.

  Any failure at step 2, 3, 4 or 6 calls `recordTransactionError`, which writes
  the pending record with code "1".
* **StateManager.commit()** walks the stages in the order of their last
  `store()`:
  * create stages are grouped per identity into one `SyntheticCreateChain`
    submission;
  * an update stage is written with `AddStateEntry` if the record is on disk
    (`GetPersistentEntry`, allowDirty false), is a transaction record, or the
    transaction is synthetic;
  * otherwise commit() returns an error, and the stages before it are **not**
    undone.
* **Commit** runs `dbTx.Commit(height)`, which lands every buffered write at
  once or panics. Then `BatchSend` sends the queued synthetic transactions.
* **AddDirectoryEntry** (state.go:369) reads the identity's directory
  Metadata count through `GetIndex` (the StateManager's own buffer `m.writes`
  first, then the DBTransaction), and buffers two writes in `m.writes`: the
  URL under key `count` and `count + 1` as the new Metadata. `commit()` writes
  the whole buffer to the DBTransaction **before** it checks any stage
  (state.go:226-229).
* **Query** reads only the committed state: by txid, by URL, by chain ID, or
  the directory of an identity (`queryDirectoryByChainId`: the Metadata count,
  then that many entries).

The state DB and KV store (`smt/storage`, `types/state`) are not in this tree.
Their contract is taken from spec.md §4.B–4.C.

## 2. Modules

| Module | Models | State / actions |
|---|---|---|
| `StateManager.tla` | `state.go`: `store`, `Update`, `Create`, `Submit`, `AddDirectoryEntry`, `WriteIndex`/`GetIndex`, `commit` | Pure operators over the sequence of calls a `Validate` made. A StateManager lives for one DeliverTx, so it has no variables. `FlushDir`/`FlushedIndex` give the directory index after commit() flushed `m.writes`: the adds of an identity land under the keys `count`, `count + 1`, ... in call order. `Order` is the position of the last `store()` of a chain. `Denied` holds the refused update stages. `Walked` holds the stages commit() passes before it returns. `UpdatesWritten` holds what reaches `AddStateEntry`. `NumSubmissions` counts `len(st.submissions)`, with creates grouped per identity. |
| `Executor.tla` | `executor.go` and the DBTransaction contract | The committed state is `kvState`, `kvBody`, `kvStatus`, `kvCount`, `kvLinks` and `kvAccepted`. The block's buffer is `dState`, `dBody`, `dStatus`, `dCount`, `dLinks` and `dAccepted`. The in-memory state is `executors`, `leader` and `batch`. `sent` holds what BatchSend has sent. The directory index is `kvDir` (committed) and `dDir` (as the DBTransaction reads it); `kvDirLog`/`dDirLog` are history variables of the AddDirectoryEntry calls whose writes were flushed. The actions are `BeginBlock`, one per DeliverTx outcome (`DeliverMalformed`, `DeliverUnsupported`, `DeliverCheckFailed`, `DeliverRejected`, `DeliverCommitFailed`, `DeliverAccepted`), `Commit`, `CommitPanic` (dbTx.Commit fails) and `Crash` (restart at any point). Query is modelled as operators. `FlushIndex` is part of `DeliverCommitFailed` and `DeliverAccepted`, because commit() flushes before it can fail. |
| `SynthOutbox.tla` | spec §4.G, invariant 6: what a validator promises about synthetic transactions | The abstract outbox: committed `links`, committed `count`, `sent`. Its only step, `CommitBlock`, adds fresh links with distinct nonces from the old counter up to below the new one, and sends only links of that block. `Executor` instantiates it with `links <- kvLinks`, `count <- kvCount`, `sent <- sent`. |
| `MC_Executor.tla` | the TLC instance | It has two chains under two identities, plus four envelopes: genesis `g`, a user transaction `u1`, a synthetic deposit `d` that creates its sponsor, and a malformed `x`. It also fixes the five call sequences a `Validate` may make, one of them an `Update` followed by an `AddDirectoryEntry`. |
| `Url.tla` | `url.go` | The operators are `Parse`, `splitColon`, `Hostname`, `chain`, `ensurePath`, `Identity`, `IdentityChain`, `ResourceChain`, `JoinPath` (with `path.Join`/`Clean`), `UrlString` (`String()`) and `Equal`. A string is a sequence of characters from a small alphabet. SHA-256 is taken as injective. The variable `url` holds the URLs a caller has. Each one starts as a successful `Parse` result. The actions `DoJoinPath` and `DoIdentity` then replace it with the copy those methods return. |
| `MC_Url.tla` | the TLC instance | There are two URLs. The alphabet is `a A b B 1 : /`. The parse inputs are three schemes, three user parts, six hosts (empty, `:1` and one with a port among them) and four paths. The `JoinPath` segments are empty, `b`, `/b` and `b/`, and a path is at most 4 long. |
| `StateManagerProofs.tla` | lemmas on the commit operators | `OrderIsLast` and `WrittenAllowed`. |
| `ExecutorProofs.tla` | theorems on the executor | See §5. |
| `OutboxRefinementProofs.tla` | the refinement `Executor` ⇒ `SynthOutbox` | See §5. |
| `UrlProofs.tla` | theorems on the URL operators | See §5. |
| `Ranks.tla` | positions taken in order | `Rank(K, k)` counts the positions of `K` up to `k`; `NthOf(K, r)` is the position of rank `r`. `Executor`'s `LoggedFor(log, i)` lists the chains of the logged adds of identity `i` by rank, i.e. in call order. |
| `RankProofs.tla` | lemmas on ranks | The rank maps a finite set of positions one-to-one and in order onto `1..Cardinality(K)` (`RankOnto`, `NthOfRank`, `NthOfUnique`), and the positions of a concatenation are those of the first part and those of the second shifted past it (`ShiftedFirst`, `ShiftedSecond`). |
| `DirectoryProofs.tla` | the directory index lists every add | See §5. |

How the data is abstracted:

* A record is `[cr, wr]`: the transaction that created it and the one that
  wrote it last. This is the txHash that `AddStateEntry` cross-references.
* Signatures and the key/nonce lookup are constants per envelope (`TxSigned`,
  `TxAuthorized`, `TxKey`, `TxNonce`, `KeyNonce`).
* A synthetic transaction is its nonce.
* URLs are reduced to the chain ID and to `IdentityOf`. A directory entry is
  the chain of the record added; the Metadata count is a natural number, and
  a missing Metadata record is count 0, which `AddDirectoryEntry` and the
  query both read as NotFound.
* `dbTx.GetIndex` is not in this tree. It is modelled (`DirRead`) as reading
  through the DBTransaction, so the raw `dbTx.Write` of an earlier
  transaction of the block is seen (spec §4.B: index writes go to the DBTx).

## 3. Runs

All runs use `MC_Executor.cfg`, with `MaxHeight = 2` blocks and
`MaxDeliver = 2` deliveries per block. These bounds let a block accept a
transaction and then fail or re-deliver one, and let a crash happen between two
blocks, in any order. The passing run has 64,942 distinct states and takes
about 5 s. Two transactions that each add a directory entry for one identity
in one block, or in two blocks, or with a failed commit between them, are all
reached, which is what the directory property needs.

| Run | Expect | Shows |
|---|---|---|
| `executor_safety` | pass | It checks six properties. `TypeOK`. `SynthNonceUnique`: no synthetic nonce is used for two links, committed or buffered, even across panics and restarts. `BroadcastOnlyPersisted`: everything BatchSend sent is linked on disk. `CreatedOnlyBySynthetic`: every existing data record was created by a synthetic transaction. `DirectoryListsEveryAdd`: the DirectoryUrl query of every identity returns the committed adds, each once and in call order, and the index the DBTransaction reads lists the flushed adds alike (no add of a later transaction overwrites an earlier one by reading a stale count). `SynthOutboxRefined`: the executor implements `SynthOutbox` under the refinement mapping (checked as a temporal property). Every action fires. |
| `accepted_status` | violation | The txid query finds an accepted body with status "1". This happens when `st.commit()` fails after `AddTransaction`, or when an accepted transaction is delivered again and fails. |
| `rejected_leaves_state` | violation | A transaction that was never accepted, and is recorded as rejected, leaves the updates that commit() wrote before it refused a later stage. The shortest trace takes two blocks: genesis creates chain `c1`, then a user transaction updates `c1`, a later stage is refused, and the update stays in the DBTransaction. Re-deliveries of accepted transactions are excluded; they are the `accepted_status` finding. |
| `nonce_replay` | violation | The same signed user transaction is accepted in two blocks, because the nonce is never written back. |
| `genesis_replay` | violation | After a restart, genesis is accepted a second time. |
| `dir_failed_tx` | violation | A transaction whose `st.commit()` failed still leaves its directory entry, because commit() flushed `m.writes` first; the entry is committed with the block. |
| `query_chain_id` | violation | The ChainId query decodes the request from the wrong buffer (executor.go:246), so it never finds a chain. |

The URL run uses `MC_Url.cfg`. There are 2,304 initial pairs of parsed URLs and
9,216 distinct states, reached in about 1 s. The bounds matter in two places:
* `JoinPath` on `acc://a` with the segment `b` gives the path `b`, without a
  leading slash, and paths of up to 4 characters leave room for that;
* hosts with a port, a case difference and a prefix of another host (`a`,
  `ab`) are what the chain ID properties have to tell apart.

| Run | Expect | Shows |
|---|---|---|
| `url_chain_ids` | pass | It checks three properties. `TypeOK`. `SameResourceSameIdentity`: two URLs with one resource chain have one identity chain, which depends on `ensurePath` adding the `/` after `JoinPath` on an empty path. `EqualSameResource`: URLs that `Equal` have the same resource chain. |

Each property of the passing run has a mutant, a plausible bug that TLC must
catch:

| Mutant | Breaks |
|---|---|
| the per-block delivery bound off by one | `TypeOK` |
| `nextSynthCount` reading the committed counter | `SynthNonceUnique` |
| the batch sent before a failing `dbTx.Commit` | `BroadcastOnlyPersisted` |
| commit() not checking existence | `CreatedOnlyBySynthetic` |
| `GetIndex` reading the committed index, missing this block's writes | `DirectoryListsEveryAdd` |
| Commit not persisting the synthetic counter | `SynthOutboxRefined` |
| `Parse` without the missing-host check | `TypeOK` (Url) |
| `ensurePath` not adding the separator | `SameResourceSameIdentity` |
| `chain` hashing without lower-casing | `EqualSameResource` |

**No fairness is assumed**, and no liveness property is checked. Consensus
decides when blocks happen, and the code has no retry of lost broadcasts, so
nothing in the core must eventually happen. In particular a crash between
`dbTx.Commit` and `BatchSend` (executor.go:541-564) loses persisted synthetic
transactions for good; the model takes `Commit` as one step, and an
"eventually sent" property would fail by design of the code.

## 4. Findings

Each finding is listed in PROJECT.json with its source line.

* **Status after acceptance** (executor.go:512-520). The body and status "0"
  are stored before `st.commit()`. A commit error then rewrites the status to
  "1" and leaves the body in place.
* **No rollback** (state.go:303). Updates written before a refused stage
  survive in the block, for a transaction that was never accepted.
* **Nonce never advanced** (executor.go:348, 389). Replays are accepted.
* **Genesis guard in memory only** (executor.go:489). It is lost on restart.
* **Directory entry of a failed transaction** (state.go:227). commit()
  flushes the index buffer before it checks the stages, and DeliverTx keeps
  the DBTransaction, so a rejected transaction's directory entry and count
  increment are committed. Spec 4.E says the DBTx must be discarded.
* **ChainId query** (executor.go:246). It reads its own zero field instead of
  the request.

## 5. Proofs (TLAPS)

`ExecutorProofs.tla` proves, for every value of the constants that satisfies
`StateManagerAssumption` and `ExecutorAssumption`:

* **`TypeCorrect`**: `Spec => []TypeOK`.
  * TypeOK is not inductive on its own, because `Commit` adds one to `height`.
  * The inductive invariant is `TInv == TypeOK /\ (inBlock => height < MaxHeight)`.
* **`SynthNonceUniqueness`**: `Spec => []SynthNonceUnique`. It is proved from
  `NInv`, which says:
  * committed nonces lie below the committed counter;
  * this block's nonces lie between the committed counter and the
    DBTransaction's counter;
  * a nonce names at most one link.

  How each action keeps it:
  * `DeliverAccepted` numbers upward from `dCount`;
  * `Commit` moves the buffer to disk with the counter;
  * `CommitPanic` and `Crash` drop the buffer and reread the committed counter.
* **`BroadcastAfterPersist`**: `Spec => []BroadcastOnlyPersisted`. It is
  proved from `BInv`: the queued batch is linked in the buffer, so the Commit
  that sends it lands the links first.
* **`CreateOnlySynthetic`**: `Spec => []CreatedOnlyBySynthetic`. It is proved
  from `CInv`: the committed and the buffered record of every data chain were
  created by a synthetic transaction. The key step is the lemma
  `WrittenAllowed` (StateManagerProofs): commit() writes no stage that it
  would refuse.
  * That lemma needs `OrderIsLast`: the `CHOOSE` in `Order` has a witness.
  * `OrderIsLast` is proved from the well-foundedness of `<` on Nat
    (`WFMin`, `NatLessThanWellFounded`).

* **`OutboxRefinement`** (OutboxRefinementProofs): `Spec => SynthOutboxRefined`,
  i.e. the executor implements `SynthOutbox`. The argument:
  * `InitOutbox`: the initial state maps to the empty outbox;
  * `CommitOutbox`: from `TInv`, `NInv` and `BInv`, a `Commit` is a
    `CommitBlock`. The new links are exactly `dLinks` (NInv puts their nonces
    at or above `kvCount`, where no committed link lies), their nonces lie in
    `kvCount .. dCount - 1` and are distinct (NInv), and the sent batch is
    linked in `dLinks` (BInv);
  * `OtherStepsStutter`: every other step leaves `kvLinks`, `kvCount` and
    `sent` unchanged, a stutter of the outbox.
* **`DirectoryQueryComplete`**: `Spec => []DirQueryAnswers`: the directory
  query never fails on a missing entry; it finds an identity exactly when its
  committed count is positive and returns all committed entries. It is
  proved from `DInv` (every index, committed and in the DBTransaction, has
  as many entries as its count), kept because `FlushDir` writes the adds
  right above the count (`FlushDirLen`), `Commit` copies the DBTransaction's
  index, and a panic or restart rereads the committed one.

`DirectoryProofs.tla` proves:

* **`DirectoryListsEveryAddHolds`**: `Spec => []DirectoryListsEveryAdd`:
  the DirectoryUrl query of every identity returns each committed add once
  and in call order, and the index the DBTransaction reads lists the
  flushed adds alike. The inductive invariant is `TInv /\ DInv /\ LInv`,
  where `LInv` says that the entries of every identity, committed and in the
  DBTransaction, are `LoggedFor` of the committed log and of the committed
  log followed by the block's log. `LInv` follows from the property, whose
  count conjuncts are `DInv`, so TLC checks it with every `executor_safety`
  run. The argument:
  * logging `b` after `a` appends `b`'s entries of an identity to `a`'s
    (`LoggedForConcat`): the logged positions of `a \o b` are those of `a`
    and those of `b` shifted by `Len(a)` (`LoggedAtConcat`), and the rank
    lemmas of `RankProofs` place the first ones at ranks `1..|A|` and the
    others right after;
  * a flush on an index whose count equals its length appends the adds
    (`FlushDirEnt`), and the transaction's log of an identity is its
    `DirAdds` (`DirLogAssumption`), so `FlushIndex` keeps `LInv`
    (`FlushLInv`);
  * `Commit` copies the DBTransaction's index and log to disk, and a panic
    or a restart rereads the committed ones; the empty block log adds
    nothing;
  * with `DInv`, the query returns the committed entries
    (`DirQueryAnswersFromDInv`), which `LInv` names.

The directory proofs rest on two assumptions on the constants, both facts by
induction over a call sequence that the prover cannot do (see below), so they
are stated for the model's inputs and TLC evaluates them on every
`MC_Executor` run:

* `DirCallsAssumption`: the `SelectSeq` of every call sequence in
  `ValidateCalls` is a sequence of chains;
* `DirLogAssumption`: the calls `FlushIndex` logs for an identity, taken by
  rank, are `DirAdds` of the sequence: both keep the AddDirectoryEntry calls
  of that identity in order.

`UrlProofs.tla` proves, for every alphabet, set of parse inputs and path
bound that satisfy `UrlAssumption`:

* **`TypeCorrect`**: `Spec => []TypeOK` for the URLs a caller holds.
* **`SameResourceSameIdentityHolds`**: `Spec => []SameResourceSameIdentity`.
  TypeOK is not enough for it. The inductive invariant is
  `IInv == TypeOK /\ AuthorityHasNoSlash`: no authority holds a `/`. Parse
  takes the authority from net/url's host, which ends before the first `/`,
  and `JoinPath` and `Identity` copy it. TLC checked `IInv` on `MC_Url`
  before it was proved. The argument goes as follows:
  * the hostname is a prefix of the authority (`SplitColonPrefix`), so it
    has no `/` either;
  * `ensurePath` gives the empty path or one that starts with `/`;
  * `Lower` keeps lengths and `/` and distributes over `\o`;
  * so the hashed string splits at its first `/` into the same case-folded
    hostname on both sides (`MarkBoundary`, `SplitAtMark` with the mark
    `/`).
* **`EqualSameResourceHolds`**: `Spec => []EqualSameResource`. It is proved
  from the same `IInv`. `Equal` compares `Lower(UrlString(u))`, and
  `ResourceChain` hashes `Lower(Hostname(u) \o ensurePath(u.Path))`. The
  argument goes as follows:
  * `UrlString(u)` is `"acc://"`, then the user part and `@` (or nothing
    when `UserInfo` is empty), then the authority, then
    `ensurePath(u.Path)`: the `/` that `String()` writes before a path
    without one is what `ensurePath` adds (`UrlStringShape`);
  * `Lower` distributes over `\o` and keeps `"acc://"` and `@`
    (`LowerUrlString`, `LowerMarked`);
  * the common `"acc://"` cancels. If one URL has a user part and the other
    does not, the `@` of the one would be a character of the case-folded
    authority and path of the other, and there is none. If both have one,
    the first `@` ends both user parts (`SplitAtMark` with the mark `@`),
    and they cancel. Either way the case-folded authority followed by the
    case-folded path is the same for both URLs (`EqualRest`);
  * that string splits at its first `/` (the authority has none), so the
    case-folded authorities are equal, and so are the case-folded paths;
  * the hostname of the case-folded authority is the case-folded hostname,
    because `Lower` neither makes nor removes a `:` (`HostnameLower`), so
    the hashed strings are equal.

The typing of `JoinPath` needs `path.Clean` to produce a string. That means
the `CHOOSE` in `CleanPath` must have a witness for every index. `RankOnto`
(RankProofs) proves this: the rank of a kept position maps the kept positions one-to-one
onto `1..|Keep|` (`FS_Injection`).

`UrlAssumption` states what net/url hands `Parse`. The user name and password
are strings. The host is a string without `/`, because url.Parse ends the
authority at the first `/`. The alphabet has no `@`: net/url's `String()`
escapes an `@` in the user info, and a host never holds one, so the only `@`
of the string is the one after the user part. The model's inputs in `MC_Url`
satisfy all three.

What TLC checks but TLAPS does not prove:

* the violation runs;
* what `SelectSeq` computes for every sequence (`DirCallsAssumption`,
  `DirLogAssumption`): that needs induction over data, which the installed
  provers cannot instantiate, and they cannot unfold `SelectSeq` either. This
  is why `LoggedFor` takes the logged adds by rank rather than with
  `SelectSeq`;
* any liveness property, which is out of the prover's reach (there is none
  yet).

## 6. Not modelled, and why

* **URL details.** `Port`, `Username`, `Password`, `RawString`,
  `QueryValues`, queries and fragments, `.` in paths, and percent-encoding are
  not modelled. `Url` is not composed with `Executor`, which keeps URLs
  abstracted to chain IDs and `IdentityOf`.
* **The envelope encoding and ed25519.** These are abstracted to the
  constants `TxWellFormed` and `TxSigned`.
* **Other indexes.** Only the directory index goes through `m.writes` in
  this tree; the transaction-history index is not modelled.
* **`CheckTx`**, which changes no state.
* **The TxHistory query**, which reads an index that is not modelled.
* **`SyntheticSignTransactions`**. It calls StateManager methods that state.go
  does not define.
* **Node start-up, configuration and CLI.**

## 7. Plan for later work

1. Compose `Url` with the directory: `queryDirectoryByChainId` is called
   with `u.ResourceChain()` while `AddDirectoryEntry` writes under
   `u.IdentityChain()`; the two differ for `acc://a/`.
2. Extend `Url` with `.` and `..` in paths (path.Clean) and with queries.
3. Split `Commit` into `dbTx.Commit` and `BatchSend` to model the crash
   between them.
4. Prove `RejectedTxLeavesNoState` for a variant of `DeliverCommitFailed` that
   discards the DBTransaction, as spec 4.E requires.
