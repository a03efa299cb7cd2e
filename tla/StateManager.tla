---------------------------- MODULE StateManager ----------------------------
(***************************************************************************)
(* The per-transaction state manager of src/internal/chain/state.go.       *)
(*                                                                         *)
(* A StateManager lives for one DeliverTx call: the transaction's executor *)
(* calls Update, Create and Submit on it (its Validate), and DeliverTx     *)
(* then calls commit().  Nothing of it survives the call, so it is         *)
(* modelled here by pure operators over the sequence of calls the executor *)
(* made; Executor.tla applies their result to the block's DB transaction.  *)
(*                                                                         *)
(* Records are abstracted to the chain ID they are stored under; record    *)
(* bytes, marshalling and URL strings are left out.                        *)
(***************************************************************************)
EXTENDS Naturals, Sequences, FiniteSets

CONSTANTS
  Chains,          \* chain IDs (u.ResourceChain()) of the records in play
  Identities,      \* identity URLs (u.Identity()), lower-cased
  IdentityOf,      \* the identity of the URL of each chain
  TxRecordChains,  \* chains whose record type IsTransaction()
  Absent           \* "no record under this chain ID" (storage.ErrNotFound)

ASSUME StateManagerAssumption ==
  /\ IsFiniteSet(Identities)
  /\ IdentityOf \in [Chains -> Identities]
  /\ TxRecordChains \subseteq Chains

(***************************************************************************)
(* One call an executor makes on the state manager: Update(record),        *)
(* Create(record), Submit(url, body) or AddDirectoryEntry(url), the last   *)
(* with the URL of a record, named here by its chain.  Update and Create   *)
(* of several records are several calls.                                   *)
(***************************************************************************)
Call ==
  [op : {"update", "create", "dir"}, chain : Chains] \cup [op : {"submit"}, dest : Identities]

(* The calls that go through store(), i.e. that add to m.stores. *)
StoreIdx(s) == {i \in 1..Len(s) : s[i].op \in {"update", "create"}}

(* The keys of m.stores: every chain stored at least once. *)
Staged(s) == {s[i].chain : i \in StoreIdx(s)}

(***************************************************************************)
(* storeState.order of chain c: store() overwrites order (and isCreate)    *)
(* each time the same chain is stored again, so the entry keeps the        *)
(* position of the last call on c.                                         *)
(***************************************************************************)
Order(s, c) ==
  CHOOSE i \in StoreIdx(s) :
    /\ s[i].chain = c
    /\ \A j \in StoreIdx(s) : s[j].chain = c => j <= i

(* storeState.isCreate: whether the last call on c was Create. *)
IsCreate(s, c) == s[Order(s, c)].op = "create"

(* A commit() that does not look for the record on disk at all. *)
DeniedUnchecked(s, synthetic, onDisk) == {}

(***************************************************************************)
(* The update stages that commit() refuses: the record is not on disk      *)
(* (GetPersistentEntry with allowDirty = false), it is not a transaction   *)
(* record, and the transaction is not synthetic.  onDisk is the set of     *)
(* chains that have a committed record.                                    *)
(***************************************************************************)
Denied(s, synthetic, onDisk) ==
  {c \in Staged(s) :
     /\ ~IsCreate(s, c)
     /\ c \notin onDisk
     /\ c \notin TxRecordChains
     /\ ~synthetic}

(***************************************************************************)
(* commit() walks the stages sorted by order and returns at the first      *)
(* refused one: the stages it reaches are those before every refused one.  *)
(***************************************************************************)
Walked(s, synthetic, onDisk) ==
  {c \in Staged(s) :
     \A d \in Denied(s, synthetic, onDisk) : Order(s, c) < Order(s, d)}

(* The chains commit() passes to dbTx.AddStateEntry before it returns. *)
UpdatesWritten(s, synthetic, onDisk) ==
  {c \in Walked(s, synthetic, onDisk) : ~IsCreate(s, c)}

(* Whether commit() returns "cannot create a data record ...". *)
CommitFails(s, synthetic, onDisk) == Denied(s, synthetic, onDisk) # {}

(***************************************************************************)
(* The create stages are grouped by the identity of their URL into one     *)
(* SyntheticCreateChain each, submitted once per identity.                 *)
(***************************************************************************)
CreateDests(s) == {IdentityOf[c] : c \in {d \in Staged(s) : IsCreate(s, d)}}

(* The executor's own Submit calls, in m.submissions before commit(). *)
DirectSubmits(s) == {i \in 1..Len(s) : s[i].op = "submit"}

(* len(st.submissions) after a successful commit(). *)
NumSubmissions(s) == Cardinality(DirectSubmits(s)) + Cardinality(CreateDests(s))

-----------------------------------------------------------------------------
(***************************************************************************)
(* The directory index of one identity, as the DB holds it: the count of   *)
(* its Metadata record (0 when there is none, which AddDirectoryEntry and  *)
(* the query read as NotFound) and the entries under the keys 0, 1, ...,   *)
(* entry k at position k + 1.  An entry names the record's chain.  The    *)
(* count never exceeds the entries written: each write of the count comes *)
(* with the entry under the key below it.                                 *)
(***************************************************************************)
DirIndex == {d \in [count : Nat, ent : Seq(Chains)] : d.count <= Len(d.ent)}

(* The chains AddDirectoryEntry was called with for identity i, in order. *)
DirAdds(s, i) ==
  LET calls == SelectSeq(s, LAMBDA x : x.op = "dir" /\ IdentityOf[x.chain] = i)
  IN  [k \in 1..Len(calls) |-> calls[k].chain]

(***************************************************************************)
(* The index of identity i after commit() flushed m.writes, given the      *)
(* index d that the first GetIndex of the transaction read from the DB:    *)
(* each AddDirectoryEntry reads the count (from m.writes after the first), *)
(* writes the URL under that key and the count plus one as Metadata, so   *)
(* the adds land under the keys d.count, d.count + 1, ... in order.        *)
(***************************************************************************)
FlushDir(d, adds) ==
  LET n == d.count + Len(adds)
  IN  [count |-> n,
       ent   |-> [j \in 1..(IF Len(d.ent) < n THEN n ELSE Len(d.ent)) |->
                    IF d.count < j /\ j <= n THEN adds[j - d.count] ELSE d.ent[j]]]

(* commit()'s loop over m.writes: the writes of every identity's adds. *)
FlushedIndex(s, view) ==
  [i \in Identities |-> IF DirAdds(s, i) = <<>> THEN view[i] ELSE FlushDir(view[i], DirAdds(s, i))]

=============================================================================
