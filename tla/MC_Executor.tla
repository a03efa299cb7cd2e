---------------------------- MODULE MC_Executor ----------------------------
(***************************************************************************)
(* A small instance of Executor for TLC: two chains of two identities, a   *)
(* genesis envelope, a user envelope, a synthetic deposit and a malformed  *)
(* envelope.                                                               *)
(***************************************************************************)
EXTENDS Executor

CONSTANTS c1, c2, i1, i2, g, u1, d, x, k

MCChains == {c1, c2}
MCIdentities == {i1, i2}
MCIdentityOf == [c \in MCChains |-> IF c = c1 THEN i1 ELSE i2]
MCTxIds == {g, u1, d, x}
MCKeys == {k}

(* g: the genesis envelope; u1: a user envelope sponsored by c1; d: a    *)
(* synthetic deposit that creates c2; x: an envelope without SigInfo.    *)
MCTxKind == [t \in MCTxIds |->
               CASE t = g -> "genesis"
                 [] t = d -> "synthDeposit"
                 [] OTHER -> "user"]
MCTxWellFormed == [t \in MCTxIds |-> t # x]
MCTxSigned == [t \in MCTxIds |-> TRUE]
MCTxSponsor == [t \in MCTxIds |-> IF t = d THEN c2 ELSE c1]
MCTxAuthorized == [t \in MCTxIds |-> TRUE]
MCTxKey == [t \in MCTxIds |-> k]
MCTxNonce == [t \in MCTxIds |-> 1]
MCKeyNonce == [key \in MCKeys |-> 0]

Upd(c) == [op |-> "update", chain |-> c]
Cre(c) == [op |-> "create", chain |-> c]
Sub(i) == [op |-> "submit", dest |-> i]
Dir(c) == [op |-> "dir", chain |-> c]

(* What the executors' Validate may do: nothing, update the sponsor,      *)
(* update the sponsor and a second chain, create a chain and submit a     *)
(* synthetic transaction, or write a record and list it in its identity's *)
(* directory.                                                              *)
MCValidateCalls ==
  { <<>>,
    <<Upd(c1)>>,
    <<Upd(c1), Upd(c2)>>,
    <<Cre(c2), Sub(i1)>>,
    <<Upd(c2), Dir(c2)>> }

=============================================================================
