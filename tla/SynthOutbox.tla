----------------------------- MODULE SynthOutbox -----------------------------
(***************************************************************************)
(* What a block validator promises about the synthetic transactions it     *)
(* produces (spec 4.G and invariant 6): seen from its committed state and  *)
(* from the network.                                                       *)
(*                                                                         *)
(* links is the committed set of <<parent, nonce>> links, count the        *)
(* committed synthetic transaction counter and sent the nonces that have   *)
(* been broadcast.  The only visible step is a block commit: it adds links *)
(* whose nonces are fresh, distinct and below the new counter, and may     *)
(* send synthetic transactions of that block and of no other.              *)
(***************************************************************************)
EXTENDS Naturals

CONSTANT Parents    \* the transactions that may produce synthetic ones

VARIABLES links, count, sent

ovars == <<links, count, sent>>

(* The nonces of a set of links. *)
Nonces(L) == {l[2] : l \in L}

Init ==
  /\ links = {}
  /\ count = 0
  /\ sent = {}

(***************************************************************************)
(* A block commits: its links are new, numbered from the old counter up to *)
(* below the new one, one link per number, and what is sent in the same   *)
(* step are synthetic transactions of this block.                          *)
(***************************************************************************)
CommitBlock ==
  LET new == links' \ links IN
  /\ count' \in Nat
  /\ count <= count'
  /\ links \subseteq links'
  /\ links' \subseteq Parents \X Nat
  /\ \A l \in new : count <= l[2] /\ l[2] < count'
  /\ \A l1, l2 \in new : l1[2] = l2[2] => l1 = l2
  /\ sent \subseteq sent'
  /\ sent' \ sent \subseteq Nonces(new)

Next == CommitBlock

Spec == Init /\ [][Next]_ovars

=============================================================================
