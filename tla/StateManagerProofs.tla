------------------------- MODULE StateManagerProofs -------------------------
(***************************************************************************)
(* Facts about the state manager's commit operators that the executor's    *)
(* proofs cite: what commit() writes stays among the chains, and the       *)
(* number of synthetic submissions is a natural number.                    *)
(***************************************************************************)
EXTENDS StateManager, FiniteSetTheorems, WellFoundedInduction, TLAPS

(* A store call names a chain. *)
LEMMA StoreCallChain ==
  ASSUME NEW s \in Seq(Call), NEW i \in StoreIdx(s)
  PROVE  s[i].chain \in Chains
<1>1. i \in 1..Len(s) /\ s[i].op \in {"update", "create"}
  BY DEF StoreIdx
<1>2. s[i] \in Call
  BY <1>1
<1>3. s[i] \in [op : {"update", "create"}, chain : Chains]
  BY <1>1, <1>2 DEF Call
<1>. QED
  BY <1>3

(* m.stores only holds chains the executor stored. *)
LEMMA StagedChains ==
  ASSUME NEW s \in Seq(Call)
  PROVE  Staged(s) \subseteq Chains
BY StoreCallChain DEF Staged

(* commit() writes only chains of the model. *)
LEMMA UpdatesWrittenChains ==
  ASSUME NEW s \in Seq(Call), NEW syn, NEW od
  PROVE  UpdatesWritten(s, syn, od) \subseteq Chains
BY StagedChains DEF UpdatesWritten, Walked

(* len(st.submissions) after commit() is a natural number. *)
LEMMA NumSubmissionsNat ==
  ASSUME NEW s \in Seq(Call)
  PROVE  NumSubmissions(s) \in Nat
<1>1. IsFiniteSet(DirectSubmits(s))
  <2>1. IsFiniteSet(1..Len(s))
    BY FS_Interval
  <2>2. DirectSubmits(s) \subseteq 1..Len(s)
    BY DEF DirectSubmits
  <2>. QED
    BY <2>1, <2>2, FS_Subset
<1>2. IsFiniteSet(CreateDests(s))
  <2>1. CreateDests(s) \subseteq Identities
    BY StagedChains, StateManagerAssumption DEF CreateDests
  <2>. QED
    BY <2>1, StateManagerAssumption, FS_Subset
<1>. QED
  BY <1>1, <1>2, FS_CardinalityType DEF NumSubmissions

(***************************************************************************)
(* storeState.order of a staged chain is the position of the last store()  *)
(* call on it: the CHOOSE of Order has a witness, because a non-empty set  *)
(* of positions has a largest element (the least of its distances to       *)
(* Len(s), by well-foundedness of < on Nat).                              *)
(***************************************************************************)
LEMMA OrderIsLast ==
  ASSUME NEW s \in Seq(Call), NEW c \in Staged(s)
  PROVE  /\ Order(s, c) \in StoreIdx(s)
         /\ s[Order(s, c)].chain = c
         /\ \A j \in StoreIdx(s) : s[j].chain = c => j <= Order(s, c)
<1> DEFINE S == {i \in StoreIdx(s) : s[i].chain = c}
           T == {Len(s) - i : i \in S}
<1>1. S # {} /\ S \subseteq 1..Len(s)
  BY DEF Staged, StoreIdx
<1>2. T \subseteq Nat /\ T # {}
  BY <1>1
<1>3. PICK m \in T : \A y \in T : ~(<<y, m>> \in OpToRel(<, Nat))
  BY <1>2, WFMin, NatLessThanWellFounded
<1>4. \A y \in T : m <= y
  <2> SUFFICES ASSUME NEW y \in T PROVE m <= y
    OBVIOUS
  <2>1. y \in Nat /\ m \in Nat
    BY <1>2
  <2>2. <<y, m>> \in Nat \X Nat
    BY <2>1
  <2>3. ~(y < m)
    BY <1>3, <2>2 DEF OpToRel
  <2>. QED
    BY <2>1, <2>3
<1>5. PICK i \in S : m = Len(s) - i
  OBVIOUS
<1>6. \A j \in S : j <= i
  <2> SUFFICES ASSUME NEW j \in S PROVE j <= i
    OBVIOUS
  <2>1. m <= Len(s) - j
    BY <1>4
  <2>. QED
    BY <1>1, <1>5, <2>1
<1>7. \E k \in StoreIdx(s) :
         s[k].chain = c /\ \A j \in StoreIdx(s) : s[j].chain = c => j <= k
  BY <1>5, <1>6
<1>. QED
  BY <1>7 DEF Order

(***************************************************************************)
(* What commit() passes to AddStateEntry before it returns is never a      *)
(* refused stage: a data record it writes is on disk already, or the       *)
(* transaction is synthetic.                                               *)
(***************************************************************************)
LEMMA WrittenAllowed ==
  ASSUME NEW s \in Seq(Call), NEW syn, NEW od,
         NEW c \in UpdatesWritten(s, syn, od), c \notin TxRecordChains
  PROVE  c \in od \/ syn
<1> SUFFICES ASSUME c \notin od, ~syn PROVE FALSE
  OBVIOUS
<1>1. c \in Staged(s) /\ ~IsCreate(s, c)
  BY DEF UpdatesWritten, Walked
<1>2. c \in Denied(s, syn, od)
  BY <1>1 DEF Denied
<1>3. Order(s, c) < Order(s, c)
  BY <1>2 DEF UpdatesWritten, Walked
<1>4. Order(s, c) \in Nat
  BY <1>1, OrderIsLast DEF StoreIdx
<1>. QED
  BY <1>3, <1>4

=============================================================================
