CONSTANTS
  c1 = c1
  c2 = c2
  i1 = i1
  i2 = i2
  g = g
  u1 = u1
  d = d
  x = x
  k = k
  Absent = Absent
  ZeroChain = ZeroChain
  Chains <- MCChains
  Identities <- MCIdentities
  IdentityOf <- MCIdentityOf
  TxRecordChains = {}
  TxIds <- MCTxIds
  TxKind <- MCTxKind
  TxWellFormed <- MCTxWellFormed
  TxSigned <- MCTxSigned
  TxSponsor <- MCTxSponsor
  TxAuthorized <- MCTxAuthorized
  TxKey <- MCTxKey
  TxNonce <- MCTxNonce
  Keys <- MCKeys
  KeyNonce <- MCKeyNonce
  ValidateCalls <- MCValidateCalls
  MaxHeight = 2
  MaxDeliver = 2
SPECIFICATION Spec
INVARIANT AcceptedTxHasStatusZero
