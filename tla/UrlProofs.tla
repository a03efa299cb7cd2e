------------------------------ MODULE UrlProofs ------------------------------
(***************************************************************************)
(* Proofs about the URL operators of url.go, for every alphabet, every set *)
(* of parse inputs and every path bound that satisfy UrlAssumption: the    *)
(* URLs a caller derives stay well formed, and the chain IDs derived from  *)
(* them keep identities apart.                                             *)
(***************************************************************************)
EXTENDS Url, RankProofs, FiniteSetTheorems, SequenceTheorems, WellFoundedInduction, TLAPS

-----------------------------------------------------------------------------
(*                        Lemmas on the helpers                            *)

(* Min of a non-empty set of naturals is its least element. *)
LEMMA NatSetMin ==
  ASSUME NEW S \in SUBSET Nat, S # {}
  PROVE  Min(S) \in S /\ \A y \in S : Min(S) <= y
<1>1. PICK m \in S : \A y \in S : ~(<<y, m>> \in OpToRel(<, Nat))
  BY WFMin, NatLessThanWellFounded
<1>2. \A y \in S : m <= y
  <2> SUFFICES ASSUME NEW y \in S PROVE m <= y
    OBVIOUS
  <2>1. <<y, m>> \in Nat \X Nat
    OBVIOUS
  <2>2. ~(y < m)
    BY <1>1, <2>1 DEF OpToRel
  <2>. QED
    BY <2>2
<1>. QED
  BY <1>2 DEF Min

(* splitColon's first part is the prefix of s before its first ':'. *)
LEMMA SplitColonPrefix ==
  ASSUME NEW s \in Seq(Chars)
  PROVE  /\ splitColon(s)[1] \in Seq(Chars)
         /\ Len(splitColon(s)[1]) <= Len(s)
         /\ \A k \in 1..Len(splitColon(s)[1]) : splitColon(s)[1][k] = s[k]
<1> DEFINE I == {i \in 1..Len(s) : s[i] = ":"}
<1>1. I # {} => Min(I) \in 1..Len(s)
  BY NatSetMin
<1>2. splitColon(s)[1] = IF I # {} THEN SubSeq(s, 1, Min(I) - 1) ELSE s
  BY <1>1 DEF splitColon, SelectInSeq
<1>3. \/ splitColon(s)[1] = s
      \/ \E m \in 1..Len(s) : splitColon(s)[1] = SubSeq(s, 1, m - 1)
  BY <1>1, <1>2
<1>4. CASE splitColon(s)[1] = s
  BY <1>4
<1>5. ASSUME NEW m \in 1..Len(s), splitColon(s)[1] = SubSeq(s, 1, m - 1)
      PROVE  /\ splitColon(s)[1] \in Seq(Chars)
             /\ Len(splitColon(s)[1]) <= Len(s)
             /\ \A k \in 1..Len(splitColon(s)[1]) : splitColon(s)[1][k] = s[k]
  <2>1. m - 1 \in Int /\ \A k \in 1 .. m - 1 : s[k] \in Chars
    OBVIOUS
  <2>2. /\ SubSeq(s, 1, m - 1) \in Seq(Chars)
        /\ Len(SubSeq(s, 1, m - 1)) = IF 1 <= m - 1 THEN m - 1 - 1 + 1 ELSE 0
        /\ \A k \in 1 .. m - 1 - 1 + 1 : SubSeq(s, 1, m - 1)[k] = s[1 + k - 1]
    BY <2>1, SubSeqProperties
  <2>. QED
    BY <1>5, <2>2
<1>. QED
  BY <1>3, <1>4, <1>5

(* Hostname is a prefix of the authority. *)
LEMMA HostnamePrefix ==
  ASSUME NEW u, u.Authority \in Seq(Chars)
  PROVE  /\ Hostname(u) \in Seq(Chars)
         /\ Len(Hostname(u)) <= Len(u.Authority)
         /\ \A k \in 1..Len(Hostname(u)) : Hostname(u)[k] = u.Authority[k]
BY SplitColonPrefix DEF Hostname

(* strings.ToLower keeps the length and maps '/' and only '/' to '/'. *)
LEMMA LowerProps ==
  ASSUME NEW s \in Seq(Chars)
  PROVE  /\ Lower(s) \in Seq(Chars \cup {"a", "b"})
         /\ Len(Lower(s)) = Len(s)
         /\ \A k \in 1..Len(s) : Lower(s)[k] = "/" <=> s[k] = "/"
BY DEF Lower, CaseFold

(* Lower of a concatenation is the concatenation of the Lowers. *)
LEMMA LowerConcat ==
  ASSUME NEW s \in Seq(Chars), NEW t \in Seq(Chars)
  PROVE  Lower(s \o t) = Lower(s) \o Lower(t)
<1>1. s \o t \in Seq(Chars)
  OBVIOUS
<1>2. /\ Lower(s \o t) \in Seq(Chars \cup {"a", "b"})
      /\ Len(Lower(s \o t)) = Len(s) + Len(t)
  <2>1. Lower(s \o t) \in Seq(Chars \cup {"a", "b"}) /\ Len(Lower(s \o t)) = Len(s \o t)
    BY <1>1, LowerProps
  <2>. QED
    BY <2>1
<1>3. Lower(s) \in Seq(Chars \cup {"a", "b"}) /\ Len(Lower(s)) = Len(s)
  BY LowerProps
<1>4. Lower(t) \in Seq(Chars \cup {"a", "b"}) /\ Len(Lower(t)) = Len(t)
  BY LowerProps
<1>5. /\ Lower(s) \o Lower(t) \in Seq(Chars \cup {"a", "b"})
      /\ Len(Lower(s) \o Lower(t)) = Len(s) + Len(t)
  BY <1>3, <1>4
<1>6. ASSUME NEW k \in 1..(Len(s) + Len(t))
      PROVE  Lower(s \o t)[k] = (Lower(s) \o Lower(t))[k]
  <2>0. Lower(s \o t)[k] = IF (s \o t)[k] \in DOMAIN CaseFold
                           THEN CaseFold[(s \o t)[k]] ELSE (s \o t)[k]
    BY <1>1 DEF Lower
  <2>1. CASE k <= Len(s)
    <3>1. (s \o t)[k] = s[k] /\ (Lower(s) \o Lower(t))[k] = Lower(s)[k]
      BY <2>1, <1>3
    <3>2. Lower(s)[k] = IF s[k] \in DOMAIN CaseFold THEN CaseFold[s[k]] ELSE s[k]
      BY <2>1 DEF Lower
    <3>. QED
      BY <2>0, <3>1, <3>2
  <2>2. CASE k > Len(s)
    <3>1. /\ (s \o t)[k] = t[k - Len(s)]
          /\ (Lower(s) \o Lower(t))[k] = Lower(t)[k - Len(s)]
      BY <2>2, <1>3, <1>4
    <3>2. Lower(t)[k - Len(s)] = IF t[k - Len(s)] \in DOMAIN CaseFold
                                THEN CaseFold[t[k - Len(s)]] ELSE t[k - Len(s)]
      BY <2>2 DEF Lower
    <3>. QED
      BY <2>0, <3>1, <3>2
  <2>3. k <= Len(s) \/ k > Len(s)
    OBVIOUS
  <2>. QED
    BY <2>1, <2>2, <2>3, Zenon
<1>. QED
  BY <1>2, <1>5, <1>6, SeqEqual

(* ensurePath gives the empty path or one that starts with '/'. *)
LEMMA EnsurePathShape ==
  ASSUME NEW s \in Seq(Chars)
  PROVE  /\ ensurePath(s) \in Seq(Chars)
         /\ ensurePath(s) = <<>> \/ ensurePath(s)[1] = "/"
BY UrlAssumption DEF ensurePath

(* A function on 1..n is a sequence of length n. *)
LEMMA FunIsSeq ==
  ASSUME NEW S, NEW n \in Nat, NEW f \in [1..n -> S]
  PROVE  f \in Seq(S) /\ Len(f) = n
OBVIOUS

(* Front of a sequence is a sequence over the same set. *)
LEMMA FrontType ==
  ASSUME NEW S, NEW f \in Seq(S)
  PROVE  Front(f) \in Seq(S)
<1>1. Len(f) - 1 \in Int /\ \A k \in 1..(Len(f) - 1) : f[k] \in S
  OBVIOUS
<1>. QED
  BY <1>1, SubSeqProperties DEF Front

(* path.Clean of a string over the alphabet is a string over it. *)
LEMMA CleanPathType ==
  ASSUME NEW s \in Seq(Chars)
  PROVE  CleanPath(s) \in Seq(Chars)
<1> DEFINE Keep == {i \in 1..Len(s) : s[i] # "/" \/ i = 1 \/ s[i - 1] # "/"}
<1> DEFINE f == [k \in 1..Cardinality(Keep) |-> s[CHOOSE i \in Keep :
                   Cardinality({j \in Keep : j <= i}) = k]]
<1>0. Keep \in SUBSET (1..Len(s)) /\ Len(s) \in Nat
  OBVIOUS
<1>1. Cardinality(Keep) \in Nat
  <2>1. IsFiniteSet(1..Len(s))
    BY FS_Interval
  <2>2. IsFiniteSet(Keep)
    BY <1>0, <2>1, FS_Subset
  <2>. QED
    BY <2>2, FS_CardinalityType
<1>2. \A k \in 1..Cardinality(Keep) :
        (CHOOSE i \in Keep : Cardinality({j \in Keep : j <= i}) = k) \in 1..Len(s)
  <2> SUFFICES ASSUME NEW k \in 1..Cardinality(Keep)
               PROVE  (CHOOSE i \in Keep : Cardinality({j \in Keep : j <= i}) = k) \in 1..Len(s)
    OBVIOUS
  <2>1. \E i \in Keep : Cardinality({j \in Keep : j <= i}) = k
    BY <1>0, RankOnto
  <2>. QED
    BY <2>1
<1>3. f \in Seq(Chars) /\ Len(f) = Cardinality(Keep)
  <2>0. \A k \in 1..Cardinality(Keep) : f[k] \in Chars
    <3> SUFFICES ASSUME NEW k \in 1..Cardinality(Keep) PROVE f[k] \in Chars
      OBVIOUS
    <3>1. (CHOOSE i \in Keep : Cardinality({j \in Keep : j <= i}) = k) \in 1..Len(s)
      BY <1>2
    <3>. QED
      BY <3>1 DEF f
  <2>1. f \in [1..Cardinality(Keep) -> Chars]
    BY <2>0 DEF f
  <2>2. \A n \in Nat : \A g \in [1..n -> Chars] : g \in Seq(Chars) /\ Len(g) = n
    BY FunIsSeq
  <2>. QED
    BY <1>1, <2>1, <2>2, Zenon
<1>4. Front(f) \in Seq(Chars)
  BY <1>3, FrontType, Zenon
<1>. QED
  BY <1>3, <1>4 DEF CleanPath

(* path.Join of strings over the alphabet is a string over it. *)
LEMMA PathJoinType ==
  ASSUME NEW p \in Seq(Chars), NEW seg \in Seq(Chars)
  PROVE  PathJoin(p, seg) \in Seq(Chars)
<1>1. p \o <<"/">> \o seg \in Seq(Chars)
  BY UrlAssumption
<1>. QED
  BY <1>1, CleanPathType DEF PathJoin

-----------------------------------------------------------------------------
(*                     The URLs a caller holds                             *)

(***************************************************************************)
(* The authority of a URL has no '/': Parse takes it from net/url's host,  *)
(* which ends before the first '/', and JoinPath and Identity copy it.    *)
(* TypeOK alone is not enough for SameResourceSameIdentity; this is the    *)
(* fact that separates the hostname from the path in a resource chain.    *)
(***************************************************************************)
AuthorityHasNoSlash ==
  \A h \in Handles : \A i \in 1..Len(url[h].Authority) : url[h].Authority[i] # "/"

IInv == TypeOK /\ AuthorityHasNoSlash

UrlRec == [UserInfo : Seq(Chars), Authority : Seq(Chars) \ {<<>>}, Path : Seq(Chars)]

(* A successful Parse returns a well-formed URL whose authority is a host. *)
LEMMA ParsedType ==
  ASSUME NEW u \in Parsed
  PROVE  /\ u \in UrlRec
         /\ \A i \in 1..Len(u.Authority) : u.Authority[i] # "/"
<1>1. PICK sc \in Schemes, us \in Users, h \in Hosts, p \in Paths :
        Parse(sc, us, h, p).err = "nil" /\ u = Parse(sc, us, h, p).url
  BY DEF Parsed
<1>2. (IF sc = "" THEN "acc" ELSE sc) = "acc" /\ h # <<>>
  BY <1>1 DEF Parse
<1> DEFINE ui == IF ~us.set THEN <<>>
                 ELSE IF us.pw # <<>> THEN us.name \o <<":">> \o us.pw
                 ELSE us.name
<1>3. u = [UserInfo |-> ui, Authority |-> h, Path |-> p]
  BY <1>1, <1>2 DEF Parse, ui
<1>4. ui \in Seq(Chars)
  <2>1. us.name \in Seq(Chars) /\ us.pw \in Seq(Chars) /\ ":" \in Chars
    BY UrlAssumption
  <2>. QED
    BY <2>1 DEF ui
<1>5. h \in Seq(Chars) /\ p \in Seq(Chars) /\ \A i \in 1..Len(h) : h[i] # "/"
  BY UrlAssumption
<1>. QED
  BY <1>2, <1>3, <1>4, <1>5 DEF UrlRec

(* The initial URLs satisfy the inductive invariant. *)
LEMMA InitIInv == Init => IInv
BY ParsedType DEF Init, IInv, TypeOK, AuthorityHasNoSlash, UrlRec

(* JoinPath and Identity keep the URLs well formed and their authorities. *)
LEMMA NextIInv == IInv /\ [Next]_url => IInv'
<1> SUFFICES ASSUME IInv, [Next]_url PROVE IInv'
  OBVIOUS
<1>1. url \in [Handles -> UrlRec]
  BY DEF IInv, TypeOK, UrlRec
<1>2. ASSUME NEW h \in Handles, NEW seg \in Segments, DoJoinPath(h, seg)
      PROVE  IInv'
  <2>1. PathJoin(url[h].Path, seg) \in Seq(Chars)
    BY <1>1, UrlAssumption, PathJoinType DEF UrlRec
  <2>2. url' = [url EXCEPT ![h] = [url[h] EXCEPT !.Path = PathJoin(url[h].Path, seg)]]
    BY <1>2 DEF DoJoinPath, JoinPath
  <2>3. url' \in [Handles -> UrlRec]
    BY <1>1, <2>1, <2>2 DEF UrlRec
  <2>4. \A g \in Handles : url'[g].Authority = url[g].Authority
    BY <1>1, <2>2
  <2>. QED
    BY <2>3, <2>4 DEF IInv, TypeOK, UrlRec, AuthorityHasNoSlash
<1>3. ASSUME NEW h \in Handles, DoIdentity(h)
      PROVE  IInv'
  <2>2. url' = [url EXCEPT ![h] = [url[h] EXCEPT !.Path = <<>>]]
    BY <1>3 DEF DoIdentity, Identity
  <2>1. <<>> \in Seq(Chars)
    BY EmptySeq
  <2>3. url' \in [Handles -> UrlRec]
    BY <1>1, <2>1, <2>2 DEF UrlRec
  <2>4. \A g \in Handles : url'[g].Authority = url[g].Authority
    BY <1>1, <2>2
  <2>. QED
    BY <2>3, <2>4 DEF IInv, TypeOK, UrlRec, AuthorityHasNoSlash
<1>4. CASE UNCHANGED url
  BY <1>4 DEF IInv, TypeOK, AuthorityHasNoSlash
<1>. QED
  BY <1>2, <1>3, <1>4 DEF Next

(***************************************************************************)
(* Every URL a caller derives from Parse by JoinPath and Identity has a    *)
(* user part, a non-empty authority and a path over the alphabet.          *)
(***************************************************************************)
THEOREM TypeCorrect == Spec => []TypeOK
<1>1. Spec => []IInv
  BY InitIInv, NextIInv, PTL DEF Spec
<1>. QED
  BY <1>1, PTL DEF IInv

(* A string without the character m, and one that is empty or starts    *)
(* with m.                                                                 *)
NoMark(A, m) == \A k \in 1..Len(A) : A[k] # m
MarkFirst(B, m) == B = <<>> \/ B[1] = m

(***************************************************************************)
(* If a string without the mark m followed by the empty string or a string *)
(* that starts with m equals a second such pair, the first parts are       *)
(* shorter than or as long as each other (the first m ends both).          *)
(***************************************************************************)
LEMMA MarkBoundary ==
  ASSUME NEW S, NEW m, NEW A \in Seq(S), NEW B \in Seq(S), NEW C \in Seq(S), NEW D \in Seq(S),
         NoMark(C, m), MarkFirst(B, m), A \o B = C \o D
  PROVE  Len(C) <= Len(A)
<1> SUFFICES ASSUME Len(A) < Len(C) PROVE FALSE
  OBVIOUS
<1> DEFINE q == Len(A) + 1
<1>1. q \in 1..Len(C) /\ (C \o D)[q] = C[q] /\ C[q] # m
  BY DEF NoMark
<1>2. Len(A \o B) = Len(C \o D) /\ Len(A \o B) = Len(A) + Len(B)
      /\ Len(C \o D) = Len(C) + Len(D)
  OBVIOUS
<1>3. B # <<>>
  BY <1>2
<1>4. B[1] = m /\ (A \o B)[q] = B[1]
  BY <1>3 DEF MarkFirst
<1>. QED
  BY <1>1, <1>4

(* Two strings split at the first mark m the same way: the case-folded   *)
(* hostname and path of two chains, or user part and rest of two URLs.    *)
LEMMA SplitAtMark ==
  ASSUME NEW S, NEW m, NEW A \in Seq(S), NEW B \in Seq(S), NEW C \in Seq(S), NEW D \in Seq(S),
         NoMark(A, m), NoMark(C, m), MarkFirst(B, m), MarkFirst(D, m),
         A \o B = C \o D
  PROVE  A = C
<1>1. Len(C) <= Len(A)
  BY MarkBoundary
<1>2. Len(A) <= Len(C)
  <2>1. C \o D = A \o B
    OBVIOUS
  <2>. QED
    BY <2>1, MarkBoundary
<1>3. \A k \in 1..Len(A) : A[k] = C[k]
  <2> SUFFICES ASSUME NEW k \in 1..Len(A) PROVE A[k] = C[k]
    OBVIOUS
  <2>1. (A \o B)[k] = A[k] /\ (C \o D)[k] = C[k]
    BY <1>1, <1>2
  <2>. QED
    BY <2>1
<1>4. Len(A) = Len(C)
  BY <1>1, <1>2
<1>. QED
  BY <1>3, <1>4, SeqEqual, Zenon

(***************************************************************************)
(* The two chains of a URL whose authority has no '/': the hashed resource *)
(* string is the case-folded hostname, which has no '/', followed by the  *)
(* case-folded path, which is empty or starts with '/'.                    *)
(***************************************************************************)
LEMMA ChainParts ==
  ASSUME NEW u \in UrlRec, \A i \in 1..Len(u.Authority) : u.Authority[i] # "/"
  PROVE  \E H, E \in Seq(Chars \cup {"a", "b"}) :
             /\ \A k \in 1..Len(H) : H[k] # "/"
             /\ E = <<>> \/ E[1] = "/"
             /\ ResourceChain(u) = [sha256 |-> H \o E]
             /\ IdentityChain(u) = [sha256 |-> H]
<1> DEFINE H == Lower(Hostname(u))
<1> DEFINE E == Lower(ensurePath(u.Path))
<1>1. u.Authority \in Seq(Chars) /\ u.Path \in Seq(Chars)
  BY DEF UrlRec
<1>2. /\ Hostname(u) \in Seq(Chars)
      /\ Len(Hostname(u)) <= Len(u.Authority)
      /\ \A k \in 1..Len(Hostname(u)) : Hostname(u)[k] = u.Authority[k]
  BY <1>1, HostnamePrefix
<1>3. /\ H \in Seq(Chars \cup {"a", "b"})
      /\ \A k \in 1..Len(H) : H[k] # "/"
  <2>1. /\ H \in Seq(Chars \cup {"a", "b"})
        /\ Len(H) = Len(Hostname(u))
        /\ \A k \in 1..Len(Hostname(u)) : H[k] = "/" <=> Hostname(u)[k] = "/"
    BY <1>2, LowerProps
  <2>2. \A k \in 1..Len(Hostname(u)) : Hostname(u)[k] # "/"
    BY <1>2
  <2>. QED
    BY <2>1, <2>2
<1>4. /\ ensurePath(u.Path) \in Seq(Chars)
      /\ ensurePath(u.Path) = <<>> \/ ensurePath(u.Path)[1] = "/"
  BY <1>1, EnsurePathShape
<1>5. /\ E \in Seq(Chars \cup {"a", "b"})
      /\ E = <<>> \/ E[1] = "/"
  <2>1. /\ E \in Seq(Chars \cup {"a", "b"})
        /\ Len(E) = Len(ensurePath(u.Path))
        /\ \A k \in 1..Len(ensurePath(u.Path)) : E[k] = "/" <=> ensurePath(u.Path)[k] = "/"
    BY <1>4, LowerProps
  <2>2. CASE ensurePath(u.Path) = <<>>
    BY <2>1, <2>2
  <2>3. CASE ensurePath(u.Path) # <<>>
    <3>1. 1 \in 1..Len(ensurePath(u.Path))
      BY <1>4, <2>3
    <3>. QED
      BY <1>4, <2>1, <2>3, <3>1
  <2>. QED
    BY <2>1, <2>2, <2>3
<1>6. Lower(Hostname(u) \o ensurePath(u.Path)) = H \o E
  BY <1>2, <1>4, LowerConcat
<1>. QED
  BY <1>3, <1>5, <1>6 DEF ResourceChain, IdentityChain, chain

(* Resource chains that agree have identity chains that agree. *)
LEMMA ChainsAgree ==
  ASSUME NEW H1 \in Seq(Chars \cup {"a", "b"}), NEW E1 \in Seq(Chars \cup {"a", "b"}),
         NEW H2 \in Seq(Chars \cup {"a", "b"}), NEW E2 \in Seq(Chars \cup {"a", "b"}),
         \A k \in 1..Len(H1) : H1[k] # "/",
         \A k \in 1..Len(H2) : H2[k] # "/",
         E1 = <<>> \/ E1[1] = "/",
         E2 = <<>> \/ E2[1] = "/"
  PROVE  [sha256 |-> H1 \o E1] = [sha256 |-> H2 \o E2] => [sha256 |-> H1] = [sha256 |-> H2]
<1> SUFFICES ASSUME [sha256 |-> H1 \o E1] = [sha256 |-> H2 \o E2]
             PROVE  [sha256 |-> H1] = [sha256 |-> H2]
  OBVIOUS
<1>1. H1 \o E1 = H2 \o E2
  OBVIOUS
<1>2. H1 = H2
  <2>1. NoMark(H1, "/") /\ NoMark(H2, "/") /\ MarkFirst(E1, "/") /\ MarkFirst(E2, "/")
    BY DEF NoMark, MarkFirst
  <2>. QED
    BY <1>1, <2>1, SplitAtMark
<1>. QED
  BY <1>2

(* SameResourceSameIdentity follows from the inductive invariant. *)
LEMMA SameResourceFromIInv == IInv => SameResourceSameIdentity
<1> SUFFICES ASSUME IInv, NEW h1 \in Handles, NEW h2 \in Handles
             PROVE  ResourceChain(url[h1]) = ResourceChain(url[h2])
                      => IdentityChain(url[h1]) = IdentityChain(url[h2])
  BY DEF SameResourceSameIdentity
<1>1. /\ url[h1] \in UrlRec /\ \A i \in 1..Len(url[h1].Authority) : url[h1].Authority[i] # "/"
      /\ url[h2] \in UrlRec /\ \A i \in 1..Len(url[h2].Authority) : url[h2].Authority[i] # "/"
  BY DEF IInv, TypeOK, AuthorityHasNoSlash, UrlRec
<1>2. PICK H1, E1 \in Seq(Chars \cup {"a", "b"}) :
        /\ \A k \in 1..Len(H1) : H1[k] # "/"
        /\ E1 = <<>> \/ E1[1] = "/"
        /\ ResourceChain(url[h1]) = [sha256 |-> H1 \o E1]
        /\ IdentityChain(url[h1]) = [sha256 |-> H1]
  BY <1>1, ChainParts
<1>3. PICK H2, E2 \in Seq(Chars \cup {"a", "b"}) :
        /\ \A k \in 1..Len(H2) : H2[k] # "/"
        /\ E2 = <<>> \/ E2[1] = "/"
        /\ ResourceChain(url[h2]) = [sha256 |-> H2 \o E2]
        /\ IdentityChain(url[h2]) = [sha256 |-> H2]
  BY <1>1, ChainParts
<1>4. [sha256 |-> H1 \o E1] = [sha256 |-> H2 \o E2] => [sha256 |-> H1] = [sha256 |-> H2]
  BY <1>2, <1>3, ChainsAgree
<1>. QED
  BY <1>2, <1>3, <1>4

(***************************************************************************)
(* Two URLs with the same resource chain have the same identity chain, for *)
(* every alphabet, set of parse inputs and path bound: a record's chain ID *)
(* routes to one identity whatever JoinPath and Identity made the URLs.    *)
(***************************************************************************)
THEOREM SameResourceSameIdentityHolds == Spec => []SameResourceSameIdentity
<1>1. Spec => []IInv
  BY InitIInv, NextIInv, PTL DEF Spec
<1>. QED
  BY <1>1, SameResourceFromIInv, PTL

-----------------------------------------------------------------------------
(*              Case-insensitive equality of URL strings                   *)

(* strings.ToLower on any string: it keeps the length, changes only 'A'   *)
(* and 'B', and yields lower-case letters or the characters it kept.      *)
LEMMA LowerAny ==
  ASSUME NEW S, NEW s \in Seq(S)
  PROVE  /\ Lower(s) \in Seq(S \cup {"a", "b"})
         /\ Len(Lower(s)) = Len(s)
         /\ \A k \in 1..Len(s) : s[k] \notin {"A", "B"} => Lower(s)[k] = s[k]
         /\ \A k \in 1..Len(s) : Lower(s)[k] \in {"a", "b"} \/ Lower(s)[k] = s[k]
BY DEF Lower, CaseFold

(* ToLower of a one-character string other than a capital keeps it. *)
LEMMA LowerKeeps ==
  ASSUME NEW x, x \notin {"A", "B"}
  PROVE  Lower(<<x>>) = <<x>>
BY DEF Lower, CaseFold

(* ToLower of a prefix is the prefix of the ToLower. *)
LEMMA LowerSubSeq ==
  ASSUME NEW S, NEW s \in Seq(S), NEW n \in 0..Len(s)
  PROVE  Lower(SubSeq(s, 1, n)) = SubSeq(Lower(s), 1, n)
BY DEF Lower, SubSeq

(* ToLower distributes over concatenation, for strings over any alphabet. *)
LEMMA LowerConcatAny ==
  ASSUME NEW S, NEW s \in Seq(S), NEW t \in Seq(S)
  PROVE  Lower(s \o t) = Lower(s) \o Lower(t)
<1> DEFINE T == S \cup {"a", "b"}
<1>1. /\ s \o t \in Seq(S) /\ Len(s \o t) = Len(s) + Len(t)
      /\ \A k \in 1..(Len(s) + Len(t)) :
           (s \o t)[k] = IF k <= Len(s) THEN s[k] ELSE t[k - Len(s)]
  BY ConcatProperties
<1>2. PICK st \in Seq(S) : st = s \o t
  BY <1>1, Zenon
<1>3. Lower(st) \in Seq(T) /\ Len(Lower(st)) = Len(s) + Len(t)
  BY <1>1, <1>2, LowerAny
<1>4. PICK ls \in Seq(T) : ls = Lower(s) /\ Len(ls) = Len(s)
  <2>1. Lower(s) \in Seq(T) /\ Len(Lower(s)) = Len(s)
    BY LowerAny
  <2>. QED
    BY <2>1, Zenon
<1>5. PICK lt \in Seq(T) : lt = Lower(t) /\ Len(lt) = Len(t)
  <2>1. Lower(t) \in Seq(T) /\ Len(Lower(t)) = Len(t)
    BY LowerAny
  <2>. QED
    BY <2>1, Zenon
<1>6. /\ ls \o lt \in Seq(T) /\ Len(ls \o lt) = Len(s) + Len(t)
      /\ \A k \in 1..(Len(s) + Len(t)) :
           (ls \o lt)[k] = IF k <= Len(s) THEN ls[k] ELSE lt[k - Len(s)]
  <2>1. /\ ls \o lt \in Seq(T) /\ Len(ls \o lt) = Len(ls) + Len(lt)
        /\ \A k \in 1..(Len(ls) + Len(lt)) :
             (ls \o lt)[k] = IF k <= Len(ls) THEN ls[k] ELSE lt[k - Len(ls)]
    BY ConcatProperties
  <2>. QED
    BY <1>4, <1>5, <2>1
<1>7. \A k \in 1..(Len(s) + Len(t)) : Lower(st)[k] = (ls \o lt)[k]
  <2> SUFFICES ASSUME NEW k \in 1..(Len(s) + Len(t)) PROVE Lower(st)[k] = (ls \o lt)[k]
    OBVIOUS
  <2>0. Lower(st)[k] = IF st[k] \in DOMAIN CaseFold THEN CaseFold[st[k]] ELSE st[k]
    BY <1>1, <1>2 DEF Lower
  <2>1. CASE k <= Len(s)
    <3>1. st[k] = s[k] /\ k \in 1..Len(s)
      BY <1>1, <1>2, <2>1
    <3>2. Lower(s)[k] = IF s[k] \in DOMAIN CaseFold THEN CaseFold[s[k]] ELSE s[k]
      BY <3>1 DEF Lower
    <3>3. (ls \o lt)[k] = ls[k]
      BY <1>6, <2>1
    <3>. QED
      BY <1>4, <2>0, <3>1, <3>2, <3>3
  <2>2. CASE ~(k <= Len(s))
    <3>1. st[k] = t[k - Len(s)] /\ k - Len(s) \in 1..Len(t)
      BY <1>1, <1>2, <2>2
    <3>2. Lower(t)[k - Len(s)] =
            IF t[k - Len(s)] \in DOMAIN CaseFold THEN CaseFold[t[k - Len(s)]] ELSE t[k - Len(s)]
      BY <3>1 DEF Lower
    <3>3. (ls \o lt)[k] = lt[k - Len(s)]
      BY <1>6, <2>2
    <3>. QED
      BY <1>5, <2>0, <3>1, <3>2, <3>3
  <2>. QED
    BY <2>1, <2>2
<1>8. Lower(st) = ls \o lt
  BY <1>3, <1>6, <1>7, SeqEqual
<1>. QED
  BY <1>2, <1>4, <1>5, <1>8

(* A common prefix cancels. *)
LEMMA CancelPrefix ==
  ASSUME NEW S, NEW A \in Seq(S), NEW X \in Seq(S), NEW Y \in Seq(S), A \o X = A \o Y
  PROVE  X = Y
<1>1. Len(X) = Len(Y)
  OBVIOUS
<1>2. \A k \in 1..Len(X) : X[k] = Y[k]
  <2> SUFFICES ASSUME NEW k \in 1..Len(X) PROVE X[k] = Y[k]
    OBVIOUS
  <2>1. (A \o X)[Len(A) + k] = X[k] /\ (A \o Y)[Len(A) + k] = Y[k]
    BY <1>1
  <2>. QED
    BY <2>1
<1>. QED
  BY <1>1, <1>2, SeqEqual, Zenon

(* Both parts splitColon returns are strings over the alphabet. *)
LEMMA SplitColonType ==
  ASSUME NEW s \in Seq(Chars)
  PROVE  splitColon(s)[1] \in Seq(Chars) /\ splitColon(s)[2] \in Seq(Chars)
<1> DEFINE I == {i \in 1..Len(s) : s[i] = ":"}
<1>1. I # {} => Min(I) \in 1..Len(s)
  BY NatSetMin
<1>2. splitColon(s)[2] = IF I # {} THEN SubSeq(s, Min(I) + 1, Len(s)) ELSE <<>>
  BY <1>1 DEF splitColon, SelectInSeq
<1>3. ASSUME NEW m \in 1..Len(s) PROVE SubSeq(s, m + 1, Len(s)) \in Seq(Chars)
  <2>1. m + 1 \in Int /\ \A k \in m + 1 .. Len(s) : s[k] \in Chars
    OBVIOUS
  <2>. QED
    BY <2>1, SubSeqProperties
<1>4. splitColon(s)[2] \in Seq(Chars)
  BY <1>1, <1>2, <1>3, EmptySeq
<1>. QED
  BY <1>4, SplitColonPrefix

(* The user part URL() gives net/url is a string over the alphabet. *)
LEMMA UserPartType ==
  ASSUME NEW u, u.UserInfo \in Seq(Chars)
  PROVE  UserPart(u) \in Seq(Chars)
<1>1. splitColon(u.UserInfo)[1] \in Seq(Chars) /\ splitColon(u.UserInfo)[2] \in Seq(Chars)
  BY SplitColonType
<1>2. <<":">> \in Seq(Chars)
  BY UrlAssumption
<1>. QED
  BY <1>1, <1>2 DEF UserPart

(* A string over an alphabet is a string over every larger one. *)
LEMMA SeqMono ==
  ASSUME NEW S, NEW T, S \subseteq T
  PROVE  Seq(S) \subseteq Seq(T)
BY DEF Seq

(* The user part and '@' that String() writes, or nothing. *)
Marked(u) == IF u.UserInfo # <<>> THEN UserPart(u) \o <<"@">> ELSE <<>>

(* The characters of a URL string: the alphabet, the scheme and '@'. *)
UrlChars == Chars \cup {"acc://", "@"}

(* String() is the scheme, the marked user part and the authority         *)
(* followed by ensurePath of the path.                                     *)
LEMMA UrlStringShape ==
  ASSUME NEW u \in UrlRec
  PROVE  /\ Marked(u) \in Seq(UrlChars)
         /\ ensurePath(u.Path) \in Seq(Chars)
         /\ UrlString(u) = <<"acc://">> \o (Marked(u) \o (u.Authority \o ensurePath(u.Path)))
<1>1. UserPart(u) \in Seq(Chars)
  BY UserPartType DEF UrlRec
<1>0. Seq(Chars) \subseteq Seq(UrlChars)
  <2>1. Chars \subseteq UrlChars
    BY DEF UrlChars
  <2>. QED
    BY <2>1, SeqMono
<1>2. Marked(u) \in Seq(UrlChars)
  <2>1. UserPart(u) \in Seq(UrlChars) /\ <<"@">> \in Seq(UrlChars)
    BY <1>0, <1>1 DEF UrlChars
  <2>. QED
    BY <2>1, EmptySeq DEF Marked
<1>3. u.Authority \in Seq(Chars) /\ u.Path \in Seq(Chars)
  BY DEF UrlRec
<1> DEFINE Sl == IF u.Path # <<>> /\ u.Path[1] # "/" THEN <<"/">> ELSE <<>>
<1>4. Sl \o u.Path = ensurePath(u.Path) /\ ensurePath(u.Path) \in Seq(Chars)
  <2>1. CASE u.Path = <<>>
    BY <2>1, EmptySeq DEF ensurePath
  <2>2. CASE u.Path # <<>> /\ u.Path[1] = "/"
    BY <1>3, <2>2 DEF ensurePath
  <2>3. CASE u.Path # <<>> /\ u.Path[1] # "/"
    BY <1>3, <2>3, UrlAssumption DEF ensurePath
  <2>. QED
    BY <2>1, <2>2, <2>3
<1>5. /\ <<"acc://">> \in Seq(UrlChars) /\ Sl \in Seq(UrlChars)
      /\ u.Authority \in Seq(UrlChars) /\ u.Path \in Seq(UrlChars)
      /\ ensurePath(u.Path) \in Seq(UrlChars)
  <2>1. <<"acc://">> \in Seq(UrlChars) /\ <<"/">> \in Seq(UrlChars) /\ <<>> \in Seq(UrlChars)
    BY UrlAssumption, EmptySeq DEF UrlChars
  <2>2. Sl \in Seq(UrlChars)
    BY <2>1
  <2>. QED
    BY <1>0, <1>3, <1>4, <2>1, <2>2
<1>6. PICK B \in Seq(UrlChars) : B = Sl
  BY <1>5
<1>7. PICK M \in Seq(UrlChars) : M = Marked(u)
  BY <1>2
<1>8. PICK X \in Seq(UrlChars) : X = <<"acc://">>
  BY <1>5
<1>9. UrlString(u) = (((X \o M) \o u.Authority) \o B) \o u.Path
  BY <1>6, <1>7, <1>8 DEF UrlString, Marked
<1>10. (((X \o M) \o u.Authority) \o B) \o u.Path
        = X \o (M \o (u.Authority \o (B \o u.Path)))
  <2>1. PICK A \in Seq(UrlChars) : A = u.Authority
    BY <1>5
  <2>2. PICK P \in Seq(UrlChars) : P = u.Path
    BY <1>5
  <2>3. /\ X \o M \in Seq(UrlChars) /\ (X \o M) \o A \in Seq(UrlChars)
        /\ B \o P \in Seq(UrlChars) /\ A \o (B \o P) \in Seq(UrlChars)
    OBVIOUS
  <2>4. (((X \o M) \o A) \o B) \o P = ((X \o M) \o A) \o (B \o P)
    BY <2>3, SMTT(30)
  <2>5. ((X \o M) \o A) \o (B \o P) = (X \o M) \o (A \o (B \o P))
    BY <2>3, SMTT(30)
  <2>6. (X \o M) \o (A \o (B \o P)) = X \o (M \o (A \o (B \o P)))
    BY <2>3, SMTT(30)
  <2>. QED
    BY <2>1, <2>2, <2>4, <2>5, <2>6
<1>. QED
  BY <1>2, <1>4, <1>6, <1>7, <1>8, <1>9, <1>10

(* The ToLower of String() is the scheme and the ToLowers of the parts. *)
LEMMA LowerUrlString ==
  ASSUME NEW u \in UrlRec
  PROVE  Lower(UrlString(u)) =
           <<"acc://">> \o (Lower(Marked(u)) \o (Lower(u.Authority) \o Lower(ensurePath(u.Path))))
<1>1. /\ Marked(u) \in Seq(UrlChars)
      /\ ensurePath(u.Path) \in Seq(Chars)
      /\ UrlString(u) = <<"acc://">> \o (Marked(u) \o (u.Authority \o ensurePath(u.Path)))
  BY UrlStringShape
<1>2. Seq(Chars) \subseteq Seq(UrlChars)
  <2>1. Chars \subseteq UrlChars
    BY DEF UrlChars
  <2>. QED
    BY <2>1, SeqMono
<1>3. PICK M \in Seq(UrlChars) : M = Marked(u)
  BY <1>1
<1>4. PICK A \in Seq(UrlChars) : A = u.Authority
  BY <1>2 DEF UrlRec
<1>5. PICK E \in Seq(UrlChars) : E = ensurePath(u.Path)
  BY <1>1, <1>2
<1>6. PICK X \in Seq(UrlChars) : X = <<"acc://">>
  <2>1. "acc://" \in UrlChars
    BY DEF UrlChars
  <2>2. <<"acc://">> \in Seq(UrlChars)
    BY <2>1
  <2>. QED
    BY <2>2, Zenon
<1>7. A \o E \in Seq(UrlChars) /\ M \o (A \o E) \in Seq(UrlChars)
  OBVIOUS
<1>8. Lower(X \o (M \o (A \o E))) = Lower(X) \o Lower(M \o (A \o E))
  BY <1>7, LowerConcatAny
<1>9. Lower(M \o (A \o E)) = Lower(M) \o Lower(A \o E)
  BY <1>7, LowerConcatAny
<1>10. Lower(A \o E) = Lower(A) \o Lower(E)
  BY LowerConcatAny
<1>11. Lower(X) = X
  BY <1>6, LowerKeeps
<1>. QED
  BY <1>1, <1>3, <1>4, <1>5, <1>6, <1>8, <1>9, <1>10, <1>11

(* The characters of ToLower of a string over the alphabet, and of a URL *)
(* string.                                                                 *)
LowerChars == Chars \cup {"a", "b"}
LowerUrlChars == UrlChars \cup {"a", "b"}

(* '@' is no character of the ToLower of a string over the alphabet. *)
LEMMA AtNotLower ==
  "@" \notin LowerChars /\ LowerChars \subseteq LowerUrlChars
BY UrlAssumption DEF LowerChars, LowerUrlChars, UrlChars

(* ToLower of the marked user part: nothing, or the ToLower of the user  *)
(* part, over the lower-case alphabet, followed by '@'.                    *)
LEMMA LowerMarked ==
  ASSUME NEW u \in UrlRec
  PROVE  /\ u.UserInfo = <<>> => Lower(Marked(u)) = <<>>
         /\ u.UserInfo # <<>> =>
              /\ Lower(UserPart(u)) \in Seq(LowerChars)
              /\ Lower(Marked(u)) = Lower(UserPart(u)) \o <<"@">>
<1>1. UserPart(u) \in Seq(Chars)
  BY UserPartType DEF UrlRec
<1>2. Lower(UserPart(u)) \in Seq(LowerChars)
  BY <1>1, LowerProps DEF LowerChars
<1>3. Lower(<<>>) = <<>>
  BY DEF Lower
<1>4. Lower(UserPart(u) \o <<"@">>) = Lower(UserPart(u)) \o Lower(<<"@">>)
  <2>1. PICK P \in Seq(UrlChars) : P = UserPart(u)
    BY <1>1 DEF UrlChars
  <2>2. PICK Q \in Seq(UrlChars) : Q = <<"@">>
    <3>1. <<"@">> \in Seq(UrlChars)
      BY DEF UrlChars
    <3>. QED
      BY <3>1, Zenon
  <2>3. Lower(P \o Q) = Lower(P) \o Lower(Q)
    BY LowerConcatAny
  <2>. QED
    BY <2>1, <2>2, <2>3
<1>5. Lower(<<"@">>) = <<"@">>
  BY LowerKeeps
<1>. QED
  BY <1>2, <1>3, <1>4, <1>5 DEF Marked

(* A string over the lower-case alphabet is no string with an '@' in it. *)
LEMMA NoAtInside ==
  ASSUME NEW W \in Seq(LowerChars), NEW L \in Seq(LowerUrlChars), NEW R \in Seq(LowerUrlChars),
         W = (L \o <<"@">>) \o R
  PROVE  FALSE
<1> DEFINE q == Len(L) + 1
<1>1. (L \o <<"@">>) \in Seq(LowerUrlChars) /\ Len(L \o <<"@">>) = q
      /\ (L \o <<"@">>)[q] = "@"
  BY DEF LowerUrlChars, UrlChars
<1>2. q \in 1..Len(W) /\ W[q] = "@"
  BY <1>1
<1>. QED
  BY <1>2, AtNotLower

(***************************************************************************)
(* EqualFold of two URL strings: the user parts are equal up to case      *)
(* (the first '@' ends both, since neither the user part nor the rest has *)
(* one unless a user part is there), so the rest, authority and path, is  *)
(* equal up to case.                                                       *)
(***************************************************************************)
LEMMA EqualRest ==
  ASSUME NEW u \in UrlRec, NEW v \in UrlRec, Equal(u, v)
  PROVE  Lower(u.Authority) \o Lower(ensurePath(u.Path))
           = Lower(v.Authority) \o Lower(ensurePath(v.Path))
<1>1. \A w \in UrlRec : Lower(w.Authority) \o Lower(ensurePath(w.Path)) \in Seq(LowerChars)
  <2> SUFFICES ASSUME NEW w \in UrlRec
               PROVE  Lower(w.Authority) \o Lower(ensurePath(w.Path)) \in Seq(LowerChars)
    OBVIOUS
  <2>1. w.Authority \in Seq(Chars) /\ ensurePath(w.Path) \in Seq(Chars)
    BY UrlStringShape DEF UrlRec
  <2>. QED
    BY <2>1, LowerProps DEF LowerChars
<1>2. PICK Wu \in Seq(LowerChars) : Wu = Lower(u.Authority) \o Lower(ensurePath(u.Path))
  BY <1>1
<1>3. PICK Wv \in Seq(LowerChars) : Wv = Lower(v.Authority) \o Lower(ensurePath(v.Path))
  BY <1>1
<1>4. PICK Mu \in Seq(LowerUrlChars) : Mu = Lower(Marked(u))
  <2>1. Marked(u) \in Seq(UrlChars)
    BY UrlStringShape
  <2>. QED
    BY <2>1, LowerAny DEF LowerUrlChars
<1>5. PICK Mv \in Seq(LowerUrlChars) : Mv = Lower(Marked(v))
  <2>1. Marked(v) \in Seq(UrlChars)
    BY UrlStringShape
  <2>. QED
    BY <2>1, LowerAny DEF LowerUrlChars
<1>6. Wu \in Seq(LowerUrlChars) /\ Wv \in Seq(LowerUrlChars)
  BY AtNotLower, SeqMono
<1>7. Mu \o Wu = Mv \o Wv
  <2>1. PICK X \in Seq(LowerUrlChars) : X = <<"acc://">>
    <3>1. <<"acc://">> \in Seq(LowerUrlChars)
      BY DEF LowerUrlChars, UrlChars
    <3>. QED
      BY <3>1, Zenon
  <2>2. X \o (Mu \o Wu) = X \o (Mv \o Wv)
    BY <1>2, <1>3, <1>4, <1>5, <2>1, LowerUrlString DEF Equal
  <2>3. Mu \o Wu \in Seq(LowerUrlChars) /\ Mv \o Wv \in Seq(LowerUrlChars)
    BY <1>6
  <2>. QED
    BY <2>2, <2>3, CancelPrefix
<1>8. Seq(LowerChars) \subseteq Seq(LowerUrlChars)
  BY AtNotLower, SeqMono
<1>9. PICK At \in Seq(LowerUrlChars) : At = <<"@">>
  <2>1. <<"@">> \in Seq(LowerUrlChars)
    BY DEF LowerUrlChars, UrlChars
  <2>. QED
    BY <2>1, Zenon
<1>10. CASE u.UserInfo = <<>> /\ v.UserInfo = <<>>
  <2>1. Mu = <<>> /\ Mv = <<>>
    BY <1>4, <1>5, <1>10, LowerMarked
  <2>. QED
    BY <1>2, <1>3, <1>7, <2>1
<1>11. CASE u.UserInfo = <<>> /\ v.UserInfo # <<>>
  <2>1. Mu = <<>>
    BY <1>4, <1>11, LowerMarked
  <2>2. PICK L \in Seq(LowerUrlChars) : Mv = L \o At
    BY <1>5, <1>8, <1>9, <1>11, LowerMarked
  <2>3. Wu = (L \o At) \o Wv
    BY <1>7, <2>1, <2>2
  <2>. QED
    BY <1>6, <1>9, <2>3, NoAtInside
<1>12. CASE u.UserInfo # <<>> /\ v.UserInfo = <<>>
  <2>1. Mv = <<>>
    BY <1>5, <1>12, LowerMarked
  <2>2. PICK L \in Seq(LowerUrlChars) : Mu = L \o At
    BY <1>4, <1>8, <1>9, <1>12, LowerMarked
  <2>3. Wv = (L \o At) \o Wu
    BY <1>7, <2>1, <2>2
  <2>. QED
    BY <1>6, <1>9, <2>3, NoAtInside
<1>13. CASE u.UserInfo # <<>> /\ v.UserInfo # <<>>
  <2>1. PICK Lu \in Seq(LowerChars) : Mu = Lu \o At
    BY <1>4, <1>9, <1>13, LowerMarked
  <2>2. PICK Lv \in Seq(LowerChars) : Mv = Lv \o At
    BY <1>5, <1>9, <1>13, LowerMarked
  <2>3. Lu \in Seq(LowerUrlChars) /\ Lv \in Seq(LowerUrlChars)
    BY <1>8
  <2>4. Lu \o (At \o Wu) = Lv \o (At \o Wv)
    <3>1. (Lu \o At) \o Wu = Lu \o (At \o Wu) /\ (Lv \o At) \o Wv = Lv \o (At \o Wv)
      BY <1>6, <2>3, SMTT(30)
    <3>. QED
      BY <1>7, <2>1, <2>2, <3>1
  <2>5. /\ NoMark(Lu, "@") /\ NoMark(Lv, "@")
        /\ MarkFirst(At \o Wu, "@") /\ MarkFirst(At \o Wv, "@")
    BY <1>6, <1>9, AtNotLower DEF NoMark, MarkFirst
  <2>6. At \o Wu \in Seq(LowerUrlChars) /\ At \o Wv \in Seq(LowerUrlChars)
    BY <1>6
  <2>7. Lu = Lv
    BY <2>3, <2>4, <2>5, <2>6, SplitAtMark
  <2>8. At \o Wu = At \o Wv
    BY <2>3, <2>4, <2>6, <2>7, CancelPrefix
  <2>. QED
    BY <1>2, <1>3, <1>6, <2>8, CancelPrefix
<1>. QED
  BY <1>2, <1>3, <1>10, <1>11, <1>12, <1>13

(* The hostname of the ToLower of an authority is the ToLower of its      *)
(* hostname: ToLower keeps every ':' and makes none.                       *)
LEMMA HostnameLower ==
  ASSUME NEW s \in Seq(Chars)
  PROVE  Lower(splitColon(s)[1]) = splitColon(Lower(s))[1]
<1> DEFINE I == {i \in 1..Len(s) : s[i] = ":"}
<1>1. Lower(s) \in Seq(LowerChars) /\ Len(Lower(s)) = Len(s)
  BY LowerProps DEF LowerChars
<1>2. {i \in 1..Len(Lower(s)) : Lower(s)[i] = ":"} = I
  <2>1. \A i \in 1..Len(s) : Lower(s)[i] = ":" <=> s[i] = ":"
    <3> SUFFICES ASSUME NEW i \in 1..Len(s) PROVE Lower(s)[i] = ":" <=> s[i] = ":"
      OBVIOUS
    <3>1. Lower(s)[i] = IF s[i] \in {"A", "B"} THEN CaseFold[s[i]] ELSE s[i]
      BY DEF Lower, CaseFold
    <3>2. CaseFold["A"] = "a" /\ CaseFold["B"] = "b"
      BY DEF CaseFold
    <3>. QED
      BY <3>1, <3>2
  <2>. QED
    BY <1>1, <2>1
<1>3. I # {} => Min(I) \in 1..Len(s)
  BY NatSetMin
<1>4. splitColon(s)[1] = IF I # {} THEN SubSeq(s, 1, Min(I) - 1) ELSE s
  BY <1>3 DEF splitColon, SelectInSeq
<1>5. splitColon(Lower(s))[1] = IF I # {} THEN SubSeq(Lower(s), 1, Min(I) - 1) ELSE Lower(s)
  <2>1. SelectInSeq(Lower(s), LAMBDA ch : ch = ":") = IF I = {} THEN 0 ELSE Min(I)
    BY <1>2, Zenon DEF SelectInSeq
  <2>. QED
    BY <1>3, <2>1 DEF splitColon
<1>6. ASSUME NEW m \in 1..Len(s)
      PROVE  Lower(SubSeq(s, 1, m - 1)) = SubSeq(Lower(s), 1, m - 1)
  <2>1. m - 1 \in 0..Len(s)
    OBVIOUS
  <2>. QED
    BY <2>1, LowerSubSeq
<1>. QED
  BY <1>3, <1>4, <1>5, <1>6

(***************************************************************************)
(* The resource chain of a URL whose authority has no '/' hashes the      *)
(* hostname of the ToLower of the authority followed by the ToLower of    *)
(* ensurePath(path); the one has no '/', the other is empty or starts     *)
(* with '/'.                                                               *)
(***************************************************************************)
LEMMA ResourceChainLower ==
  ASSUME NEW u \in UrlRec, \A i \in 1..Len(u.Authority) : u.Authority[i] # "/"
  PROVE  /\ Lower(u.Authority) \in Seq(LowerChars) /\ NoMark(Lower(u.Authority), "/")
         /\ Lower(ensurePath(u.Path)) \in Seq(LowerChars)
         /\ MarkFirst(Lower(ensurePath(u.Path)), "/")
         /\ ResourceChain(u) =
              [sha256 |-> splitColon(Lower(u.Authority))[1] \o Lower(ensurePath(u.Path))]
<1>1. u.Authority \in Seq(Chars) /\ u.Path \in Seq(Chars)
  BY DEF UrlRec
<1>2. ensurePath(u.Path) \in Seq(Chars) /\ MarkFirst(ensurePath(u.Path), "/")
  BY <1>1, EnsurePathShape DEF MarkFirst
<1>3. Lower(u.Authority) \in Seq(LowerChars) /\ NoMark(Lower(u.Authority), "/")
  BY <1>1, LowerProps DEF LowerChars, NoMark
<1>4. Lower(ensurePath(u.Path)) \in Seq(LowerChars)
      /\ MarkFirst(Lower(ensurePath(u.Path)), "/")
  <2>1. /\ Lower(ensurePath(u.Path)) \in Seq(LowerChars)
        /\ Len(Lower(ensurePath(u.Path))) = Len(ensurePath(u.Path))
        /\ \A k \in 1..Len(ensurePath(u.Path)) :
             Lower(ensurePath(u.Path))[k] = "/" <=> ensurePath(u.Path)[k] = "/"
    BY <1>2, LowerProps DEF LowerChars
  <2>. QED
    BY <1>2, <2>1 DEF MarkFirst
<1>5. Hostname(u) \in Seq(Chars)
  BY <1>1, HostnamePrefix
<1>6. Lower(Hostname(u) \o ensurePath(u.Path)) = Lower(Hostname(u)) \o Lower(ensurePath(u.Path))
  BY <1>2, <1>5, LowerConcat
<1>7. Lower(Hostname(u)) = splitColon(Lower(u.Authority))[1]
  BY <1>1, HostnameLower DEF Hostname
<1>. QED
  BY <1>3, <1>4, <1>6, <1>7 DEF ResourceChain, chain

(* EqualSameResource follows from the inductive invariant. *)
LEMMA EqualSameResourceFromIInv == IInv => EqualSameResource
<1> SUFFICES ASSUME IInv, NEW h1 \in Handles, NEW h2 \in Handles, Equal(url[h1], url[h2])
             PROVE  ResourceChain(url[h1]) = ResourceChain(url[h2])
  BY DEF EqualSameResource
<1>1. /\ url[h1] \in UrlRec /\ \A i \in 1..Len(url[h1].Authority) : url[h1].Authority[i] # "/"
      /\ url[h2] \in UrlRec /\ \A i \in 1..Len(url[h2].Authority) : url[h2].Authority[i] # "/"
  BY DEF IInv, TypeOK, AuthorityHasNoSlash, UrlRec
<1>2. PICK A1, E1 \in Seq(LowerChars) :
        /\ A1 = Lower(url[h1].Authority) /\ E1 = Lower(ensurePath(url[h1].Path))
        /\ NoMark(A1, "/") /\ MarkFirst(E1, "/")
        /\ ResourceChain(url[h1]) = [sha256 |-> splitColon(A1)[1] \o E1]
  BY <1>1, ResourceChainLower
<1>3. PICK A2, E2 \in Seq(LowerChars) :
        /\ A2 = Lower(url[h2].Authority) /\ E2 = Lower(ensurePath(url[h2].Path))
        /\ NoMark(A2, "/") /\ MarkFirst(E2, "/")
        /\ ResourceChain(url[h2]) = [sha256 |-> splitColon(A2)[1] \o E2]
  BY <1>1, ResourceChainLower
<1>4. A1 \o E1 = A2 \o E2
  BY <1>1, <1>2, <1>3, EqualRest
<1>5. A1 = A2
  BY <1>2, <1>3, <1>4, SplitAtMark
<1>6. E1 = E2
  BY <1>4, <1>5, CancelPrefix
<1>. QED
  BY <1>2, <1>3, <1>5, <1>6

(***************************************************************************)
(* Two URLs that Equal (EqualFold of their strings) have the same resource *)
(* chain, for every alphabet, set of parse inputs and path bound: Equal    *)
(* never joins URLs that name different records.                          *)
(***************************************************************************)
THEOREM EqualSameResourceHolds == Spec => []EqualSameResource
<1>1. Spec => []IInv
  BY InitIInv, NextIInv, PTL DEF Spec
<1>. QED
  BY <1>1, EqualSameResourceFromIInv, PTL
=============================================================================
