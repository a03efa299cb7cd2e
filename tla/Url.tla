-------------------------------- MODULE Url ---------------------------------
(***************************************************************************)
(* Accumulate URLs and the chain IDs derived from them                     *)
(* (src/internal/url/url.go).                                              *)
(*                                                                         *)
(* A string is a sequence of one-character strings over a small alphabet   *)
(* with upper and lower case letters, a digit, ':' and '/'.  The alphabet  *)
(* has no '.', '%', '?', '#' or '@', so path.Clean only has to fold        *)
(* slashes and net/url never percent-escapes: String() escapes an '@' of   *)
(* the user info, and a host never holds one.  SHA-256 is taken to be      *)
(* injective: a chain ID is represented by the hashed string itself.       *)
(* Query and fragment are left out (no URL in the chain package carries    *)
(* them).                                                                  *)
(*                                                                         *)
(* The variable url holds the URLs a caller derives: each starts as the    *)
(* result of a successful Parse and is then changed by JoinPath or         *)
(* Identity, which return modified copies.                                 *)
(***************************************************************************)
EXTENDS Naturals, Sequences, SequencesExt

CONSTANTS
  Handles,      \* the URL values a caller holds at once
  Chars,        \* the alphabet of the model's strings
  Schemes,      \* schemes net/url may find in the input ("" for none)
  Users,        \* user parts net/url may find in the input
  Hosts,        \* hosts net/url may find in the input
  Paths,        \* paths net/url may find in the input
  Segments,     \* path elements passed to JoinPath
  MaxPathLen    \* bound on the length of a derived path

(***************************************************************************)
(* net/url hands Parse strings: a user name and password, a host that ends *)
(* before the first '/' of the input, and a path; '@' is not among the     *)
(* characters the model's strings hold (see above).                        *)
(***************************************************************************)
ASSUME UrlAssumption ==
  /\ MaxPathLen \in Nat
  /\ {":", "/"} \subseteq Chars
  /\ "@" \notin Chars
  /\ Hosts \cup Paths \cup Segments \subseteq Seq(Chars)
  /\ Users \subseteq [name : Seq(Chars), pw : Seq(Chars), set : BOOLEAN]
  /\ \A h \in Hosts : \A i \in 1..Len(h) : h[i] # "/"

VARIABLE url

(* strings.ToLower on the alphabet: only the letters change. *)
CaseFold == [A |-> "a", B |-> "b"]
Lower(s) == [i \in DOMAIN s |-> IF s[i] \in DOMAIN CaseFold THEN CaseFold[s[i]] ELSE s[i]]

(* splitColon: the text before and after the first ':' (SplitN(s,":",2)). *)
splitColon(s) ==
  LET i == SelectInSeq(s, LAMBDA ch : ch = ":")
  IN IF i = 0 THEN <<s, <<>>>>
     ELSE <<SubSeq(s, 1, i - 1), SubSeq(s, i + 1, Len(s))>>

(* Parse without the missing-host check. *)
ParseNoHostCheck(scheme, user, host, path) ==
  LET sch == IF scheme = "" THEN "acc" ELSE scheme
      ui  == IF ~user.set THEN <<>>
             ELSE IF user.pw # <<>> THEN user.name \o <<":">> \o user.pw
             ELSE user.name
  IN IF sch # "acc" THEN [err |-> "ErrWrongScheme"]
     ELSE [err |-> "nil", url |-> [UserInfo |-> ui, Authority |-> host, Path |-> path]]

(***************************************************************************)
(* Parse, after net/url has split the input into scheme, user (name and    *)
(* password, or none), host and path.  A missing scheme is parsed again    *)
(* with "acc://" in front, which yields the same parts with scheme "acc".  *)
(***************************************************************************)
NoUser == [name |-> <<>>, pw |-> <<>>, set |-> FALSE]
Parse(scheme, user, host, path) ==
  LET sch == IF scheme = "" THEN "acc" ELSE scheme
      ui  == IF ~user.set THEN <<>>
             ELSE IF user.pw # <<>> THEN user.name \o <<":">> \o user.pw
             ELSE user.name
  IN CASE sch # "acc"                   -> [err |-> "ErrWrongScheme"]
       [] host = <<>> \/ host[1] = ":" -> [err |-> "ErrMissingHost"]
       [] OTHER -> [err |-> "nil",
                    url |-> [UserInfo |-> ui, Authority |-> host, Path |-> path]]

(* Hostname: the authority without its port. *)
Hostname(u) == splitColon(u.Authority)[1]

(* chain that hashes the string without lower-casing it. *)
chainCaseSensitive(s) == [sha256 |-> s]

(* chain: SHA-256 of the lower-cased string. *)
chain(s) == [sha256 |-> Lower(s)]

(* ensurePath that never adds the separator. *)
ensurePathNoSlash(s) == s

(* ensurePath: put a '/' in front of a non-empty path that lacks one. *)
ensurePath(s) == IF s = <<>> \/ s[1] = "/" THEN s ELSE <<"/">> \o s

(* Identity: a copy with an empty path. *)
Identity(u) == [u EXCEPT !.Path = <<>>]

(* IdentityChain = Hash(LowerCase(u.Hostname())). *)
IdentityChain(u) == chain(Hostname(u))

(* ResourceChain = Hash(LowerCase(u.Hostname() + ensurePath(u.Path))). *)
ResourceChain(u) == chain(Hostname(u) \o ensurePath(u.Path))

(***************************************************************************)
(* path.Clean of a non-empty path without '.': runs of '/' become one, and *)
(* a trailing '/' is dropped unless the path is "/".                       *)
(***************************************************************************)
CleanPath(s) ==
  LET Keep == {i \in 1..Len(s) : s[i] # "/" \/ i = 1 \/ s[i - 1] # "/"}
      f    == [k \in 1..Cardinality(Keep) |-> s[CHOOSE i \in Keep :
                  Cardinality({j \in Keep : j <= i}) = k]]
  IN IF Len(f) > 1 /\ Last(f) = "/" THEN Front(f) ELSE f

(* path.Join(p, seg): the elements from the first non-empty one, joined. *)
PathJoin(p, seg) ==
  CASE p # <<>>   -> CleanPath(p \o <<"/">> \o seg)
    [] seg # <<>> -> CleanPath(seg)
    [] OTHER      -> <<>>

(* JoinPath: a copy with seg joined to the path. *)
JoinPath(u, seg) == [u EXCEPT !.Path = PathJoin(u.Path, seg)]

(***************************************************************************)
(* u.String(), i.e. u.URL().String(): URL() splits UserInfo at its first   *)
(* ':' and sets a password only when the part after it is non-empty; the   *)
(* net/url String writes "acc://", user@, the host, and a '/' before a     *)
(* path that does not start with one.                                      *)
(***************************************************************************)
UserPart(u) ==
  LET sp == splitColon(u.UserInfo)
  IN IF sp[2] # <<>> THEN sp[1] \o <<":">> \o sp[2] ELSE sp[1]
UrlString(u) ==
  <<"acc://">>
  \o (IF u.UserInfo # <<>> THEN UserPart(u) \o <<"@">> ELSE <<>>)
  \o u.Authority
  \o (IF u.Path # <<>> /\ u.Path[1] # "/" THEN <<"/">> ELSE <<>>)
  \o u.Path

(* Equal: strings.EqualFold of the two strings. *)
Equal(u, v) == Lower(UrlString(u)) = Lower(UrlString(v))

-----------------------------------------------------------------------------
(* The URLs a successful Parse returns, for the inputs in the constants. *)
Parsed ==
  LET Outcomes == {Parse(sc, us, h, p) : sc \in Schemes, us \in Users, h \in Hosts, p \in Paths}
  IN {r.url : r \in {o \in Outcomes : o.err = "nil"}}

Init == url \in [Handles -> Parsed]

(* u.JoinPath(seg) on one of the URLs held. *)
DoJoinPath(h, seg) ==
  /\ Len(PathJoin(url[h].Path, seg)) <= MaxPathLen
  /\ url' = [url EXCEPT ![h] = JoinPath(url[h], seg)]

(* u.Identity() on one of the URLs held. *)
DoIdentity(h) == url' = [url EXCEPT ![h] = Identity(url[h])]

Next ==
  \E h \in Handles :
    \/ \E seg \in Segments : DoJoinPath(h, seg)
    \/ DoIdentity(h)

Spec == Init /\ [][Next]_url
-----------------------------------------------------------------------------
(***************************************************************************)
(* Every URL held has a user part, a non-empty authority (Parse refuses a  *)
(* missing host) and a path over the alphabet.                             *)
(***************************************************************************)
TypeOK ==
  url \in [Handles -> [UserInfo : Seq(Chars), Authority : Seq(Chars) \ {<<>>},
                       Path : Seq(Chars)]]

(***************************************************************************)
(* Two URLs with the same resource chain have the same identity chain: the *)
(* record stored under one chain ID routes to one identity, whatever       *)
(* sequence of JoinPath and Identity produced the URLs.                    *)
(***************************************************************************)
SameResourceSameIdentity ==
  \A h1, h2 \in Handles :
    ResourceChain(url[h1]) = ResourceChain(url[h2])
      => IdentityChain(url[h1]) = IdentityChain(url[h2])

(***************************************************************************)
(* URLs that Equal (case-folded string forms) name the same record: they  *)
(* have the same resource chain, although Equal compares String() and the  *)
(* chain hashes Hostname() and ensurePath(Path).                           *)
(***************************************************************************)
EqualSameResource ==
  \A h1, h2 \in Handles :
    Equal(url[h1], url[h2]) => ResourceChain(url[h1]) = ResourceChain(url[h2])

=============================================================================
