--------------------- MODULE AuthorityEndpointsProofs ---------------------
(***************************************************************************)
(* AuthorityEndpoints: a walk through pages tells what it should and the   *)
(* status of a Trust Mark only gets worse, for any set of subjects, any    *)
(* sizes of pages and batches and any number of writes.                    *)
(***************************************************************************)
EXTENDS AuthorityEndpoints, TLAPS, FiniteSetTheorems, SequenceTheorems, WellFoundedInduction

Marks == [sub : Subjects, iat : 0..MaxTime, kid : 1..MaxKid, active : BOOLEAN]
Asked == pc \in {"keys", "verify"}

(* Writers: a JWT has one record, and a key number is used once.           *)
StoreInv ==
    /\ DOMAIN rows = Subjects /\ marks \subseteq Marks /\ now \in 0..MaxTime /\ config \in Scenarios
    /\ signer \in 1..MaxKid /\ published \subseteq 1..signer
    /\ \A m \in marks : m.kid <= signer
    /\ \A m, n \in marks : Jwt(m) = Jwt(n) => m = n

(* What writers do to the store, the keys and the clock.                   *)
SameMark(m, n) == Jwt(m) = Jwt(n) /\ (n.active => m.active)
Mono ==
    /\ now <= now' /\ signer <= signer' /\ published' \cap 1..signer \subseteq published
    /\ \A m \in marks : \E n \in marks' : SameMark(m, n)
    /\ \A n \in marks' : \/ \E m \in marks : SameMark(m, n)
                         \/ \A m \in marks : Jwt(m) # Jwt(n)

(* What was told of a mark is still true of it.                            *)
Revoked(j) == \A m \in marks : Jwt(m) = j => ~m.active
Retired(j, jwks) == (j.kid \notin jwks /\ j.kid <= signer) \/ now >= Exp(j) + Skew
ToldTrue(j) ==
    /\ told[j] \in DOMAIN Rank
    /\ told[j] # "nothing" => \E m \in marks : Jwt(m) = j
    /\ told[j] = "revoked" => Revoked(j)
    /\ told[j] = "invalid" => Retired(j, published)
    /\ told[j] = "expired" => Exp(j) <= now

(* A request about a mark reads it after what was told about it.           *)
AskedInv ==
    LET m == q.mark j == Jwt(m)
    IN  /\ m \in Marks /\ q.at \in 0..now /\ \E n \in marks : Jwt(n) = j
        /\ ~m.active => Revoked(j)
        /\ told[j] = "revoked" => ~m.active
        /\ told[j] = "expired" => Exp(m) <= q.at
        /\ pc = "verify" => /\ Exp(m) > q.at /\ published \cap 1..m.kid \subseteq q.jwks
                            /\ told[j] = "invalid" => Retired(j, q.jwks)

StatusInv ==
    /\ StoreInv /\ DOMAIN told = Jwts /\ \A j \in Jwts : ToldTrue(j)
    /\ Asked => AskedInv
----------------------------------------------------------------------------
LEMMA Sizes ==
    /\ Subjects \subseteq Nat /\ IsFiniteSet(Subjects) /\ MaxTime \in Nat /\ Ttl \in Nat /\ Skew \in Nat
    /\ MaxKid \in Nat /\ MaxKid >= 1 /\ MarkPage \in Nat /\ MarkPage >= 1
    /\ \A n \in Limits : n \in Nat /\ n >= 1
    /\ \A c \in Scenarios : c.batch \in Nat /\ c.batch >= 1
<1>1. Limits \cup {MarkPage, MaxKid} \subseteq Nat \ {0}
  BY SizeAssumption
<1>2. \A n \in Nat \ {0} : n \in Nat /\ n >= 1
  OBVIOUS
<1>3. \A c \in Scenarios : c.batch \in Nat \ {0}
  BY SizeAssumption
<1>4. Subjects \subseteq Nat /\ IsFiniteSet(Subjects) /\ MaxTime \in Nat /\ Ttl \in Nat /\ Skew \in Nat
  BY SizeAssumption
<1> QED
  BY <1>1, <1>2, <1>3, <1>4

LEMMA JwtFacts ==
    ASSUME NEW m \in Marks
    PROVE  /\ Jwt(m) \in Jwts /\ Jwt(m).iat = m.iat /\ Jwt(m).kid = m.kid /\ Jwt(m).sub = m.sub
           /\ Exp(Jwt(m)) = Exp(m) /\ Exp(m) \in Nat /\ m.kid \in 1..MaxKid
           /\ [m EXCEPT !.active = FALSE] \in Marks
           /\ Jwt([m EXCEPT !.active = FALSE]) = Jwt(m)
<1>1. m \in [sub : Subjects, iat : 0..MaxTime, kid : 1..MaxKid, active : BOOLEAN]
  BY DEF Marks
<1>2. m.sub \in Subjects /\ m.iat \in 0..MaxTime /\ m.kid \in 1..MaxKid
  BY <1>1
<1> DEFINE j == [sub |-> m.sub, iat |-> m.iat, kid |-> m.kid]
           x == [m EXCEPT !.active = FALSE]
<1>3. j \in Jwts /\ j.iat = m.iat /\ j.kid = m.kid /\ j.sub = m.sub
  BY <1>2 DEF Jwts
<1>4. x \in Marks /\ x.sub = m.sub /\ x.iat = m.iat /\ x.kid = m.kid
  BY <1>1 DEF Marks
<1>5. Exp(j) = Exp(m) /\ Exp(m) \in Nat
  BY <1>2, <1>3, Sizes DEF Exp
<1>6. Jwt(m) = j /\ Jwt(x) = j
  BY <1>4 DEF Jwt
<1> HIDE DEF j, x
<1> QED
  BY <1>2, <1>3, <1>4, <1>5, <1>6 DEF x

LEMMA SameItself == \A m : SameMark(m, m)
BY DEF SameMark

LEMMA StoreInit == ASSUME Init PROVE StoreInv
<1> DEFINE first(s) == [sub |-> s, iat |-> 0, kid |-> 1, active |-> TRUE]
<1>1. /\ rows \in [Subjects -> {0, NoRow}] /\ signer = 1 /\ published = {1} /\ now = 0
      /\ config \in Scenarios /\ marks \subseteq {first(s) : s \in Subjects}
  BY DEF Init
<1>2. \A s \in Subjects : first(s) \in Marks /\ first(s).kid = 1 /\ Jwt(first(s)).sub = s
  BY Sizes DEF Marks, Jwt
<1> HIDE DEF first
<1>3. \A m, n \in marks : Jwt(m) = Jwt(n) => m = n
  BY <1>1, <1>2
<1>4. \A m \in marks : m \in Marks /\ m.kid <= signer
  BY <1>1, <1>2
<1> QED
  BY <1>1, <1>3, <1>4, Sizes DEF StoreInv

(* The store when neither marks nor keys nor the clock change.             *)
LEMMA StoreSame ==
    ASSUME StoreInv, UNCHANGED <<marks, signer, published, now, config>>, DOMAIN rows' = Subjects
    PROVE  StoreInv' /\ Mono
<1>1. now <= now /\ signer <= signer
  BY DEF StoreInv
<1> QED
  BY <1>1, SameItself DEF StoreInv, Mono

LEMMA IssueStep == ASSUME StoreInv, NEW s \in Subjects, Issue(s) PROVE StoreInv' /\ Mono
<1> DEFINE m == [sub |-> s, iat |-> now, kid |-> signer, active |-> TRUE]
<1>1. /\ marks' = marks \cup {m} /\ \A n \in marks : Jwt(n) # Jwt(m)
      /\ UNCHANGED <<rows, signer, published, now, config>>
  BY DEF Issue, SetMarks, Write, keys
<1>2. m \in Marks /\ m.kid = signer
  BY DEF StoreInv, Marks
<1> HIDE DEF m
<1>3. StoreInv'
  BY <1>1, <1>2 DEF StoreInv
<1>4. Mono
  <2>1. now <= now' /\ signer <= signer' /\ published' = published
    BY <1>1 DEF StoreInv
  <2> QED
    BY <1>1, <2>1, SameItself DEF Mono
<1> QED
  BY <1>3, <1>4

LEMMA RevokeStep == ASSUME StoreInv, NEW s \in Subjects, RevokeMarks(s) PROVE StoreInv' /\ Mono
<1> DEFINE to(m) == IF m.sub = s THEN [m EXCEPT !.active = FALSE] ELSE m
<1>1. /\ marks' = {to(m) : m \in marks} /\ UNCHANGED <<rows, signer, published, now, config>>
  BY DEF RevokeMarks, SetMarks, Write, keys
<1>2. \A m \in marks : /\ m \in Marks /\ to(m) \in Marks /\ Jwt(to(m)) = Jwt(m) /\ to(m).kid = m.kid
                       /\ SameMark(m, to(m))
  <2> SUFFICES ASSUME NEW m \in marks
               PROVE  /\ m \in Marks /\ to(m) \in Marks /\ Jwt(to(m)) = Jwt(m) /\ to(m).kid = m.kid
                      /\ (to(m).active => m.active)
    BY DEF SameMark
  <2>1. m \in Marks
    BY DEF StoreInv
  <2>2. CASE m.sub = s
    <3>1. [m EXCEPT !.active = FALSE].active = FALSE /\ [m EXCEPT !.active = FALSE].kid = m.kid
      BY <2>1 DEF Marks
    <3> QED
      BY <2>1, <2>2, <3>1, JwtFacts
  <2>3. CASE m.sub # s
    BY <2>1, <2>3
  <2> QED
    BY <2>2, <2>3
<1> HIDE DEF to
<1>3. StoreInv'
  BY <1>1, <1>2 DEF StoreInv
<1>4. Mono
  <2>1. now <= now' /\ signer <= signer' /\ published' = published
    BY <1>1 DEF StoreInv
  <2> QED
    BY <1>1, <1>2, <2>1 DEF Mono
<1> QED
  BY <1>3, <1>4

LEMMA KeyStep ==
    ASSUME StoreInv, SwitchKey \/ \E k \in 1..MaxKid : RemoveKey(k)
    PROVE  StoreInv' /\ Mono
<1>1. /\ UNCHANGED <<rows, marks, now, config>>
      /\ signer' \in 1..MaxKid /\ signer <= signer' /\ published' \subseteq 1..signer'
      /\ published' \cap 1..signer \subseteq published
  <2>1. CASE SwitchKey
    BY <2>1, Sizes DEF SwitchKey, SetKeys, Write, store, StoreInv
  <2>2. CASE \E k \in 1..MaxKid : RemoveKey(k)
    BY <2>2, Sizes DEF RemoveKey, SetKeys, Write, store, StoreInv
  <2> QED
    BY <2>1, <2>2
<1>2. \A m \in marks : m.kid <= signer'
  <2>1. \A m \in marks : m \in Marks /\ m.kid <= signer
    BY DEF StoreInv
  <2>2. \A m \in marks : m.kid \in 1..MaxKid
    BY <2>1 DEF Marks
  <2> QED
    BY <1>1, <2>1, <2>2 DEF StoreInv
<1>3. StoreInv'
  BY <1>1, <1>2 DEF StoreInv
<1>4. Mono
  BY <1>1, SameItself DEF Mono, StoreInv
<1> QED
  BY <1>3, <1>4

(* A write or the clock leaves the client alone.                           *)
Writing == Writers \/ Tick

LEMMA WritingSteps ==
    ASSUME StoreInv, Writing PROVE StoreInv' /\ Mono /\ UNCHANGED <<pc, q, walk, told, config>>
<1>1. CASE \E s \in Subjects : Register(s) \/ Update(s) \/ RemoveRow(s)
  <2>1. /\ UNCHANGED <<marks, signer, published, now, config, pc, q, walk, told>>
        /\ DOMAIN rows' = DOMAIN rows
    BY <1>1 DEF Register, Update, RemoveRow, SetRow, Write, keys, client
  <2> QED
    BY <2>1, StoreSame DEF StoreInv
<1>2. CASE \E s \in Subjects : Issue(s)
  <2>1. UNCHANGED <<pc, q, walk, told, config>>
    BY <1>2 DEF Issue, SetMarks, Write, client
  <2> QED
    BY <1>2, <2>1, IssueStep
<1>3. CASE \E s \in Subjects : RevokeMarks(s)
  <2>1. UNCHANGED <<pc, q, walk, told, config>>
    BY <1>3 DEF RevokeMarks, SetMarks, Write, client
  <2> QED
    BY <1>3, <2>1, RevokeStep
<1>4. CASE SwitchKey \/ \E k \in 1..MaxKid : RemoveKey(k)
  <2>1. UNCHANGED <<pc, q, walk, told, config>>
    BY <1>4 DEF SwitchKey, RemoveKey, SetKeys, Write, client
  <2> QED
    BY <1>4, <2>1, KeyStep
<1>5. CASE Tick
  <2>1. /\ now' = now + 1 /\ now < MaxTime
        /\ UNCHANGED <<rows, marks, signer, published, config, pc, q, walk, told>>
    BY <1>5 DEF Tick, store, keys, client
  <2>2. now' \in 0..MaxTime /\ now <= now' /\ signer <= signer'
    BY <2>1, Sizes DEF StoreInv
  <2> QED
    BY <2>1, <2>2, SameItself DEF StoreInv, Mono
<1> QED
  BY <1>1, <1>2, <1>3, <1>4, <1>5 DEF Writing, Writers
----------------------------------------------------------------------------
(* What was told stays true when writers write.                            *)
LEMMA RevokedStays == ASSUME Mono, NEW j, Revoked(j), \E m \in marks : Jwt(m) = j PROVE Revoked(j)'
BY DEF Mono, Revoked, SameMark

LEMMA KnownStays == ASSUME Mono, NEW j, \E m \in marks : Jwt(m) = j PROVE \E m \in marks' : Jwt(m) = j
BY DEF Mono, SameMark

LEMMA JwtTypes == ASSUME NEW j \in Jwts PROVE j.kid \in 1..MaxKid /\ Exp(j) \in Nat /\ Exp(j) + Skew \in Nat
<1>1. j.kid \in 1..MaxKid /\ j.iat \in 0..MaxTime
  BY DEF Jwts
<1> QED
  BY <1>1, Sizes DEF Exp

LEMMA RetiredStays ==
    ASSUME StoreInv, StoreInv', Mono, NEW j \in Jwts, Retired(j, published) PROVE Retired(j, published)'
<1>1. j.kid \in 1..MaxKid /\ Exp(j) + Skew \in Nat /\ Exp(j)' = Exp(j)
  BY JwtTypes DEF Exp
<1>2. now \in Nat /\ now' \in Nat /\ signer \in Nat /\ signer' \in Nat /\ now <= now' /\ signer <= signer'
  BY Sizes DEF StoreInv, Mono
<1>3. j.kid <= signer /\ j.kid \notin published => j.kid \notin published' /\ j.kid <= signer'
  BY <1>1, <1>2 DEF Mono
<1> QED
  BY <1>1, <1>2, <1>3 DEF Retired

LEMMA ToldStays ==
    ASSUME StoreInv, StoreInv', Mono, told' = told, NEW j \in Jwts, ToldTrue(j) PROVE ToldTrue(j)'
<1>1. told'[j] = told[j] /\ told[j] \in DOMAIN Rank
  BY DEF ToldTrue
<1>2. told[j] # "nothing" => \E m \in marks' : Jwt(m) = j
  BY KnownStays DEF ToldTrue
<1>3. told[j] = "revoked" => Revoked(j)'
  BY RevokedStays DEF ToldTrue
<1>4. told[j] = "invalid" => Retired(j, published)'
  BY RetiredStays DEF ToldTrue
<1>5. told[j] = "expired" => Exp(j) <= now'
  <2>1. now \in Nat /\ now' \in Nat /\ now <= now' /\ Exp(j) \in Nat
    BY JwtTypes, Sizes DEF StoreInv, Mono
  <2> QED
    BY <2>1 DEF ToldTrue
<1> QED
  BY <1>1, <1>2, <1>3, <1>4, <1>5 DEF ToldTrue, Rank, Exp

LEMMA AskedStays ==
    ASSUME StoreInv, StoreInv', Mono, UNCHANGED <<pc, q, told>>, AskedInv PROVE AskedInv'
<1>1. PICK m \in Marks : m = q.mark
  BY DEF AskedInv
<1>2. PICK j \in Jwts : j = Jwt(m) /\ j.kid = m.kid /\ m.kid \in 1..MaxKid
  BY JwtFacts
<1>3. q.mark = m /\ q'.mark = m /\ Jwt(q.mark) = j /\ q' = q /\ pc' = pc /\ told' = told
  BY <1>1, <1>2
<1>4. /\ q.at \in 0..now /\ (\E n \in marks : Jwt(n) = j) /\ (~m.active => Revoked(j))
      /\ told[j] = "revoked" => ~m.active
      /\ told[j] = "expired" => Exp(m) <= q.at
      /\ pc = "verify" => /\ Exp(m) > q.at /\ published \cap 1..m.kid \subseteq q.jwks
                          /\ told[j] = "invalid" => Retired(j, q.jwks)
  BY <1>3 DEF AskedInv
<1>5. now \in Nat /\ now' \in Nat /\ signer \in Nat /\ signer' \in Nat /\ now <= now' /\ signer <= signer'
  BY Sizes DEF StoreInv, Mono
<1>6. (\E n \in marks' : Jwt(n) = j) /\ (~m.active => Revoked(j)')
  BY <1>4, KnownStays, RevokedStays
<1>7. q.at \in 0..now'
  BY <1>4, <1>5
<1>8. ASSUME pc = "verify"
      PROVE  /\ published' \cap 1..m.kid \subseteq q.jwks
             /\ told[j] = "invalid" => Retired(j, q.jwks)'
  <2>1. m.kid <= signer
    <3>1. PICK n \in marks : Jwt(n) = j
      BY <1>4
    <3>2. n \in Marks /\ n.kid <= signer
      BY DEF StoreInv
    <3> QED
      BY <1>2, <3>1, <3>2, JwtFacts
  <2>2. published' \cap 1..m.kid \subseteq published
    BY <1>2, <1>5, <2>1 DEF Mono
  <2>3. ASSUME NEW jwks, Retired(j, jwks) PROVE Retired(j, jwks)'
    <3>1. Exp(j) + Skew \in Nat /\ Exp(j)' = Exp(j) /\ j.kid \in Nat
      BY <1>2, JwtTypes DEF Exp
    <3> QED
      BY <1>5, <2>3, <3>1 DEF Retired
  <2>4. Retired(j, q.jwks) => Retired(j, q.jwks)'
    BY <1>3, <2>3
  <2> QED
    BY <1>4, <1>8, <2>2, <2>4
<1>9. Exp(m)' = Exp(m)
  BY DEF Exp
<1> QED
  BY <1>3, <1>4, <1>6, <1>7, <1>8, <1>9 DEF AskedInv

(* The client's steps: those of a walk tell nothing about marks.           *)
Walking == pc \in {"cursor", "page"}
Quiet ==
    \/ \E f \in Filters : AskList(f)
    \/ \E f \in Filters, n \in Limits : AskExtended(f, n)
    \/ AskMarked \/ List \/ LookUpCursor \/ FillPage \/ ListMarked \/ ServerError

LEMMA QuietSteps ==
    ASSUME Quiet
    PROVE  /\ UNCHANGED <<rows, marks, signer, published, now, config, told>>
           /\ pc' \in {"cursor", "page", "done", "failed", "error"}
<1>1. UNCHANGED <<rows, marks, signer, published, now, config, told>>
  BY DEF Quiet, AskList, AskExtended, AskMarked, Ask, List, LookUpCursor, FillPage, ListMarked,
         ServerError, store, keys
<1>2. CASE \/ \E f \in Filters : AskList(f)
           \/ \E f \in Filters, n \in Limits : AskExtended(f, n)
           \/ AskMarked \/ List \/ LookUpCursor \/ ServerError
  BY <1>1, <1>2 DEF AskList, AskExtended, AskMarked, List, LookUpCursor, ServerError
<1>3. CASE FillPage
  BY <1>1, <1>3 DEF FillPage, Answer
<1>4. CASE ListMarked
  BY <1>1, <1>4 DEF ListMarked
<1> QED
  BY <1>2, <1>3, <1>4 DEF Quiet

(* An answer about a mark: what is told is true, and no better than what   *)
(* was told of it before.                                                  *)
Worse == \A j \in Jwts : Rank[told[j]] <= Rank[told'[j]]

LEMMA Ranks ==
    /\ DOMAIN Rank = {"nothing", "active", "revoked", "invalid", "expired"}
    /\ Rank["nothing"] = 0 /\ Rank["active"] = 1 /\ Rank["revoked"] = 2
    /\ Rank["invalid"] = 3 /\ Rank["expired"] = 4
BY DEF Rank

LEMMA RankNat == \A x \in DOMAIN Rank : Rank[x] \in Nat /\ Rank[x] <= Rank[x]
BY DEF Rank

LEMMA TellStep ==
    ASSUME StatusInv, NEW m \in Marks, m = q.mark, NEW x \in {"active", "revoked", "invalid", "expired"}, Tell(x),
           UNCHANGED <<rows, marks, signer, published, now, config>>,
           \E n \in marks : Jwt(n) = Jwt(m),
           x = "revoked" => Revoked(Jwt(m)), x = "invalid" => Retired(Jwt(m), published), x = "expired" => Exp(m) <= now,
           Rank[told[Jwt(m)]] <= Rank[x]
    PROVE  StatusInv' /\ Worse
<1>1. PICK j \in Jwts : j = Jwt(m) /\ Exp(j) = Exp(m)
  BY JwtFacts
<1>2. /\ DOMAIN told = Jwts /\ told'[j] = x /\ DOMAIN told' = Jwts
      /\ \A i \in Jwts : i # j => told'[i] = told[i]
  BY <1>1 DEF Tell, StatusInv
<1>3. pc' = "done" /\ StoreInv /\ StoreInv' /\ Mono /\ \A i \in Jwts : ToldTrue(i)
  BY StoreSame DEF Tell, StatusInv, StoreInv
<1>4. ASSUME NEW i \in Jwts, i # j PROVE ToldTrue(i)' /\ Rank[told[i]] <= Rank[told'[i]]
  <2>1. told'[i] = told[i] /\ ToldTrue(i) /\ told[i] \in DOMAIN Rank
    BY <1>2, <1>3, <1>4 DEF ToldTrue
  <2>2. ToldTrue(i)'
    BY <2>1 DEF ToldTrue, Revoked, Retired, Exp, Rank, Jwt
  <2> QED
    BY <2>1, <2>2, RankNat
<1>5. ToldTrue(j)'
  <2>1. told'[j] = x /\ x \in DOMAIN Rank /\ marks' = marks /\ now' = now /\ published' = published /\ signer' = signer
    BY <1>2, Ranks
  <2> QED
    BY <1>1, <2>1 DEF ToldTrue, Revoked, Retired, Exp, Rank, Jwt
<1>6. Worse
  BY <1>1, <1>2, <1>4 DEF Worse
<1> QED
  BY <1>2, <1>3, <1>4, <1>5, <1>6 DEF StatusInv, Asked

LEMMA ReadKeysStep == ASSUME StatusInv, ReadKeys PROVE StatusInv' /\ Worse
<1>1. /\ pc = "keys" /\ UNCHANGED <<rows, marks, signer, published, now, config>> /\ AskedInv /\ StoreInv
      /\ DOMAIN told = Jwts
  BY DEF ReadKeys, StatusInv, Asked, store, keys
<1>2. PICK m \in Marks : m = q.mark
  BY <1>1 DEF AskedInv
<1>3. Jwt(m) \in Jwts /\ ToldTrue(Jwt(m)) /\ told[Jwt(m)] \in DOMAIN Rank
  BY JwtFacts DEF StatusInv, ToldTrue
<1>4. /\ (\E n \in marks : Jwt(n) = Jwt(m)) /\ q.at \in 0..now /\ Exp(m) \in Nat /\ now \in Nat
  <2>1. Exp(m) \in Nat
    BY JwtFacts
  <2>2. now \in Nat
    BY <1>1, Sizes DEF StoreInv
  <2>3. (\E n \in marks : Jwt(n) = Jwt(m)) /\ q.at \in 0..now
    BY <1>1, <1>2 DEF AskedInv
  <2> QED
    BY <2>1, <2>2, <2>3
<1>5. CASE Exp(m) <= q.at /\ Tell("expired")
  <2>1. Exp(m) <= now
    BY <1>4, <1>5
  <2>2. Rank[told[Jwt(m)]] <= Rank["expired"]
    BY <1>3 DEF Rank
  <2> QED
    BY <1>1, <1>2, <1>4, <1>5, <2>1, <2>2, TellStep
<1>6. CASE /\ ~(Exp(m) <= q.at) /\ pc' = "verify" /\ told' = told
           /\ q' = [kind |-> "status", mark |-> q.mark, at |-> q.at, jwks |-> published]
  <2>1. q'.mark = m /\ q'.at = q.at /\ q'.jwks = published /\ q.mark = m
    BY <1>2, <1>6
  <2>2. Exp(m) > q.at
    BY <1>4, <1>6
  <2>3. /\ ~m.active => Revoked(Jwt(m))
        /\ told[Jwt(m)] = "revoked" => ~m.active
        /\ told[Jwt(m)] = "expired" => Exp(m) <= q.at
        /\ told[Jwt(m)] = "invalid" => Retired(Jwt(m), published)
    BY <1>1, <1>2, <1>3 DEF AskedInv, ToldTrue
  <2>4. AskedInv'
    BY <1>1, <1>4, <1>6, <2>1, <2>2, <2>3 DEF AskedInv, Revoked, Retired, Exp, Jwt
  <2>5. StoreInv' /\ \A j \in Jwts : ToldTrue(j)'
    BY <1>1, <1>6, StoreSame, ToldStays DEF StatusInv, StoreInv
  <2>6. Worse
    BY <1>6, RankNat DEF Worse, StatusInv, ToldTrue
  <2> QED
    BY <1>1, <1>6, <2>4, <2>5, <2>6 DEF StatusInv
<1> QED
  BY <1>2, <1>5, <1>6 DEF ReadKeys

LEMMA VerifyMarkStep == ASSUME StatusInv, VerifyMark PROVE StatusInv' /\ Worse
<1>1. /\ pc = "verify" /\ UNCHANGED <<rows, marks, signer, published, now, config>> /\ AskedInv /\ StoreInv
  BY DEF VerifyMark, StatusInv, Asked, store, keys
<1>2. PICK m \in Marks : m = q.mark
  BY <1>1 DEF AskedInv
<1> DEFINE bad == m.kid \notin q.jwks \/ now >= Exp(m) + Skew
           x == IF bad THEN "invalid" ELSE IF ~m.active THEN "revoked" ELSE "active"
<1>3. Tell(x)
  BY <1>2 DEF VerifyMark
<1>4. PICK j \in Jwts : j = Jwt(m) /\ j.kid = m.kid /\ Exp(j) = Exp(m) /\ Exp(m) \in Nat /\ m.kid \in 1..MaxKid
  BY JwtFacts
<1>5. /\ (\E n \in marks : Jwt(n) = j) /\ (~m.active => Revoked(j)) /\ (told[j] = "revoked" => ~m.active)
      /\ told[j] # "expired" /\ (told[j] = "invalid" => bad) /\ published \cap 1..m.kid \subseteq q.jwks
      /\ told[j] \in DOMAIN Rank
  <2>1. /\ (\E n \in marks : Jwt(n) = j) /\ (~m.active => Revoked(j)) /\ (told[j] = "revoked" => ~m.active)
        /\ (told[j] = "expired" => Exp(m) <= q.at) /\ Exp(m) > q.at /\ q.at \in 0..now
        /\ published \cap 1..m.kid \subseteq q.jwks /\ (told[j] = "invalid" => Retired(j, q.jwks))
    BY <1>1, <1>2, <1>4 DEF AskedInv
  <2>2. q.at \in Int /\ ~(Exp(m) <= q.at)
    BY <1>4, <2>1
  <2>3. Retired(j, q.jwks) => bad
    BY <1>4 DEF Retired
  <2>4. told[j] \in DOMAIN Rank
    BY DEF StatusInv, ToldTrue
  <2> QED
    BY <2>1, <2>2, <2>3, <2>4
<1>6. bad => Retired(j, published)
  <2>1. PICK n \in marks : Jwt(n) = j
    BY <1>5
  <2>2. n \in Marks /\ n.kid <= signer
    BY <1>1 DEF StoreInv
  <2>3. j.kid <= signer
    BY <2>1, <2>2, JwtFacts
  <2>4. m.kid \notin q.jwks => m.kid \notin published
    BY <1>4, <1>5
  <2> QED
    BY <1>4, <2>3, <2>4 DEF Retired
<1> HIDE DEF bad
<1>7. x \in {"active", "revoked", "invalid"} /\ (x = "revoked" => ~m.active) /\ (x = "invalid" => bad)
  OBVIOUS
<1>8. Rank[told[j]] <= Rank[x]
  BY <1>5, Ranks
<1> HIDE DEF x
<1> QED
  BY <1>1, <1>2, <1>3, <1>4, <1>5, <1>6, <1>7, <1>8, TellStep

LEMMA AskStatusStep ==
    ASSUME StatusInv, NEW m \in marks, AskStatus(m) PROVE StatusInv' /\ told' = told
<1>1. /\ pc' = "keys" /\ q' = [kind |-> "status", mark |-> m, at |-> now]
      /\ UNCHANGED <<rows, marks, signer, published, now, config, told>> /\ StoreInv
  BY DEF AskStatus, Ask, StatusInv, store, keys
<1>2. m \in Marks /\ Jwt(m) \in Jwts /\ ToldTrue(Jwt(m)) /\ Exp(Jwt(m)) = Exp(m)
  <2>1. m \in Marks
    BY <1>1 DEF StoreInv
  <2> QED
    BY <2>1, JwtFacts DEF StatusInv
<1>3. q'.mark = m /\ q'.at = now /\ now \in 0..now
  BY <1>1, Sizes DEF StoreInv
<1>4. ~m.active => Revoked(Jwt(m))
  BY <1>1 DEF StoreInv, Revoked
<1>5. told[Jwt(m)] = "revoked" => ~m.active
  BY <1>2 DEF ToldTrue, Revoked
<1>6. told[Jwt(m)] = "expired" => Exp(m) <= now
  BY <1>2 DEF ToldTrue
<1>7. AskedInv'
  BY <1>1, <1>2, <1>3, <1>4, <1>5, <1>6 DEF AskedInv, Revoked, Exp, Jwt
<1>8. StoreInv' /\ \A j \in Jwts : ToldTrue(j)'
  BY <1>1, StoreSame, ToldStays DEF StatusInv, StoreInv
<1> QED
  BY <1>1, <1>7, <1>8 DEF StatusInv

LEMMA StatusInit == ASSUME Init PROVE StatusInv
<1>1. StoreInv /\ told = [j \in Jwts |-> "nothing"] /\ pc = "idle"
  BY StoreInit DEF Init
<1> QED
  BY <1>1, Ranks DEF StatusInv, Asked, ToldTrue

LEMMA StatusNext == ASSUME StatusInv, [Next]_vars PROVE StatusInv' /\ Worse
<1>1. StoreInv /\ DOMAIN told = Jwts /\ \A j \in Jwts : ToldTrue(j) /\ told[j] \in DOMAIN Rank
  BY DEF StatusInv, ToldTrue
<1>2. told' = told => Worse
  BY <1>1, RankNat DEF Worse
<1>3. ASSUME StoreInv', Mono, told' = told, Asked' => AskedInv' PROVE StatusInv' /\ Worse
  BY <1>1, <1>2, <1>3, ToldStays DEF StatusInv
<1>4. CASE Writing
  <2>1. StoreInv' /\ Mono /\ UNCHANGED <<pc, q, told>>
    BY <1>1, <1>4, WritingSteps
  <2>2. Asked' => AskedInv'
    BY <1>1, <2>1, AskedStays DEF StatusInv, Asked
  <2> QED
    BY <1>3, <2>1, <2>2
<1>5. CASE Quiet
  <2>1. /\ UNCHANGED <<rows, marks, signer, published, now, config, told>> /\ ~Asked'
    BY <1>5, QuietSteps DEF Asked
  <2>2. StoreInv' /\ Mono
    BY <1>1, <2>1, StoreSame DEF StoreInv
  <2> QED
    BY <1>3, <2>1, <2>2
<1>6. CASE \E m \in marks : AskStatus(m)
  BY <1>2, <1>6, AskStatusStep
<1>7. CASE ReadKeys \/ VerifyMark
  BY <1>7, ReadKeysStep, VerifyMarkStep
<1>8. CASE UNCHANGED vars
  <2>1. UNCHANGED <<rows, marks, signer, published, now, config, told, pc, q>>
    BY <1>8 DEF vars, store, keys, client
  <2>2. StoreInv' /\ Mono
    BY <1>1, <2>1, StoreSame DEF StoreInv
  <2>3. Asked' => AskedInv'
    BY <1>1, <2>1, <2>2, AskedStays DEF StatusInv, Asked
  <2> QED
    BY <1>3, <2>1, <2>2, <2>3
<1> QED
  BY <1>4, <1>5, <1>6, <1>7, <1>8 DEF Next, Writing, Quiet

LEMMA StatusTrue == Spec => []StatusInv
BY StatusInit, StatusNext, PTL DEF Spec

(* What trust-mark-status.ts tells of a Trust Mark only gets worse, however*)
(* many marks are issued and revoked and keys switched and removed between *)
(* the reads of one request and between requests.                          *)
THEOREM StatusOnlyForward == Spec => StatusForward
<1>1. ASSUME StatusInv, [Next]_vars PROVE \A j \in Jwts : Rank[told[j]] <= Rank[told'[j]]
  BY <1>1, StatusNext DEF Worse
<1> QED
  BY <1>1, StatusTrue, PTL DEF Spec, StatusForward
----------------------------------------------------------------------------
(* Sorting, and the pages of a sorted list.                                *)
LEMMA LeastOf == ASSUME NEW T, T \subseteq Nat, T # {} PROVE \E m \in T : \A n \in T : m <= n
<1> DEFINE Up(n) == 1..n
           R == StrictSubsetOrdering(Nat)
           U == {Up(n) : n \in T}
<1>1. U \subseteq FiniteSubsetsOf(Nat) /\ U # {}
  <2>1. \A n \in Nat : Up(n) \subseteq Nat /\ IsFiniteSet(Up(n))
    BY FS_Interval
  <2> QED
    BY <2>1 DEF FiniteSubsetsOf
<1>2. IsWellFoundedOn(R, FiniteSubsetsOf(Nat))
  BY FS_StrictSubsetOrderingWellFounded
<1> HIDE DEF R
<1>3. \E x \in U : \A y \in U : ~(<<y, x>> \in R)
  <2> HIDE DEF U
  <2> QED
    BY <1>1, <1>2, WFMin
<1>4. PICK m \in T : \A n \in T : ~(<<Up(n), Up(m)>> \in R)
  BY <1>3
<1>5. ASSUME NEW n \in T PROVE m <= n
  <2>1. ASSUME n < m PROVE FALSE
    <3>1. Up(n) \subseteq Up(m) /\ Up(n) \subseteq Nat /\ Up(m) \subseteq Nat
      BY <2>1
    <3>2. m \in Up(m) /\ m \notin Up(n)
      BY <2>1
    <3> HIDE DEF Up
    <3>3. <<Up(n), Up(m)>> \in R
      BY <3>1, <3>2 DEF R, StrictSubsetOrdering
    <3> QED
      BY <1>4, <3>3
  <2> QED
    BY <2>1
<1> QED
  BY <1>5

Increasing(s) == \A i, k \in DOMAIN s : i < k => s[i] < s[k]

(* A finite set of numbers can be sorted.                                  *)
LEMMA SortedFacts ==
    ASSUME NEW S, S \subseteq Nat, IsFiniteSet(S)
    PROVE  /\ Cardinality(S) \in Nat /\ Sorted(S) \in [1..Cardinality(S) -> S]
           /\ Increasing(Sorted(S))
<1> DEFINE Sorts(s, R, n) == s \in [1..n -> R] /\ Increasing(s)
           Bad(n) == \E R \in SUBSET Nat : IsFiniteSet(R) /\ Cardinality(R) = n /\ ~\E s : Sorts(s, R, n)
           T == {n \in Nat : Bad(n)}
<1>1. T = {}
  <2> SUFFICES ASSUME T # {} PROVE FALSE
    OBVIOUS
  <2>1. PICK n \in T : \A k \in T : n <= k
    <3>1. T \subseteq Nat
      OBVIOUS
    <3> HIDE DEF T
    <3> QED
      BY <3>1, LeastOf
  <2>2. PICK R \in SUBSET Nat : IsFiniteSet(R) /\ Cardinality(R) = n /\ ~\E s : Sorts(s, R, n)
    BY <2>1
  <2>3. CASE n = 0
    <3> DEFINE s == [i \in 1..0 |-> 0]
    <3>1. \A i \in 1..0 : FALSE
      OBVIOUS
    <3>2. Sorts(s, R, 0)
      BY <3>1 DEF Increasing
    <3> QED
      BY <2>2, <2>3, <3>2
  <2>4. CASE n # 0
    <3>1. R # {}
      BY <2>2, <2>4, FS_EmptySet
    <3>2. PICK m \in R : \A k \in R : m <= k
      BY <3>1, LeastOf
    <3> DEFINE Q == R \ {m}
    <3>3. IsFiniteSet(Q) /\ Cardinality(Q) = n - 1 /\ Q \in SUBSET Nat
      BY <2>2, <3>2, FS_RemoveElement
    <3>4. n - 1 \in Nat /\ n - 1 \notin T /\ n \in Nat
      BY <2>1, <2>4
    <3>5. PICK tl : Sorts(tl, Q, n - 1)
      BY <3>3, <3>4
    <3> DEFINE s == [i \in 1..n |-> IF i = 1 THEN m ELSE tl[i - 1]]
    <3>6. \A i \in 1..n : i # 1 => i - 1 \in 1..(n - 1) /\ tl[i - 1] \in R /\ m < tl[i - 1]
      <4> SUFFICES ASSUME NEW i \in 1..n, i # 1
                   PROVE  i - 1 \in 1..(n - 1) /\ tl[i - 1] \in R /\ m < tl[i - 1]
        OBVIOUS
      <4>1. i - 1 \in 1..(n - 1)
        BY <3>4
      <4>2. tl[i - 1] \in Q
        BY <3>5, <4>1
      <4>3. tl[i - 1] \in R /\ tl[i - 1] # m /\ m <= tl[i - 1] /\ tl[i - 1] \in Nat /\ m \in Nat
        BY <2>2, <3>2, <4>2
      <4> QED
        BY <4>1, <4>3
    <3>7. s \in [1..n -> R]
      BY <3>2, <3>6
    <3>8. Increasing(s)
      <4> SUFFICES ASSUME NEW i \in 1..n, NEW k \in 1..n, i < k PROVE s[i] < s[k]
        BY DEF Increasing
      <4>1. k # 1 /\ s[k] = tl[k - 1]
        BY <3>4
      <4>2. CASE i = 1
        BY <3>6, <4>1, <4>2
      <4>3. CASE i # 1
        <5>1. i - 1 \in 1..(n - 1) /\ k - 1 \in 1..(n - 1) /\ i - 1 < k - 1
          BY <3>4, <4>3
        <5>2. DOMAIN tl = 1..(n - 1)
          BY <3>5
        <5>3. tl[i - 1] < tl[k - 1]
          BY <3>5, <5>1, <5>2 DEF Increasing
        <5> QED
          BY <4>1, <4>3, <5>3
      <4> QED
        BY <4>2, <4>3
    <3> QED
      BY <2>2, <3>7, <3>8
  <2> QED
    BY <2>3, <2>4
<1>2. Cardinality(S) \in Nat
  BY FS_CardinalityType
<1>3. \E s \in [1..Cardinality(S) -> S] : Increasing(s)
  BY <1>1, <1>2
<1> QED
  BY <1>2, <1>3 DEF Sorted, Increasing
----------------------------------------------------------------------------
(* What the client has been told, w, up to a cursor.                       *)
Tells(w, s) == \E i \in DOMAIN w : w[i] = s
Covered(w, k) ==
    /\ w \in Seq(Subjects) /\ Increasing(w)
    /\ k = NoCursor => w = <<>>
    /\ k # NoCursor => /\ k \in Subjects /\ \A i \in DOMAIN w : w[i] < k
                       /\ \A s \in stable : s < k => Tells(w, s)

(* The time for which a query asks for valid marks.                        *)
At == IF q.kind = "marked" THEN q.validAt ELSE now

ExtendedQuery == [kind : {"extended"}, filter : Filters, limit : Limits, cursor : Subjects \cup {NoCursor},
                  validAt : Nat, pages : Nat, accumulated : Seq(Subjects)]
MarkedQuery == [kind : {"marked"}, filter : {"marks"}, cursor : Subjects \cup {NoCursor}, validAt : Nat,
                seen : SUBSET Subjects]

ExtendedInv ==
    /\ q \in ExtendedQuery /\ Covered(walk \o q.accumulated, q.cursor)
    /\ q.cursor # NoCursor /\ rows[q.cursor] = NoRow => q.cursor \in removed
    /\ (q.pages > 0 => q.validAt <= now) /\ Len(q.accumulated) < q.limit
    /\ pc = "cursor" => q.accumulated = <<>> /\ q.pages = 0
MarkedInv ==
    /\ q \in MarkedQuery /\ pc = "page" /\ Covered(walk, q.cursor)
    /\ \A x \in q.seen : q.cursor # NoCursor /\ x <= q.cursor

WalkInv ==
    /\ walk \in Seq(Subjects) /\ Increasing(walk) /\ stable \subseteq Subjects
    /\ Asked => stable = {}
    /\ pc = "done" => \A s \in stable : Tells(walk, s)
    /\ pc = "failed" => q.kind = "extended" /\ q.cursor \in removed
    /\ Walking =>
         /\ \A s \in stable : Matches(rows, marks, q.filter, At, s)
         /\ \/ q.kind = "list" /\ pc = "page" /\ walk = <<>> /\ q.filter \in Filters /\ q.cursor = NoCursor
            \/ q.kind = "extended" /\ ExtendedInv
            \/ q.kind = "marked" /\ MarkedInv
PagesInv == StoreInv /\ WalkInv
----------------------------------------------------------------------------
(* Every member of a set is in its sorted list.                            *)
LEMMA SortedAll ==
    ASSUME NEW S, S \subseteq Nat, IsFiniteSet(S)
    PROVE  Sorted(S) \in Seq(S) /\ Increasing(Sorted(S)) /\ \A s \in S : Tells(Sorted(S), s)
<1> DEFINE f == Sorted(S)
           n == Cardinality(S)
<1>1. n \in Nat /\ f \in [1..n -> S] /\ Increasing(f)
  BY SortedFacts
<1> HIDE DEF f, n
<1>2. f \in Seq(S) /\ DOMAIN f = 1..n
  BY <1>1, SeqDef
<1>3. ASSUME NEW i \in 1..n, NEW j \in 1..n, f[i] = f[j] PROVE i = j
  <2>1. f[i] \in Nat /\ f[j] \in Nat /\ i \in Int /\ j \in Int
    <3>1. f[i] \in S /\ f[j] \in S
      BY <1>1
    <3>2. i \in Int /\ j \in Int
      BY <1>1
    <3> QED
      BY <3>1, <3>2
  <2>2. ~(i < j) /\ ~(j < i)
    BY <1>1, <1>2, <1>3, <2>1 DEF Increasing
  <2> QED
    BY <2>1, <2>2
<1>4. f \in Injection(1..n, S)
  BY <1>1, <1>3 DEF Injection, IsInjective
<1>5. Cardinality(1..n) = Cardinality(S)
  <2>1. Cardinality(1..n) = n
    <3>1. Cardinality(1..n) = IF 1 > n THEN 0 ELSE n - 1 + 1
      BY <1>1, FS_Interval
    <3> QED
      BY <1>1, <3>1
  <2> QED
    BY <2>1 DEF n
<1>6. f \in Surjection(1..n, S)
  <2>1. IsFiniteSet(1..n)
    BY <1>1, FS_Interval
  <2> QED
    BY <1>4, <1>5, <2>1, FS_Injection
<1>7. \A s \in S : \E i \in 1..n : f[i] = s
  BY <1>6 DEF Surjection
<1> QED
  BY <1>1, <1>2, <1>7 DEF Tells, f

(* The first n of a list, and the place after them.                        *)
First(list, n) == SubSeq(list, 1, n)
NextOf(list, n) == IF n < Len(list) THEN list[n + 1] ELSE NoCursor

LEMMA FirstFacts ==
    ASSUME NEW list \in Seq(Subjects), NEW n \in 0..Len(list)
    PROVE  /\ First(list, n) \in Seq(Subjects) /\ Len(First(list, n)) = n
           /\ DOMAIN First(list, n) = 1..n /\ \A i \in 1..n : First(list, n)[i] = list[i]
<1>1. Len(list) \in Nat /\ n \in Nat /\ n <= Len(list) /\ \A i \in 1..Len(list) : list[i] \in Subjects
  OBVIOUS
<1>2. \A i \in 1..n : list[i] \in Subjects
  BY <1>1
<1> DEFINE p == SubSeq(list, 1, n)
<1>3. /\ p \in Seq(Subjects) /\ Len(p) = IF 1 <= n THEN n - 1 + 1 ELSE 0
      /\ \A i \in 1..(n - 1 + 1) : p[i] = list[1 + i - 1]
  BY <1>1, <1>2, SubSeqProperties
<1> HIDE DEF p
<1>4. Len(p) = n /\ \A i \in 1..n : p[i] = list[i]
  BY <1>1, <1>3
<1>5. DOMAIN p = 1..n
  BY <1>3, <1>4
<1> QED
  BY <1>3, <1>4, <1>5 DEF First, p

LEMMA SameFirst ==
    ASSUME NEW s \in Seq(Subjects), NEW t \in Seq(Subjects), Len(s) = Len(t), \A i \in 1..Len(s) : s[i] = t[i]
    PROVE  s = t
OBVIOUS

LEMMA PageFacts ==
    ASSUME NEW found \in Seq(Subjects), NEW limit \in Nat, limit >= 1, NEW p, p = Page(found, limit)
    PROVE  /\ p.items \in Seq(Subjects) /\ Len(p.items) <= Len(found)
           /\ p.items = First(found, Len(p.items)) /\ p.next = NextOf(found, Len(p.items))
           /\ \A t \in 0..Len(p.items) : /\ First(p.items, t) = First(found, t)
                                         /\ NextAfter(p, t) = NextOf(found, t)
           /\ found # <<>> => p.items # <<>>
<1>1. Len(found) \in Nat /\ DOMAIN found = 1..Len(found)
  OBVIOUS
<1>2. /\ p.items \in Seq(Subjects) /\ Len(p.items) <= Len(found) /\ Len(p.items) \in Nat
      /\ \A i \in 1..Len(p.items) : p.items[i] = found[i]
      /\ p.next = NextOf(found, Len(p.items))
      /\ found # <<>> => p.items # <<>>
  <2>1. CASE Len(found) > limit
    <3>1. p = [items |-> First(found, limit), next |-> found[limit + 1]] /\ limit \in 0..Len(found)
      BY <1>1, <2>1 DEF Page, First
    <3>2. p.items = First(found, limit) /\ p.next = found[limit + 1]
      BY <3>1
    <3>3. /\ First(found, limit) \in Seq(Subjects) /\ Len(First(found, limit)) = limit
          /\ \A i \in 1..limit : First(found, limit)[i] = found[i]
      BY <3>1, FirstFacts
    <3>4. First(found, limit) # <<>>
      BY <3>3
    <3> QED
      BY <1>1, <2>1, <3>2, <3>3, <3>4 DEF NextOf
  <2>2. CASE ~(Len(found) > limit)
    <3>1. p.items = found /\ p.next = NoCursor
      BY <2>2 DEF Page
    <3> QED
      BY <1>1, <3>1 DEF NextOf
  <2> QED
    BY <2>1, <2>2
<1>3. ASSUME NEW t \in 0..Len(p.items)
      PROVE  First(p.items, t) = First(found, t) /\ NextAfter(p, t) = NextOf(found, t)
  <2>1. t \in 0..Len(found) /\ t \in Nat
    BY <1>1, <1>2
  <2>2. /\ First(p.items, t) \in Seq(Subjects) /\ Len(First(p.items, t)) = t
        /\ \A i \in 1..t : First(p.items, t)[i] = p.items[i]
        /\ First(found, t) \in Seq(Subjects) /\ Len(First(found, t)) = t
        /\ \A i \in 1..t : First(found, t)[i] = found[i]
    BY <1>2, <2>1, FirstFacts
  <2>3. \A i \in 1..t : i \in 1..Len(p.items)
    BY <1>2
  <2>4. First(p.items, t) = First(found, t)
    BY <1>2, <2>2, <2>3, SameFirst
  <2>5. NextAfter(p, t) = NextOf(found, t)
    <3>1. CASE t < Len(p.items)
      <4>1. t + 1 \in 1..Len(p.items) /\ t < Len(found)
        BY <1>1, <1>2, <3>1
      <4> QED
        BY <1>2, <3>1, <4>1 DEF NextAfter, NextOf
    <3>2. CASE ~(t < Len(p.items))
      <4>1. t = Len(p.items)
        BY <1>2, <3>2
      <4> QED
        BY <1>2, <3>2, <4>1 DEF NextAfter
    <3> QED
      BY <3>1, <3>2
  <2> QED
    BY <2>4, <2>5
<1>4. p.items = First(found, Len(p.items))
  <2>1. Len(p.items) \in 0..Len(found)
    BY <1>1, <1>2
  <2>2. /\ First(found, Len(p.items)) \in Seq(Subjects) /\ Len(First(found, Len(p.items))) = Len(p.items)
        /\ \A i \in 1..Len(p.items) : First(found, Len(p.items))[i] = found[i]
    BY <2>1, FirstFacts
  <2> QED
    BY <1>2, <2>2, SameFirst
<1> QED
  BY <1>2, <1>3, <1>4

(* A list that goes on from the cursor.                                    *)
GoesOn(list, k) ==
    /\ list \in Seq(Subjects) /\ Increasing(list)
    /\ \A i \in DOMAIN list : k = NoCursor \/ list[i] >= k
    /\ \A s \in stable : (k = NoCursor \/ s >= k) => Tells(list, s)
Upto(w, list, n) == w \o First(list, n)

(* Telling its first n elements too covers all before the next one.        *)
LEMMA Advance ==
    ASSUME NEW w, NEW k, NEW list, Covered(w, k), GoesOn(list, k), NEW n \in 0..Len(list), stable \subseteq Subjects
    PROVE  /\ Upto(w, list, n) \in Seq(Subjects) /\ Increasing(Upto(w, list, n))
           /\ n < Len(list) => Covered(Upto(w, list, n), NextOf(list, n))
           /\ n = Len(list) => \A s \in stable : Tells(Upto(w, list, n), s)
<1> DEFINE p == First(list, n)
           x == Upto(w, list, n)
<1>1. /\ w \in Seq(Subjects) /\ Increasing(w) /\ list \in Seq(Subjects) /\ Increasing(list)
      /\ (k = NoCursor => w = <<>>) /\ DOMAIN w = 1..Len(w) /\ DOMAIN list = 1..Len(list)
      /\ Len(w) \in Nat /\ Len(list) \in Nat /\ n \in Nat
  BY DEF Covered, GoesOn
<1>2. /\ p \in Seq(Subjects) /\ Len(p) = n /\ \A i \in 1..n : p[i] = list[i]
  BY <1>1, FirstFacts
<1>3. /\ x \in Seq(Subjects) /\ Len(x) = Len(w) + n
      /\ \A i \in 1..(Len(w) + n) : x[i] = IF i <= Len(w) THEN w[i] ELSE p[i - Len(w)]
  <2> HIDE DEF p
  <2>1. /\ w \o p \in Seq(Subjects) /\ Len(w \o p) = Len(w) + Len(p)
        /\ \A i \in 1..(Len(w) + Len(p)) : (w \o p)[i] = IF i <= Len(w) THEN w[i] ELSE p[i - Len(w)]
    <3>1. w \in Seq(Subjects) /\ p \in Seq(Subjects)
      BY <1>1, <1>2
    <3> QED
      BY <3>1, ConcatProperties
  <2> QED
    BY <1>2, <2>1 DEF Upto, p
<1> HIDE DEF p, x
<1>4. /\ DOMAIN x = 1..(Len(w) + n) /\ (\A i \in 1..Len(w) : x[i] = w[i] /\ i \in DOMAIN x)
      /\ \A i \in 1..n : x[Len(w) + i] = list[i] /\ Len(w) + i \in DOMAIN x
  <2>1. DOMAIN x = 1..(Len(w) + n)
    BY <1>3
  <2>2. ASSUME NEW i \in 1..n PROVE x[Len(w) + i] = list[i] /\ Len(w) + i \in 1..(Len(w) + n)
    <3>1. Len(w) + i \in 1..(Len(w) + n) /\ ~(Len(w) + i <= Len(w)) /\ Len(w) + i - Len(w) = i
      BY <1>1
    <3> QED
      BY <1>2, <1>3, <3>1
  <2>3. \A i \in 1..Len(w) : i \in 1..(Len(w) + n) /\ i <= Len(w)
    BY <1>1
  <2> QED
    BY <1>3, <2>1, <2>2, <2>3
<1>5. \A i \in DOMAIN x : i \in 1..Len(w) \/ \E j \in 1..n : i = Len(w) + j
  <2> SUFFICES ASSUME NEW i \in 1..(Len(w) + n), i \notin 1..Len(w) PROVE \E j \in 1..n : i = Len(w) + j
    BY <1>4
  <2>1. i - Len(w) \in 1..n /\ i = Len(w) + (i - Len(w))
    BY <1>1
  <2> QED
    BY <2>1
<1>6. \A i \in 1..Len(w), j \in 1..Len(list) : w[i] < list[j]
  <2> SUFFICES ASSUME NEW i \in 1..Len(w), NEW j \in 1..Len(list) PROVE w[i] < list[j]
    OBVIOUS
  <2>1. k # NoCursor
    BY <1>1
  <2>2. w[i] < k /\ list[j] >= k /\ k \in Nat /\ w[i] \in Nat /\ list[j] \in Nat
    <3>1. k \in Subjects /\ (\A m \in DOMAIN w : w[m] < k) /\ \A m \in DOMAIN list : list[m] >= k
      BY <2>1 DEF Covered, GoesOn
    <3>2. w[i] < k /\ list[j] >= k /\ w[i] \in Subjects /\ list[j] \in Subjects
      BY <1>1, <3>1
    <3> QED
      BY <3>1, <3>2, Sizes
  <2> QED
    BY <2>2
<1>7. Increasing(x)
  <2> SUFFICES ASSUME NEW i \in DOMAIN x, NEW j \in DOMAIN x, i < j PROVE x[i] < x[j]
    BY DEF Increasing
  <2>1. CASE i \in 1..Len(w) /\ j \in 1..Len(w)
    BY <1>1, <1>4, <2>1 DEF Increasing
  <2>2. CASE j \notin 1..Len(w)
    <3>1. PICK b \in 1..n : j = Len(w) + b
      BY <1>5, <2>2
    <3>2. x[j] = list[b] /\ b \in 1..Len(list)
      BY <1>1, <1>4, <3>1
    <3>3. CASE i \in 1..Len(w)
      BY <1>4, <1>6, <3>2, <3>3
    <3>4. CASE i \notin 1..Len(w)
      <4>1. PICK a \in 1..n : i = Len(w) + a
        BY <1>5, <3>4
      <4>2. x[i] = list[a] /\ a \in 1..Len(list) /\ a < b
        BY <1>1, <1>4, <3>1, <4>1
      <4> QED
        BY <1>1, <3>2, <4>2 DEF Increasing
    <3> QED
      BY <3>3, <3>4
  <2>3. CASE i \notin 1..Len(w) /\ j \in 1..Len(w)
    BY <1>1, <1>4, <2>3
  <2> QED
    BY <2>1, <2>2, <2>3
<1>8. ASSUME NEW s \in stable PROVE Tells(w, s) \/ \E i \in 1..Len(list) : list[i] = s
  <2>1. s \in Nat
    BY Sizes
  <2>2. CASE k = NoCursor
    BY <1>1, <2>2 DEF GoesOn, Tells
  <2>3. CASE k # NoCursor
    <3>1. k \in Nat /\ (s < k => Tells(w, s)) /\ (s >= k => Tells(list, s))
      BY <2>3, Sizes DEF Covered, GoesOn
    <3> QED
      BY <1>1, <2>1, <3>1 DEF Tells
  <2> QED
    BY <2>2, <2>3
<1>9. \A s : Tells(w, s) => Tells(x, s)
  BY <1>1, <1>4 DEF Tells
<1>10. ASSUME n = Len(list) PROVE \A s \in stable : Tells(x, s)
  <2> SUFFICES ASSUME NEW s \in stable, \E i \in 1..n : list[i] = s PROVE Tells(x, s)
    BY <1>8, <1>9, <1>10
  <2>1. PICK i \in 1..n : list[i] = s
    OBVIOUS
  <2>2. Len(w) + i \in DOMAIN x /\ x[Len(w) + i] = s
    BY <1>4, <2>1
  <2> QED
    BY <2>2 DEF Tells
<1>11. ASSUME n < Len(list) PROVE Covered(x, NextOf(list, n))
  <2> DEFINE c == list[n + 1]
  <2>1. n + 1 \in 1..Len(list) /\ NextOf(list, n) = c /\ c \in Subjects /\ c \in Nat
    <3>1. n + 1 \in 1..Len(list)
      BY <1>1, <1>11
    <3>2. NextOf(list, n) = c
      BY <1>11 DEF NextOf
    <3>3. c \in Subjects
      BY <1>1, <3>1
    <3> HIDE DEF c
    <3> QED
      BY <3>1, <3>2, <3>3, Sizes
  <2>2. c # NoCursor
    BY <2>1, SizeAssumption
  <2>3. \A i \in DOMAIN x : x[i] < c
    <3> SUFFICES ASSUME NEW i \in DOMAIN x PROVE x[i] < c
      OBVIOUS
    <3>1. CASE i \in 1..Len(w)
      BY <1>4, <1>6, <2>1, <3>1
    <3>2. CASE i \notin 1..Len(w)
      <4>1. PICK a \in 1..n : i = Len(w) + a
        BY <1>5, <3>2
      <4>2. x[i] = list[a] /\ a \in 1..Len(list) /\ a < n + 1
        BY <1>1, <1>4, <4>1
      <4> QED
        BY <1>1, <2>1, <4>2 DEF Increasing
    <3> QED
      BY <3>1, <3>2
  <2>4. ASSUME NEW s \in stable, s < c PROVE Tells(x, s)
    <3>1. CASE Tells(w, s)
      BY <1>9, <3>1
    <3>2. CASE \E i \in 1..Len(list) : list[i] = s
      <4>1. PICK i \in 1..Len(list) : list[i] = s
        BY <3>2
      <4>2. i <= n
        <5>1. ASSUME i > n PROVE FALSE
          <6>1. i = n + 1 \/ n + 1 < i
            BY <1>1, <5>1
          <6>2. s \in Nat /\ c <= s
            BY <1>1, <2>1, <4>1, <6>1, Sizes DEF Increasing
          <6> QED
            BY <2>1, <2>4, <6>2
        <5> QED
          BY <1>1, <5>1
      <4>3. i \in 1..n
        BY <1>1, <4>2
      <4> QED
        BY <1>4, <4>1, <4>3 DEF Tells
    <3> QED
      BY <1>8, <2>4, <3>1, <3>2
  <2> HIDE DEF c
  <2> QED
    BY <1>3, <1>7, <2>1, <2>2, <2>3, <2>4 DEF Covered
<1> QED
  BY <1>3, <1>7, <1>10, <1>11 DEF x
----------------------------------------------------------------------------
(* What the store finds.                                                   *)
LEMMA MatchingFacts ==
    ASSUME stable \subseteq Subjects, NEW f, NEW at, NEW k \in Subjects \cup {NoCursor},
           \A s \in stable : Matches(rows, marks, f, at, s), NEW found, found = Matching(f, at, k)
    PROVE  GoesOn(found, k) /\ \A i \in DOMAIN found : Matches(rows, marks, f, at, found[i])
<1> DEFINE S == {s \in Subjects : Matches(rows, marks, f, at, s) /\ (k = NoCursor \/ s >= k)}
<1>1. S \subseteq Subjects /\ found = Sorted(S)
  BY DEF Matching
<1>2. S \subseteq Nat /\ IsFiniteSet(S)
  <2> HIDE DEF S
  <2> QED
    BY <1>1, Sizes, FS_Subset
<1>3. \A s \in S : Matches(rows, marks, f, at, s) /\ (k = NoCursor \/ s >= k)
  OBVIOUS
<1>4. \A s \in stable : (k = NoCursor \/ s >= k) => s \in S
  OBVIOUS
<1> HIDE DEF S
<1>5. found \in Seq(S) /\ Increasing(found) /\ \A s \in S : Tells(found, s)
  <2>1. Sorted(S) \in Seq(S) /\ Increasing(Sorted(S)) /\ \A s \in S : Tells(Sorted(S), s)
    BY <1>2, SortedAll
  <2> QED
    BY <1>1, <2>1
<1>6. DOMAIN found = 1..Len(found) /\ \A i \in DOMAIN found : found[i] \in S
  BY <1>5
<1>7. found \in Seq(Subjects)
  BY <1>1, <1>5, <1>6
<1> QED
  BY <1>3, <1>4, <1>5, <1>6, <1>7 DEF GoesOn

(* A mark that is valid was valid before, if there was one.                *)
LEMMA Earlier ==
    ASSUME StoreInv, NEW f \in Filters, NEW t \in Nat, NEW u \in Nat, u <= t, NEW s, Matches(rows, marks, f, t, s)
    PROVE  Matches(rows, marks, f, u, s)
<1>1. \A m \in marks : Exp(m) \in Nat
  <2>1. \A m \in marks : m \in Marks
    BY DEF StoreInv
  <2> QED
    BY <2>1, JwtFacts
<1>2. HasValidMark(marks, s, t) => HasValidMark(marks, s, u)
  <2> SUFFICES ASSUME NEW m \in marks, m.sub = s, m.active, Exp(m) > t PROVE m.sub = s /\ m.active /\ Exp(m) > u
    BY DEF HasValidMark
  <2>1. Exp(m) \in Nat
    BY <1>1
  <2> QED
    BY <2>1
<1>3. f \in {"all", "marked", "recent"}
  BY SizeAssumption
<1> QED
  BY <1>2, <1>3 DEF Matches

LEMMA HasRow == ASSUME NEW f \in Filters, NEW t, NEW s, Matches(rows, marks, f, t, s) PROVE rows[s] # NoRow
<1>1. f \in {"all", "marked", "recent"}
  BY SizeAssumption
<1> QED
  BY <1>1 DEF Matches

LEMMA NothingTold == <<>> \in Seq(Subjects) /\ Increasing(<<>>) /\ DOMAIN <<>> = {} /\ <<>> \o <<>> = <<>>
BY DEF Increasing

LEMMA AskStep ==
    ASSUME PagesInv, Ask, pc' \in {"cursor", "page", "keys"}
    PROVE  /\ StoreInv' /\ walk' = <<>> /\ removed' = {} /\ UNCHANGED <<rows, marks, now, config>>
           /\ walk' \in Seq(Subjects) /\ Increasing(walk')
<1>1. UNCHANGED <<rows, marks, signer, published, now, config>> /\ walk' = <<>> /\ removed' = {}
  BY DEF Ask, store, keys
<1> QED
  BY <1>1, NothingTold DEF PagesInv, StoreInv

LEMMA AskListStep == ASSUME PagesInv, NEW f \in Filters, AskList(f) PROVE PagesInv'
<1>1. /\ Ask /\ pc' = "page" /\ stable' = StableAtFirst(f)
      /\ q' = [kind |-> "list", filter |-> f, cursor |-> NoCursor]
  BY DEF AskList
<1>2. /\ StoreInv' /\ walk' = <<>> /\ removed' = {} /\ UNCHANGED <<rows, marks, now, config>>
      /\ walk' \in Seq(Subjects) /\ Increasing(walk')
  BY <1>1, AskStep
<1>3. q'.kind = "list" /\ q'.filter = f /\ q'.cursor = NoCursor /\ At' = now
  BY <1>1, <1>2 DEF At
<1>4. stable' \subseteq Subjects /\ \A s \in stable' : Matches(rows', marks', q'.filter, At', s)
  BY <1>1, <1>2, <1>3 DEF StableAtFirst
<1> HIDE DEF At
<1> QED
  BY <1>1, <1>2, <1>3, <1>4 DEF PagesInv, WalkInv, Asked, Walking

LEMMA AskExtendedStep == ASSUME PagesInv, NEW f \in Filters, NEW n \in Limits, AskExtended(f, n) PROVE PagesInv'
<1>1. Ask /\ pc' = "cursor" /\ stable' = StableAtFirst(f) /\ q' = Request(f, n, NoCursor)
  BY DEF AskExtended
<1>2. /\ StoreInv' /\ walk' = <<>> /\ removed' = {} /\ UNCHANGED <<rows, marks, now, config>>
      /\ walk' \in Seq(Subjects) /\ Increasing(walk')
  BY <1>1, AskStep
<1>3. /\ q'.kind = "extended" /\ q'.filter = f /\ q'.cursor = NoCursor /\ q'.accumulated = <<>> /\ q'.pages = 0
      /\ q'.limit = n /\ At' = now
  BY <1>1, <1>2 DEF At, Request
<1>4. stable' \subseteq Subjects /\ \A s \in stable' : Matches(rows', marks', q'.filter, At', s)
  BY <1>1, <1>2, <1>3 DEF StableAtFirst
<1>5. ExtendedInv'
  <2>1. Covered(walk \o q.accumulated, q.cursor)'
    BY <1>2, <1>3, NothingTold DEF Covered
  <2>2. q' \in ExtendedQuery
    BY <1>1, NothingTold DEF Request, ExtendedQuery
  <2>3. Len(q'.accumulated) < q'.limit
    BY <1>3, Sizes
  <2> QED
    BY <1>3, <2>1, <2>2, <2>3 DEF ExtendedInv
<1> QED
  BY <1>1, <1>2, <1>3, <1>4, <1>5 DEF PagesInv, WalkInv, Asked, Walking

LEMMA AskMarkedStep == ASSUME PagesInv, AskMarked PROVE PagesInv'
<1>1. /\ Ask /\ pc' = "page" /\ stable' = StableAtFirst("marks")
      /\ q' = [kind |-> "marked", filter |-> "marks", cursor |-> NoCursor, validAt |-> now, seen |-> {}]
  BY DEF AskMarked
<1>2. /\ StoreInv' /\ walk' = <<>> /\ removed' = {} /\ UNCHANGED <<rows, marks, now, config>>
      /\ walk' \in Seq(Subjects) /\ Increasing(walk')
  BY <1>1, AskStep
<1>3. q'.kind = "marked" /\ q'.filter = "marks" /\ q'.cursor = NoCursor /\ q'.seen = {} /\ At' = now
  BY <1>1, <1>2 DEF At
<1>4. stable' \subseteq Subjects /\ \A s \in stable' : Matches(rows', marks', q'.filter, At', s)
  BY <1>1, <1>2, <1>3 DEF StableAtFirst
<1>5. MarkedInv'
  <2>1. Covered(walk, q.cursor)'
    BY <1>2, <1>3, NothingTold DEF Covered
  <2>2. now \in Nat
    BY Sizes DEF PagesInv, StoreInv
  <2>3. q' \in MarkedQuery
    BY <1>1, <2>2 DEF MarkedQuery
  <2> QED
    BY <1>1, <1>3, <2>1, <2>3 DEF MarkedInv
<1> QED
  BY <1>1, <1>2, <1>3, <1>4, <1>5 DEF PagesInv, WalkInv, Asked, Walking

LEMMA AskStatusWalk == ASSUME PagesInv, NEW m, AskStatus(m) PROVE PagesInv'
<1>1. Ask /\ pc' = "keys" /\ stable' = {}
  BY DEF AskStatus
<1>2. StoreInv' /\ walk' \in Seq(Subjects) /\ Increasing(walk')
  BY <1>1, AskStep
<1> QED
  BY <1>1, <1>2 DEF PagesInv, WalkInv, Asked, Walking

(* The parts of the invariant of a walk that is under way.                 *)
LEMMA UnderWay ==
    ASSUME PagesInv, Walking
    PROVE  /\ StoreInv /\ stable \subseteq Subjects /\ walk \in Seq(Subjects) /\ Increasing(walk)
           /\ now \in Nat /\ config \in Scenarios /\ \A s \in stable : Matches(rows, marks, q.filter, At, s)
<1>1. now \in Nat
  BY Sizes DEF PagesInv, StoreInv
<1> QED
  BY <1>1 DEF PagesInv, WalkInv, StoreInv

LEMMA ListStep == ASSUME PagesInv, List PROVE PagesInv'
<1>1. /\ pc = "page" /\ q.kind = "list" /\ pc' = "done" /\ walk' = Matching(q.filter, now, NoCursor)
      /\ UNCHANGED <<rows, marks, signer, published, now, config, q, stable, removed>>
  BY DEF List, store, keys
<1>2. /\ stable \subseteq Subjects /\ StoreInv /\ \A s \in stable : Matches(rows, marks, q.filter, now, s)
  BY <1>1, UnderWay DEF Walking, At
<1>3. GoesOn(walk', NoCursor)
  BY <1>1, <1>2, MatchingFacts
<1>4. \A s \in stable : Tells(walk', s)
  BY <1>3 DEF GoesOn
<1>5. walk' \in Seq(Subjects) /\ Increasing(walk')
  BY <1>3 DEF GoesOn
<1>6. StoreInv'
  BY <1>1, <1>2 DEF StoreInv
<1> QED
  BY <1>1, <1>2, <1>4, <1>5, <1>6 DEF PagesInv, WalkInv, Asked, Walking

LEMMA LookUpCursorStep == ASSUME PagesInv, LookUpCursor PROVE PagesInv'
<1>1. /\ pc = "cursor" /\ pc' = IF q.cursor # NoCursor /\ rows[q.cursor] = NoRow THEN "failed" ELSE "page"
      /\ UNCHANGED <<rows, marks, signer, published, now, config, q, walk, stable, removed>>
  BY DEF LookUpCursor, store, keys
<1>2. /\ StoreInv /\ stable \subseteq Subjects /\ walk \in Seq(Subjects) /\ Increasing(walk)
      /\ \A s \in stable : Matches(rows, marks, q.filter, At, s)
  BY <1>1, UnderWay DEF Walking
<1>3. q.kind = "extended" /\ ExtendedInv
  BY <1>1 DEF PagesInv, WalkInv, Walking, MarkedInv
<1>4. StoreInv'
  BY <1>1, <1>2 DEF StoreInv
<1>5. CASE pc' = "failed"
  <2>1. q.cursor \in removed
    BY <1>1, <1>3, <1>5 DEF ExtendedInv
  <2> QED
    BY <1>1, <1>2, <1>3, <1>4, <1>5, <2>1 DEF PagesInv, WalkInv, Asked, Walking
<1>6. CASE pc' = "page"
  <2>1. ExtendedInv'
    BY <1>1, <1>3, <1>6 DEF ExtendedInv, Covered
  <2>2. \A s \in stable' : Matches(rows', marks', q'.filter, At', s)
    BY <1>1, <1>2 DEF At
  <2> QED
    BY <1>1, <1>2, <1>3, <1>4, <1>6, <2>1, <2>2 DEF PagesInv, WalkInv, Asked, Walking
<1> QED
  BY <1>1, <1>5, <1>6

(* An answer that tells the first n of what was found, too.                *)
LEMMA AnswerStep ==
    ASSUME PagesInv, Walking, q.kind = "extended", ExtendedInv, UNCHANGED <<rows, marks, now, stable, removed>>,
           NEW found, GoesOn(found, q.cursor), NEW n \in 0..Len(found), NEW acc,
           \A i \in DOMAIN found : rows[found[i]] # NoRow,
           walk \o acc = Upto(walk \o q.accumulated, found, n), Answer(acc, NextOf(found, n))
    PROVE  WalkInv'
<1> DEFINE w == walk \o q.accumulated
           x == Upto(w, found, n)
<1>1. Covered(w, q.cursor) /\ q \in ExtendedQuery
  BY DEF ExtendedInv
<1>2. /\ stable \subseteq Subjects /\ \A s \in stable : Matches(rows, marks, q.filter, At, s)
  BY UnderWay
<1>3. /\ x \in Seq(Subjects) /\ Increasing(x)
      /\ (n < Len(found) => Covered(x, NextOf(found, n)))
      /\ n = Len(found) => \A s \in stable : Tells(x, s)
  <2> HIDE DEF w
  <2> QED
    BY <1>1, <1>2, Advance
<1>4. walk' = x
  BY DEF Answer
<1>5. found \in Seq(Subjects) /\ n \in Nat /\ Len(found) \in Nat /\ (n < Len(found) \/ n = Len(found))
  BY DEF GoesOn
<1>6. n < Len(found) => NextOf(found, n) \in Subjects /\ NextOf(found, n) # NoCursor /\ rows[NextOf(found, n)] # NoRow
  <2> SUFFICES ASSUME n < Len(found) PROVE found[n + 1] \in Subjects /\ found[n + 1] # NoCursor /\ rows[found[n + 1]] # NoRow
    BY DEF NextOf
  <2>1. n + 1 \in 1..Len(found) /\ DOMAIN found = 1..Len(found)
    BY <1>5
  <2>2. found[n + 1] \in Subjects
    <3>1. \A i \in 1..Len(found) : found[i] \in Subjects
      BY <1>5
    <3> QED
      BY <2>1, <3>1
  <2>3. rows[found[n + 1]] # NoRow
    BY <2>1, Zenon
  <2> QED
    BY <2>2, <2>3, SizeAssumption
<1>7. n = Len(found) => NextOf(found, n) = NoCursor
  BY <1>5 DEF NextOf
<1> HIDE DEF x, w
<1>8. CASE n = Len(found)
  <2>1. pc' = "done" /\ q' = q /\ \A s \in stable : Tells(walk', s)
    BY <1>3, <1>4, <1>7, <1>8 DEF Answer
  <2> QED
    BY <1>2, <1>3, <1>4, <2>1 DEF WalkInv, Asked, Walking
<1>9. CASE n < Len(found)
  <2> DEFINE c == NextOf(found, n)
  <2>1. pc' = "cursor" /\ q' = Request(q.filter, q.limit, c)
    BY <1>6, <1>9 DEF Answer
  <2>2. c \in Subjects /\ c # NoCursor /\ rows[c] # NoRow /\ Covered(x, c)
    BY <1>3, <1>6, <1>9
  <2> HIDE DEF c
  <2>3. /\ q'.kind = "extended" /\ q'.filter = q.filter /\ q'.limit = q.limit /\ q'.cursor = c
        /\ q'.accumulated = <<>> /\ q'.pages = 0
    BY <2>1 DEF Request
  <2>4. q.limit \in Limits /\ q.filter \in Filters
    BY <1>1 DEF ExtendedQuery
  <2>5. q' \in ExtendedQuery
    BY <2>1, <2>2, <2>4, NothingTold DEF Request, ExtendedQuery
  <2>6. Len(q'.accumulated) < q'.limit
    BY <2>3, <2>4, Sizes
  <2>7. (walk \o q.accumulated)' = x
    <3>1. x \o <<>> = x
      BY <1>3, ConcatEmptySeq
    <3> QED
      BY <1>4, <2>3, <3>1
  <2>8. Covered(walk \o q.accumulated, q.cursor)'
    BY <2>2, <2>3, <2>7 DEF Covered
  <2>9. ExtendedInv'
    BY <2>2, <2>3, <2>5, <2>6, <2>8 DEF ExtendedInv
  <2>10. \A s \in stable' : Matches(rows', marks', q'.filter, At', s)
    BY <1>2, <2>3 DEF At
  <2> QED
    BY <1>2, <1>3, <1>4, <2>1, <2>3, <2>9, <2>10 DEF WalkInv, Asked, Walking
<1> QED
  BY <1>5, <1>8, <1>9

(* What one turn of the loop adds to a page of the answer.                 *)
Taken(page, limit, some) ==
    IF Len(page.items) < limit - Len(some) THEN Len(page.items) ELSE limit - Len(some)
Short(s, limit) == Len(s) < limit

Takes(found, size, page, limit, some, t, acc) ==
    /\ found \in Seq(Subjects) /\ size \in Nat /\ size >= 1 /\ limit \in Nat /\ some \in Seq(Subjects)
    /\ page = Page(found, size) /\ Short(some, limit)
    /\ t = Taken(page, limit, some) /\ acc = some \o First(page.items, t)
Took(found, page, limit, some, t, acc) ==
    /\ t \in 0..Len(found) /\ acc \in Seq(Subjects) /\ acc = Upto(some, found, t) /\ Len(acc) \in Nat
    /\ NextAfter(page, t) = NextOf(found, t)
    /\ Short(acc, limit) => page.next = NextOf(found, t)

LEMMA TakeFacts ==
    ASSUME NEW found, NEW size, NEW page, NEW limit, NEW some, NEW t, NEW acc,
           Takes(found, size, page, limit, some, t, acc)
    PROVE  Took(found, page, limit, some, t, acc)
<1>0. /\ found \in Seq(Subjects) /\ size \in Nat /\ size >= 1 /\ limit \in Nat /\ some \in Seq(Subjects)
      /\ page = Page(found, size) /\ Short(some, limit)
      /\ t = Taken(page, limit, some) /\ acc = some \o First(page.items, t)
  BY DEF Takes
<1>1. /\ page.items \in Seq(Subjects) /\ Len(page.items) <= Len(found)
      /\ page.next = NextOf(found, Len(page.items))
      /\ \A n \in 0..Len(page.items) : /\ First(page.items, n) = First(found, n)
                                       /\ NextAfter(page, n) = NextOf(found, n)
  BY <1>0, PageFacts
<1>2. Len(page.items) \in Nat /\ Len(found) \in Nat /\ Len(some) \in Nat
  BY <1>0, <1>1
<1>3. /\ t \in 0..Len(page.items) /\ t \in 0..Len(found) /\ t \in Nat
      /\ t # Len(page.items) => Len(some) + t = limit
  BY <1>0, <1>1, <1>2 DEF Taken, Short
<1>4. First(page.items, t) = First(found, t) /\ NextAfter(page, t) = NextOf(found, t)
  BY <1>1, <1>3
<1>5. acc = some \o First(found, t)
  BY <1>0, <1>4
<1>6. First(found, t) \in Seq(Subjects) /\ Len(First(found, t)) = t
  BY <1>0, <1>3, FirstFacts
<1>7. acc \in Seq(Subjects) /\ Len(acc) = Len(some) + t
  <2>1. \A u \in Seq(Subjects) : some \o u \in Seq(Subjects) /\ Len(some \o u) = Len(some) + Len(u)
    BY <1>0, ConcatProperties
  <2> QED
    BY <1>5, <1>6, <2>1
<1>8. Short(acc, limit) => t = Len(page.items)
  BY <1>0, <1>2, <1>3, <1>7 DEF Short
<1>9. Short(acc, limit) => page.next = NextOf(found, t)
  BY <1>1, <1>8
<1>10. Len(acc) \in Nat
  BY <1>0, <1>7
<1> QED
  BY <1>3, <1>4, <1>5, <1>7, <1>9, <1>10 DEF Upto, Took

LEMMA FillPageStep == ASSUME PagesInv, FillPage PROVE PagesInv'
<1>1. /\ pc = "page" /\ q.kind = "extended"
      /\ UNCHANGED <<rows, marks, signer, published, now, config, stable, removed>>
  BY DEF FillPage, store, keys
<1>2. /\ StoreInv /\ stable \subseteq Subjects /\ walk \in Seq(Subjects) /\ Increasing(walk) /\ now \in Nat
      /\ config \in Scenarios /\ \A s \in stable : Matches(rows, marks, q.filter, now, s)
  BY <1>1, UnderWay DEF Walking, At
<1>3. ExtendedInv
  BY <1>1 DEF PagesInv, WalkInv, Walking, MarkedInv
<1>4. q \in ExtendedQuery /\ Len(q.accumulated) < q.limit /\ (q.pages > 0 => q.validAt <= now)
  BY <1>3 DEF ExtendedInv
<1>5. /\ q.filter \in Filters /\ q.limit \in Nat /\ q.cursor \in Subjects \cup {NoCursor} /\ q.validAt \in Nat
      /\ q.pages \in Nat /\ q.accumulated \in Seq(Subjects) /\ q.limit \in Limits
  BY <1>4, Sizes DEF ExtendedQuery
<1>6. PICK at : at = IF q.pages = 0 THEN now ELSE q.validAt
  OBVIOUS
<1>7. at \in Nat /\ at <= now
  BY <1>2, <1>4, <1>5, <1>6
<1>8. PICK found : found = Matching(q.filter, at, q.cursor)
  OBVIOUS
<1>9. \A s \in stable : Matches(rows, marks, q.filter, at, s)
  BY <1>2, <1>5, <1>7, Earlier
<1>10. GoesOn(found, q.cursor) /\ \A i \in DOMAIN found : Matches(rows, marks, q.filter, at, found[i])
  BY <1>2, <1>5, <1>8, <1>9, MatchingFacts
<1>11. found \in Seq(Subjects) /\ \A i \in DOMAIN found : rows[found[i]] # NoRow
  BY <1>5, <1>10, HasRow DEF GoesOn
<1>12. PICK page : page = Page(found, config.batch)
  OBVIOUS
<1>13. PICK t : t = Taken(page, q.limit, q.accumulated)
  OBVIOUS
<1>14. PICK acc : acc = q.accumulated \o First(page.items, t)
  OBVIOUS
<1>15. \/ Len(acc) >= q.limit /\ Answer(acc, NextAfter(page, t))
       \/ ~(Len(acc) >= q.limit) /\ page.next = NoCursor /\ Answer(acc, NoCursor)
       \/ ~(Len(acc) >= q.limit) /\ Answer(acc, page.next)
       \/ /\ ~(Len(acc) >= q.limit) /\ page.next # NoCursor /\ pc' = pc /\ walk' = walk
          /\ q' = [q EXCEPT !.validAt = at, !.pages = @ + 1, !.cursor = page.next, !.accumulated = acc]
  BY <1>6, <1>8, <1>12, <1>13, <1>14, Zenon DEF FillPage, Taken, First
<1>16. config.batch \in Nat /\ config.batch >= 1
  BY <1>2, Sizes
<1>17. /\ t \in 0..Len(found) /\ acc \in Seq(Subjects) /\ acc = Upto(q.accumulated, found, t) /\ Len(acc) \in Nat
       /\ NextAfter(page, t) = NextOf(found, t)
       /\ Len(acc) < q.limit => page.next = NextOf(found, t)
  <2>1. Takes(found, config.batch, page, q.limit, q.accumulated, t, acc)
    BY <1>4, <1>5, <1>11, <1>12, <1>13, <1>14, <1>16 DEF Short, Takes
  <2>2. Took(found, page, q.limit, q.accumulated, t, acc)
    BY <2>1, TakeFacts
  <2> QED
    BY <2>2 DEF Took, Short
<1>18. walk \o acc = Upto(walk \o q.accumulated, found, t)
  <2>1. First(found, t) \in Seq(Subjects)
    BY <1>11, <1>17, FirstFacts
  <2> QED
    <3>1. (walk \o q.accumulated) \o First(found, t) = walk \o (q.accumulated \o First(found, t))
      <4>1. PICK s \in Seq(Subjects) : s = q.accumulated
        BY <1>5
      <4>2. PICK w \in Seq(Subjects) : w = walk
        BY <1>2
      <4>3. (w \o s) \o First(found, t) = w \o (s \o First(found, t))
        BY <2>1, ConcatAssociative
      <4> QED
        BY <4>1, <4>2, <4>3
    <3> QED
      BY <1>17, <3>1 DEF Upto
<1>19. StoreInv'
  BY <1>1, <1>2 DEF StoreInv
<1>20. CASE Answer(acc, NextOf(found, t))
  <2>1. Walking /\ UNCHANGED <<rows, marks, now, stable, removed>>
    BY <1>1 DEF Walking
  <2>2. WalkInv'
    BY <1>1, <1>3, <1>10, <1>11, <1>17, <1>18, <1>20, <2>1, AnswerStep
  <2> QED
    BY <1>19, <2>2 DEF PagesInv
<1>21. CASE /\ ~(Len(acc) >= q.limit) /\ page.next # NoCursor /\ pc' = pc /\ walk' = walk
            /\ q' = [q EXCEPT !.validAt = at, !.pages = @ + 1, !.cursor = page.next, !.accumulated = acc]
  <2>1. page.next = NextOf(found, t) /\ Len(acc) < q.limit
    BY <1>5, <1>17, <1>21
  <2>2. t < Len(found)
    BY <1>21, <2>1 DEF NextOf
  <2>3. t + 1 \in DOMAIN found /\ page.next = found[t + 1]
    BY <1>11, <1>17, <2>1, <2>2 DEF NextOf
  <2>4. page.next \in Subjects /\ rows[page.next] # NoRow
    BY <1>11, <2>3
  <2>5. Covered(walk \o acc, page.next)
    <3>1. Covered(walk \o q.accumulated, q.cursor)
      BY <1>3 DEF ExtendedInv
    <3> QED
      BY <1>2, <1>10, <1>17, <1>18, <2>1, <2>2, <3>1, Advance
  <2>6. /\ q'.kind = "extended" /\ q'.filter = q.filter /\ q'.limit = q.limit /\ q'.cursor = page.next
        /\ q'.accumulated = acc /\ q'.validAt = at
    BY <1>1, <1>4, <1>21 DEF ExtendedQuery
  <2>7. q' \in ExtendedQuery
    <3>1. q.pages + 1 \in Nat
      BY <1>5
    <3>2. \A c \in Subjects, n \in Nat : [q EXCEPT !.validAt = at, !.pages = n, !.cursor = c, !.accumulated = acc] \in ExtendedQuery
      BY <1>4, <1>7, <1>17 DEF ExtendedQuery
    <3> QED
      BY <1>21, <2>4, <3>1, <3>2
  <2>8. Covered(walk \o q.accumulated, q.cursor)'
    BY <1>1, <1>21, <2>5, <2>6 DEF Covered
  <2>9. ExtendedInv'
    BY <1>1, <1>7, <1>21, <2>1, <2>4, <2>6, <2>7, <2>8 DEF ExtendedInv
  <2>10. \A s \in stable' : Matches(rows', marks', q'.filter, At', s)
    BY <1>1, <1>2, <2>6 DEF At
  <2> QED
    BY <1>1, <1>2, <1>19, <1>21, <2>6, <2>9, <2>10 DEF PagesInv, WalkInv, Asked, Walking
<1> QED
  BY <1>5, <1>15, <1>17, <1>20, <1>21

(* The cursor of the list of marked entities moves on.                     *)
LEMMA MovesOn ==
    ASSUME NEW found \in Seq(Subjects), Increasing(found), NEW k \in Subjects, \A i \in DOMAIN found : found[i] >= k,
           NEW n \in Nat, n >= 1, n < Len(found)
    PROVE  k < NextOf(found, n)
<1>1. NextOf(found, n) = found[n + 1] /\ DOMAIN found = 1..Len(found)
  BY DEF NextOf
<1>2. 1 \in DOMAIN found /\ n + 1 \in DOMAIN found /\ 1 < n + 1
  BY <1>1
<1>3. found[1] < found[n + 1] /\ found[1] >= k
  BY <1>2 DEF Increasing
<1>4. found[1] \in Subjects /\ found[n + 1] \in Subjects
  BY <1>2
<1>5. found[1] \in Nat /\ found[n + 1] \in Nat /\ k \in Nat
  BY <1>4, Sizes
<1> QED
  BY <1>1, <1>3, <1>5

LEMMA ListMarkedStep == ASSUME PagesInv, ListMarked PROVE PagesInv'
<1>1. /\ pc = "page" /\ q.kind = "marked"
      /\ UNCHANGED <<rows, marks, signer, published, now, config, stable, removed>>
  BY DEF ListMarked, store, keys
<1>2. MarkedInv
  BY <1>1 DEF PagesInv, WalkInv, Walking
<1>3. /\ q \in MarkedQuery /\ Covered(walk, q.cursor) /\ \A x \in q.seen : q.cursor # NoCursor /\ x <= q.cursor
  BY <1>2 DEF MarkedInv
<1>4. q.filter = "marks" /\ q.cursor \in Subjects \cup {NoCursor} /\ q.seen \subseteq Subjects
  BY <1>3 DEF MarkedQuery
<1>5. /\ StoreInv /\ stable \subseteq Subjects /\ walk \in Seq(Subjects)
      /\ \A s \in stable : Matches(rows, marks, "marks", q.validAt, s)
  BY <1>1, <1>4, UnderWay DEF Walking, At
<1>6. PICK found : found = Matching("marks", q.validAt, q.cursor)
  OBVIOUS
<1>7. GoesOn(found, q.cursor)
  BY <1>4, <1>5, <1>6, MatchingFacts
<1>8. found \in Seq(Subjects) /\ Increasing(found) /\ \A i \in DOMAIN found : q.cursor = NoCursor \/ found[i] >= q.cursor
  BY <1>7 DEF GoesOn
<1>9. PICK page : page = Page(found, MarkPage)
  OBVIOUS
<1>10. /\ walk' = walk \o page.items
       /\ q' = [q EXCEPT !.cursor = page.next, !.seen = @ \cup {page.next}]
       /\ pc' = IF page.next = NoCursor THEN "done" ELSE IF page.next \in q.seen THEN "failed" ELSE "page"
  BY <1>6, <1>9 DEF ListMarked
<1>11. PICK n : n = Len(page.items)
  OBVIOUS
<1>12. /\ page.items \in Seq(Subjects) /\ n <= Len(found) /\ page.items = First(found, n)
       /\ page.next = NextOf(found, n) /\ (found # <<>> => page.items # <<>>)
  <2>1. MarkPage \in Nat /\ MarkPage >= 1
    BY Sizes
  <2> QED
    BY <1>8, <1>9, <1>11, <2>1, PageFacts
<1>13. n \in Nat /\ Len(found) \in Nat /\ n \in 0..Len(found) /\ (n < Len(found) \/ n = Len(found))
  BY <1>8, <1>11, <1>12
<1>14. /\ walk' \in Seq(Subjects) /\ Increasing(walk')
       /\ (n < Len(found) => Covered(walk', page.next))
       /\ n = Len(found) => \A s \in stable : Tells(walk', s)
  <2>1. walk' = Upto(walk, found, n)
    BY <1>10, <1>12 DEF Upto
  <2>2. /\ Upto(walk, found, n) \in Seq(Subjects) /\ Increasing(Upto(walk, found, n))
        /\ (n < Len(found) => Covered(Upto(walk, found, n), NextOf(found, n)))
        /\ n = Len(found) => \A s \in stable : Tells(Upto(walk, found, n), s)
    BY <1>3, <1>5, <1>7, <1>13, Advance
  <2> QED
    BY <1>12, <2>1, <2>2
<1>15. StoreInv'
  BY <1>1, <1>5 DEF StoreInv
<1>16. CASE n = Len(found)
  <2>1. page.next = NoCursor
    BY <1>12, <1>13, <1>16 DEF NextOf
  <2> QED
    BY <1>1, <1>5, <1>10, <1>14, <1>15, <1>16, <2>1 DEF PagesInv, WalkInv, Asked, Walking
<1>17. CASE n < Len(found)
  <2>1. n >= 1
    <3>1. found # <<>>
      BY <1>13, <1>17
    <3>2. n # 0
      BY <1>11, <1>12, <3>1
    <3> QED
      BY <1>13, <3>2
  <2>2. page.next \in Subjects /\ page.next # NoCursor
    <3>1. n + 1 \in 1..Len(found) /\ page.next = found[n + 1]
      BY <1>12, <1>13, <1>17 DEF NextOf
    <3>2. page.next \in Subjects
      BY <1>8, <3>1
    <3> QED
      BY <3>2, SizeAssumption
  <2>3. \A x \in q.seen : x < page.next
    <3> SUFFICES ASSUME NEW x \in q.seen PROVE x < page.next
      OBVIOUS
    <3>1. q.cursor # NoCursor /\ x <= q.cursor /\ q.cursor \in Subjects /\ x \in Subjects
      BY <1>3, <1>4
    <3>2. \A i \in DOMAIN found : found[i] >= q.cursor
      BY <1>8, <3>1
    <3>3. q.cursor < NextOf(found, n)
      BY <1>8, <1>13, <1>17, <2>1, <3>1, <3>2, MovesOn
    <3>4. q.cursor \in Nat /\ x \in Nat /\ page.next \in Nat /\ q.cursor < page.next
      BY <1>12, <2>2, <3>1, <3>3, Sizes
    <3> QED
      BY <3>1, <3>4
  <2>4. page.next \in Nat /\ \A x \in q.seen : x \in Nat
    BY <1>4, <2>2, Sizes
  <2>5. pc' = "page"
    BY <1>10, <2>2, <2>3, <2>4
  <2>6. /\ q'.kind = "marked" /\ q'.filter = q.filter /\ q'.cursor = page.next /\ q'.validAt = q.validAt
        /\ q'.seen = q.seen \cup {page.next}
    BY <1>1, <1>3, <1>10 DEF MarkedQuery
  <2>7. q' \in MarkedQuery
    BY <1>3, <1>10, <2>2 DEF MarkedQuery
  <2>8. Covered(walk, q.cursor)'
    BY <1>1, <1>14, <1>17, <2>6 DEF Covered
  <2>9. \A x \in q'.seen : q'.cursor # NoCursor /\ x <= q'.cursor
    BY <2>2, <2>3, <2>4, <2>6
  <2>10. MarkedInv'
    BY <2>5, <2>7, <2>8, <2>9 DEF MarkedInv
  <2>11. \A s \in stable' : Matches(rows', marks', q'.filter, At', s)
    BY <1>1, <1>4, <1>5, <2>6 DEF At
  <2> QED
    BY <1>1, <1>5, <1>14, <1>15, <2>5, <2>6, <2>10, <2>11 DEF PagesInv, WalkInv, Asked, Walking
<1> QED
  BY <1>13, <1>16, <1>17

(* Requests about one mark do not walk.                                    *)
LEMMA StatusSteps == ASSUME PagesInv, ReadKeys \/ VerifyMark PROVE PagesInv'
<1>1. /\ UNCHANGED <<rows, marks, signer, published, now, config, walk, stable, removed>>
      /\ Asked /\ pc' \in {"done", "verify"}
  BY DEF ReadKeys, VerifyMark, Tell, store, keys, Asked
<1>2. StoreInv'
  BY <1>1 DEF PagesInv, StoreInv
<1>3. stable = {} /\ walk \in Seq(Subjects) /\ Increasing(walk)
  BY <1>1 DEF PagesInv, WalkInv
<1> QED
  BY <1>1, <1>2, <1>3 DEF PagesInv, WalkInv, Asked, Walking

(* A 500 ends the walk and changes nothing else.                           *)
LEMMA ServerErrorWalk == ASSUME PagesInv, ServerError PROVE PagesInv'
<1>1. /\ UNCHANGED <<rows, marks, signer, published, now, config, walk, stable, removed>>
      /\ pc' = "error"
  BY DEF ServerError, store, keys
<1>2. StoreInv'
  BY <1>1 DEF PagesInv, StoreInv
<1>3. walk \in Seq(Subjects) /\ Increasing(walk) /\ stable \subseteq Subjects
  BY DEF PagesInv, WalkInv
<1> QED
  BY <1>1, <1>2, <1>3 DEF PagesInv, WalkInv, Asked, Walking

(* A write or the clock: what it does to the subjects of a walk.           *)
Gone ==
    /\ \A s \in Subjects : rows[s] # NoRow /\ rows'[s] = NoRow => s \in removed'
    /\ removed \subseteq removed'

LEMMA WritingWalk ==
    ASSUME PagesInv, Writing
    PROVE  StillStable /\ (Walking => Gone) /\ (~Walking => removed' = removed)
<1>1. CASE \E s \in Subjects : Register(s) \/ Update(s) \/ RemoveRow(s)
  <2>1. PICK s \in Subjects : Register(s) \/ Update(s) \/ RemoveRow(s)
    BY <1>1
  <2>2. now # NoRow
    <3>1. now \in Nat
      BY Sizes DEF PagesInv, StoreInv
    <3> QED
      BY <3>1, SizeAssumption
  <2>3. PICK row, gone : SetRow(s, row, gone) /\ (row = NoRow => s \in gone)
    BY <2>1, <2>2 DEF Register, Update, RemoveRow
  <2>4. /\ rows' = [rows EXCEPT ![s] = row] /\ StillStable
        /\ removed' = IF Walking THEN removed \cup gone ELSE removed
    BY <2>3 DEF SetRow, Write, Walking
  <2>5. Walking => Gone
    BY <2>3, <2>4 DEF Gone, PagesInv, StoreInv
  <2> QED
    BY <2>4, <2>5
<1>2. CASE \E s \in Subjects : Issue(s) \/ RevokeMarks(s)
  <2>1. PICK new : SetMarks(new)
    BY <1>2 DEF Issue, RevokeMarks
  <2>2. rows' = rows /\ StillStable /\ removed' = IF Walking THEN removed \cup {} ELSE removed
    BY <2>1 DEF SetMarks, Write, Walking
  <2> QED
    BY <2>2 DEF Gone
<1>3. CASE SwitchKey \/ \E k \in 1..MaxKid : RemoveKey(k)
  <2>1. PICK kid, jwks : SetKeys(kid, jwks)
    BY <1>3 DEF SwitchKey, RemoveKey
  <2>2. rows' = rows /\ StillStable /\ removed' = IF Walking THEN removed \cup {} ELSE removed
    BY <2>1 DEF SetKeys, Write, Walking, store
  <2> QED
    BY <2>2 DEF Gone
<1>4. CASE Tick
  <2>1. rows' = rows /\ StillStable /\ removed' = removed
    BY <1>4 DEF Tick, store
  <2> QED
    BY <2>1 DEF Gone
<1> QED
  BY <1>1, <1>2, <1>3, <1>4 DEF Writing, Writers

LEMMA WritingStep == ASSUME PagesInv, Writing PROVE PagesInv'
<1>1. StoreInv' /\ Mono /\ UNCHANGED <<pc, q, walk>> /\ StoreInv
  BY WritingSteps DEF PagesInv
<1>2. StillStable /\ (Walking => Gone) /\ (~Walking => removed' = removed)
  BY WritingWalk
<1>3. /\ walk \in Seq(Subjects) /\ Increasing(walk) /\ stable \subseteq Subjects
      /\ pc = "failed" => q.kind = "extended" /\ q.cursor \in removed
  BY DEF PagesInv, WalkInv
<1>4. CASE ~Walking
  <2>1. stable' = {} /\ removed' = removed
    BY <1>2, <1>4 DEF StillStable, Walking
  <2> QED
    BY <1>1, <1>3, <1>4, <2>1 DEF PagesInv, WalkInv, Asked, Walking
<1>5. CASE Walking
  <2>1. stable' \subseteq stable /\ \A s \in stable' : Matches(rows', marks', q.filter, At', s)
    BY <1>1, <1>2, <1>5 DEF StillStable, Walking, At
  <2>3. q.kind = "extended" /\ ExtendedInv => ExtendedInv'
    <3> SUFFICES ASSUME q.kind = "extended", ExtendedInv PROVE ExtendedInv'
      OBVIOUS
    <3>1. /\ q \in ExtendedQuery /\ Covered(walk \o q.accumulated, q.cursor)
          /\ (q.cursor # NoCursor /\ rows[q.cursor] = NoRow => q.cursor \in removed)
          /\ (q.pages > 0 => q.validAt <= now) /\ Len(q.accumulated) < q.limit
          /\ pc = "cursor" => q.accumulated = <<>> /\ q.pages = 0
      BY DEF ExtendedInv
    <3>2. Covered(walk \o q.accumulated, q.cursor)'
      BY <1>1, <2>1, <3>1 DEF Covered
    <3>3. q.cursor \in Subjects \cup {NoCursor} /\ q.validAt \in Nat
      BY <3>1 DEF ExtendedQuery
    <3>4. q.cursor # NoCursor /\ rows'[q.cursor] = NoRow => q.cursor \in removed'
      BY <1>2, <1>5, <3>1, <3>3 DEF Gone
    <3>5. q.pages > 0 => q.validAt <= now'
      <4>1. now \in Nat /\ now' \in Nat /\ now <= now'
        BY <1>1, Sizes DEF StoreInv, Mono
      <4> QED
        BY <3>1, <3>3, <4>1
    <3> QED
      BY <1>1, <3>1, <3>2, <3>4, <3>5 DEF ExtendedInv
  <2>4. q.kind = "marked" /\ MarkedInv => MarkedInv'
    BY <1>1, <2>1 DEF MarkedInv, Covered
  <2>5. \/ q.kind = "list" /\ pc = "page" /\ walk = <<>> /\ q.filter \in Filters /\ q.cursor = NoCursor
        \/ q.kind = "extended" /\ ExtendedInv
        \/ q.kind = "marked" /\ MarkedInv
    BY <1>5 DEF PagesInv, WalkInv
  <2>6. \/ q.kind = "list" /\ pc = "page" /\ walk = <<>> /\ q.filter \in Filters /\ q.cursor = NoCursor
        \/ q.kind = "extended" /\ ExtendedInv'
        \/ q.kind = "marked" /\ MarkedInv'
    BY <2>3, <2>4, <2>5
  <2>7. stable' \subseteq Subjects
    BY <1>3, <2>1
  <2>8. q' = q /\ pc' = pc /\ walk' = walk
    BY <1>1
  <2>9. \A s \in stable' : Matches(rows', marks', q'.filter, At', s)
    BY <2>1, <2>8
  <2> QED
    BY <1>1, <1>3, <1>5, <2>6, <2>7, <2>8, <2>9 DEF PagesInv, WalkInv, Asked, Walking
<1> QED
  BY <1>4, <1>5

LEMMA PagesInit == ASSUME Init PROVE PagesInv
<1>1. StoreInv
  BY StoreInit
<1>2. walk = <<>> /\ stable = {} /\ pc = "idle"
  BY DEF Init
<1> QED
  BY <1>1, <1>2, NothingTold DEF PagesInv, WalkInv, Asked, Walking

LEMMA PagesNext == ASSUME PagesInv, [Next]_vars PROVE PagesInv'
<1>1. CASE vars' = vars
  <2>1. UNCHANGED <<rows, marks, signer, published, now, config, pc, q, walk, stable, removed>>
    BY <1>1 DEF vars, store, keys, client
  <2> QED
    BY <2>1 DEF PagesInv, StoreInv, WalkInv, ExtendedInv, MarkedInv, Covered, At, Asked, Walking
<1>2. CASE Next
  BY <1>2, AskListStep, AskExtendedStep, AskMarkedStep, AskStatusWalk, ListStep, LookUpCursorStep,
     FillPageStep, ListMarkedStep, StatusSteps, ServerErrorWalk, WritingStep DEF Next, Writing
<1> QED
  BY <1>1, <1>2

(* A walk through the pages of list.ts, extended-list.ts and               *)
(* trust-mark-list.ts tells, in order and once, each subject that matched  *)
(* all the time, whatever is registered, updated, removed, issued or       *)
(* revoked between its reads; it breaks off only when the record its       *)
(* cursor names was removed.                                               *)
THEOREM PagesTellAll == Spec => []PagesExhaustive
<1>1. PagesInv => PagesExhaustive
  <2> SUFFICES ASSUME PagesInv PROVE PagesExhaustive
    OBVIOUS
  <2>1. /\ Increasing(walk) /\ (pc = "done" => \A s \in stable : Tells(walk, s))
        /\ pc = "failed" => q.kind = "extended" /\ q.cursor \in removed
    BY DEF PagesInv, WalkInv
  <2> QED
    BY <2>1 DEF PagesExhaustive, Increasing, Tells, ToSet
<1> QED
  BY <1>1, PagesInit, PagesNext, PTL DEF Spec
=============================================================================
