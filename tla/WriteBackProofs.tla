--------------------------- MODULE WriteBackProofs ---------------------------
(* Theorems about WriteBack, for any number of roles and records.            *)
EXTENDS WriteBack, SequenceTheorems, TLAPS

-----------------------------------------------------------------------------
(* Taking out of a sequence and putting into one *)

\* erase(k): the elements after k move up.
LEMMA Removed ==
    ASSUME NEW S, NEW q \in Seq(S), NEW k \in DOMAIN q, NEW r, r = RemoveAt(q, k)
    PROVE  /\ r \in Seq(S)
           /\ Len(r) = Len(q) - 1
           /\ \A i \in 1 .. Len(q) - 1 : r[i] = IF i < k THEN q[i] ELSE q[i + 1]
<1>1. Len(q) \in Nat /\ k \in 1 .. Len(q) /\ \A i \in 1 .. Len(q) : q[i] \in S
  BY LenProperties
<1>2. PICK a, b : a = SubSeq(q, 1, k - 1) /\ b = SubSeq(q, k + 1, Len(q))
  OBVIOUS
<1>3. /\ a \in Seq(S) /\ Len(a) = k - 1
      /\ \A i \in 1 .. k - 1 : a[i] = q[i]
  <2>1. \A i \in 1 .. k - 1 : q[i] \in S
    BY <1>1
  <2>2. k - 1 \in Int /\ 1 \in Int
    BY <1>1
  <2>3. /\ a \in Seq(S) /\ Len(a) = IF 1 <= k - 1 THEN (k - 1) - 1 + 1 ELSE 0
        /\ \A i \in 1 .. (k - 1) - 1 + 1 : a[i] = q[1 + i - 1]
    BY <1>2, <2>1, <2>2, SubSeqProperties
  <2> QED
    BY <1>1, <2>3
<1>4. /\ b \in Seq(S) /\ Len(b) = Len(q) - k
      /\ \A i \in 1 .. Len(q) - k : b[i] = q[k + i]
  <2>1. \A i \in k + 1 .. Len(q) : q[i] \in S
    BY <1>1
  <2>2. k + 1 \in Int /\ Len(q) \in Int
    BY <1>1
  <2>3. /\ b \in Seq(S) /\ Len(b) = IF k + 1 <= Len(q) THEN Len(q) - (k + 1) + 1 ELSE 0
        /\ \A i \in 1 .. Len(q) - (k + 1) + 1 : b[i] = q[(k + 1) + i - 1]
    BY <1>2, <2>1, <2>2, SubSeqProperties
  <2> QED
    BY <1>1, <2>3
<1>5. /\ r \in Seq(S) /\ Len(r) = Len(a) + Len(b)
      /\ \A i \in 1 .. Len(a) + Len(b) : r[i] = IF i <= Len(a) THEN a[i] ELSE b[i - Len(a)]
  <2>1. a \in Seq(S) /\ b \in Seq(S)
    BY <1>3, <1>4
  <2>2. /\ a \o b \in Seq(S) /\ Len(a \o b) = Len(a) + Len(b)
        /\ \A i \in 1 .. Len(a) + Len(b) :
              (a \o b)[i] = IF i <= Len(a) THEN a[i] ELSE b[i - Len(a)]
    BY ONLY <2>1, ConcatProperties, Zenon
  <2>3. r = a \o b
    BY <1>2 DEF RemoveAt
  <2> QED
    BY ONLY <2>2, <2>3, Zenon
<1>6. Len(r) = Len(q) - 1
  BY <1>1, <1>3, <1>4, <1>5
<1>7. ASSUME NEW i \in 1 .. Len(q) - 1 PROVE r[i] = IF i < k THEN q[i] ELSE q[i + 1]
  <2>1. r[i] = IF i <= k - 1 THEN a[i] ELSE b[i - (k - 1)]
    <3>1. i \in 1 .. Len(a) + Len(b) /\ Len(a) = k - 1
      BY <1>1, <1>3, <1>4
    <3> QED
      BY ONLY <1>5, <3>1
  <2>2. CASE i < k
    BY <1>1, <1>3, <2>1, <2>2
  <2>3. CASE ~(i < k)
    <3>1. r[i] = b[i - (k - 1)] /\ i - (k - 1) \in 1 .. Len(q) - k
      BY <1>1, <2>1, <2>3
    <3>2. b[i - (k - 1)] = q[k + (i - (k - 1))] /\ k + (i - (k - 1)) = i + 1
      BY <1>1, <1>4, <3>1
    <3> QED
      BY <1>1, <2>3, <3>1, <3>2
  <2> QED
    BY <2>2, <2>3
<1> QED
  BY <1>5, <1>6, <1>7

\* The new element at k, and the ones from k on moved down.
PutIn(q, k, e, r) ==
    /\ Len(r) = Len(q) + 1
    /\ \A i \in 1 .. Len(q) + 1 :
          r[i] = IF i < k THEN q[i] ELSE IF i = k THEN e ELSE q[i - 1]

\* That is what InsertAt does.
LEMMA Inserted ==
    ASSUME NEW S, NEW q \in Seq(S), NEW k \in 1 .. Len(q) + 1, NEW e \in S
    PROVE  InsertAt(q, k, e) \in Seq(S) /\ PutIn(q, k, e, InsertAt(q, k, e))
<1>0. PICK r : r = InsertAt(q, k, e)
  OBVIOUS
<1>1. Len(q) \in Nat /\ \A i \in 1 .. Len(q) : q[i] \in S
  BY LenProperties
<1>2. PICK a, b : a = SubSeq(q, 1, k - 1) /\ b = SubSeq(q, k, Len(q))
  OBVIOUS
<1>3. /\ a \in Seq(S) /\ Len(a) = k - 1
      /\ \A i \in 1 .. k - 1 : a[i] = q[i]
  <2>1. \A i \in 1 .. k - 1 : q[i] \in S
    BY <1>1
  <2>2. k - 1 \in Int /\ 1 \in Int
    BY <1>1
  <2>3. /\ a \in Seq(S) /\ Len(a) = IF 1 <= k - 1 THEN (k - 1) - 1 + 1 ELSE 0
        /\ \A i \in 1 .. (k - 1) - 1 + 1 : a[i] = q[1 + i - 1]
    BY <1>2, <2>1, <2>2, SubSeqProperties
  <2> QED
    BY <1>1, <2>3
<1>4. /\ b \in Seq(S) /\ Len(b) = Len(q) - k + 1
      /\ \A i \in 1 .. Len(q) - k + 1 : b[i] = q[k + i - 1]
  <2>1. \A i \in k .. Len(q) : q[i] \in S
    BY <1>1
  <2>2. k \in Int /\ Len(q) \in Int
    BY <1>1
  <2>3. /\ b \in Seq(S) /\ Len(b) = IF k <= Len(q) THEN Len(q) - k + 1 ELSE 0
        /\ \A i \in 1 .. Len(q) - k + 1 : b[i] = q[k + i - 1]
    BY <1>2, <2>1, <2>2, SubSeqProperties
  <2> QED
    BY <1>1, <2>3
<1>5. PICK c : c = a \o <<e>>
  OBVIOUS
<1>6. /\ c \in Seq(S) /\ Len(c) = k
      /\ \A i \in 1 .. k : c[i] = IF i <= k - 1 THEN q[i] ELSE e
  <2>1. a \in Seq(S) /\ <<e>> \in Seq(S) /\ Len(<<e>>) = 1 /\ <<e>>[1] = e
    BY <1>3
  <2>2. /\ a \o <<e>> \in Seq(S) /\ Len(a \o <<e>>) = Len(a) + Len(<<e>>)
        /\ \A i \in 1 .. Len(a) + Len(<<e>>) :
              (a \o <<e>>)[i] = IF i <= Len(a) THEN a[i] ELSE <<e>>[i - Len(a)]
    BY ONLY <2>1, ConcatProperties, Zenon
  <2>3. /\ c \in Seq(S) /\ Len(c) = Len(a) + 1
        /\ \A i \in 1 .. Len(a) + 1 :
              c[i] = IF i <= Len(a) THEN a[i] ELSE <<e>>[i - Len(a)]
    BY ONLY <1>5, <2>1, <2>2, Zenon
  <2>4. Len(c) = k
    BY <1>1, <1>3, <2>3
  <2>5. ASSUME NEW i \in 1 .. k PROVE c[i] = IF i <= k - 1 THEN q[i] ELSE e
    <3>1. i \in 1 .. Len(a) + 1 /\ Len(a) = k - 1 /\ k \in Int
      BY <1>1, <1>3
    <3>2. c[i] = IF i <= k - 1 THEN a[i] ELSE <<e>>[i - (k - 1)]
      BY ONLY <2>3, <3>1
    <3>3. ~(i <= k - 1) => i - (k - 1) = 1
      BY <3>1
    <3> QED
      BY <1>3, <2>1, <3>1, <3>2, <3>3
  <2> QED
    BY <2>3, <2>4, <2>5
<1>7. /\ r \in Seq(S) /\ Len(r) = Len(c) + Len(b)
      /\ \A i \in 1 .. Len(c) + Len(b) : r[i] = IF i <= Len(c) THEN c[i] ELSE b[i - Len(c)]
  <2>1. c \in Seq(S) /\ b \in Seq(S)
    BY <1>4, <1>6
  <2>2. /\ c \o b \in Seq(S) /\ Len(c \o b) = Len(c) + Len(b)
        /\ \A i \in 1 .. Len(c) + Len(b) :
              (c \o b)[i] = IF i <= Len(c) THEN c[i] ELSE b[i - Len(c)]
    BY ONLY <2>1, ConcatProperties, Zenon
  <2>3. r = c \o b
    BY <1>0, <1>2, <1>5 DEF InsertAt
  <2> QED
    BY ONLY <2>2, <2>3, Zenon
<1>8. Len(r) = Len(q) + 1
  BY <1>1, <1>4, <1>6, <1>7
<1>9. ASSUME NEW i \in 1 .. Len(q) + 1
      PROVE  r[i] = IF i < k THEN q[i] ELSE IF i = k THEN e ELSE q[i - 1]
  <2>1. r[i] = IF i <= k THEN c[i] ELSE b[i - k]
    <3>1. i \in 1 .. Len(c) + Len(b) /\ Len(c) = k
      BY <1>1, <1>4, <1>6
    <3> QED
      BY ONLY <1>7, <3>1
  <2>2. CASE i <= k
    BY <1>1, <1>6, <2>1, <2>2
  <2>3. CASE ~(i <= k)
    <3>1. r[i] = b[i - k] /\ i - k \in 1 .. Len(q) - k + 1
      BY <1>1, <2>1, <2>3
    <3>2. b[i - k] = q[k + (i - k) - 1] /\ k + (i - k) - 1 = i - 1
      BY <1>1, <1>4, <3>1
    <3> QED
      BY <1>1, <2>3, <3>1, <3>2
  <2> QED
    BY <1>1, <2>2, <2>3
<1>10. r \in Seq(S) /\ PutIn(q, k, e, r)
  BY <1>7, <1>8, <1>9 DEF PutIn
<1> QED
  BY ONLY <1>0, <1>10, Zenon

\* The members of a set kept as a sequence: one taken out, ...
LEMMA RemovedMember ==
    ASSUME NEW S, NEW q \in Seq(S), IsInjective(q), NEW k \in DOMAIN q,
           NEW r, r = RemoveAt(q, k)
    PROVE  r \in Seq(S) /\ IsInjective(r) /\ ToSet(r) = ToSet(q) \ {q[k]}
<1>1. /\ r \in Seq(S) /\ Len(r) = Len(q) - 1
      /\ \A i \in 1 .. Len(q) - 1 : r[i] = IF i < k THEN q[i] ELSE q[i + 1]
  BY Removed
<1>2. /\ DOMAIN q = 1 .. Len(q) /\ Len(q) \in Nat /\ DOMAIN r = 1 .. Len(q) - 1
  BY <1>1, LenProperties
<1>3. IsInjective(r)
  <2>1. \A i \in DOMAIN r : \/ i < k /\ i \in DOMAIN q /\ r[i] = q[i]
                            \/ i >= k /\ i + 1 \in DOMAIN q /\ r[i] = q[i + 1]
    BY <1>1, <1>2
  <2>2. ASSUME NEW i \in DOMAIN r, NEW j \in DOMAIN r, r[i] = r[j] PROVE i = j
    BY <1>2, <2>1, <2>2 DEF IsInjective
  <2> QED
    BY <2>2 DEF IsInjective
<1>4. \A i \in DOMAIN r : r[i] \in ToSet(q) \ {q[k]}
  BY <1>1, <1>2 DEF IsInjective, ToSet
<1>5. ASSUME NEW i \in DOMAIN q, q[i] # q[k] PROVE q[i] \in ToSet(r)
  <2>1. CASE i < k
    BY <1>1, <1>2, <2>1 DEF ToSet
  <2>2. CASE i > k
    <3>1. i - 1 \in DOMAIN r /\ r[i - 1] = q[i]
      BY <1>1, <1>2, <2>2
    <3> QED
      BY <3>1 DEF ToSet
  <2> QED
    BY <1>2, <1>5, <2>1, <2>2
<1> QED
  BY <1>1, <1>3, <1>4, <1>5 DEF ToSet

\* ... and one put in.
LEMMA InsertedMember ==
    ASSUME NEW S, NEW q \in Seq(S), IsInjective(q), NEW k \in 1 .. Len(q) + 1,
           NEW e \in S, e \notin ToSet(q), NEW r, r = InsertAt(q, k, e)
    PROVE  r \in Seq(S) /\ IsInjective(r) /\ ToSet(r) = ToSet(q) \cup {e}
<1>1. /\ r \in Seq(S) /\ Len(r) = Len(q) + 1
      /\ \A i \in 1 .. Len(q) + 1 :
            r[i] = IF i < k THEN q[i] ELSE IF i = k THEN e ELSE q[i - 1]
  <2>1. r \in Seq(S) /\ PutIn(q, k, e, r)
    BY Inserted, Zenon
  <2> QED
    BY <2>1 DEF PutIn
<1>2. /\ DOMAIN q = 1 .. Len(q) /\ Len(q) \in Nat /\ DOMAIN r = 1 .. Len(q) + 1
      /\ k \in DOMAIN r /\ r[k] = e
  BY <1>1, LenProperties
<1>3. \A i \in DOMAIN q : q[i] # e
  BY DEF ToSet
<1>4. \A i \in DOMAIN r : \/ i = k
                          \/ i < k /\ i \in DOMAIN q /\ r[i] = q[i]
                          \/ i > k /\ i - 1 \in DOMAIN q /\ r[i] = q[i - 1]
  BY <1>1, <1>2
<1>5. IsInjective(r)
  <2>1. ASSUME NEW i \in DOMAIN r, NEW j \in DOMAIN r, r[i] = r[j] PROVE i = j
    <3>1. CASE i = k \/ j = k
      BY <1>2, <1>3, <1>4, <2>1, <3>1
    <3>2. CASE i # k /\ j # k
      BY <1>2, <1>4, <2>1, <3>2 DEF IsInjective
    <3> QED
      BY <3>1, <3>2
  <2> QED
    BY <2>1 DEF IsInjective
<1>6. \A i \in DOMAIN r : r[i] \in ToSet(q) \cup {e}
  BY <1>2, <1>4 DEF ToSet
<1>7. ASSUME NEW i \in DOMAIN q PROVE q[i] \in ToSet(r)
  <2>1. CASE i < k
    <3>1. i \in DOMAIN r /\ r[i] = q[i]
      BY <1>1, <1>2, <2>1
    <3> QED
      BY <3>1 DEF ToSet
  <2>2. CASE i >= k
    <3>1. i + 1 \in DOMAIN r /\ r[i + 1] = q[i]
      BY <1>1, <1>2, <2>2
    <3> QED
      BY <3>1 DEF ToSet
  <2> QED
    BY <1>2, <2>1, <2>2
<1>8. e \in ToSet(r)
  BY <1>2 DEF ToSet
<1> QED
  BY <1>1, <1>5, <1>6, <1>7, <1>8 DEF ToSet

\* The lowest one taken out.
LEMMA LowestMember ==
    ASSUME NEW S, NEW q \in Seq(S), IsInjective(q), q # <<>>, NEW r, r = Tail(q)
    PROVE  r \in Seq(S) /\ IsInjective(r) /\ ToSet(r) = ToSet(q) \ {q[1]}
<1>1. /\ r \in Seq(S) /\ Len(r) = Len(q) - 1
      /\ Len(q) \in Nat \ {0} /\ DOMAIN q = 1 .. Len(q)
  BY LenProperties, EmptySeq, HeadTailProperties
<1>2. DOMAIN r = 1 .. Len(q) - 1
  BY <1>1, LenProperties
<1>3. \A i \in DOMAIN r : r[i] = q[i + 1] /\ i + 1 \in DOMAIN q
  BY <1>1, <1>2
<1>4. IsInjective(r)
  BY <1>1, <1>2, <1>3 DEF IsInjective
<1>5. \A i \in DOMAIN r : r[i] \in ToSet(q) \ {q[1]}
  BY <1>1, <1>2, <1>3 DEF IsInjective, ToSet
<1>6. ASSUME NEW i \in DOMAIN q, q[i] # q[1] PROVE q[i] \in ToSet(r)
  <2>1. i - 1 \in DOMAIN r /\ r[i - 1] = q[i]
    BY <1>1, <1>2, <1>3, <1>6
  <2> QED
    BY <2>1 DEF ToSet
<1> QED
  BY <1>1, <1>4, <1>5, <1>6 DEF ToSet

-----------------------------------------------------------------------------
(* The inductive invariant *)

\* The list is in the order of the records' numbers; the redis thread's record
\* comes before the others, and whatever redis holds before that.
InOrder ==
    /\ \A i, j \in DOMAIN s_redis_list :
          i < j => s_redis_list[i][2] < s_redis_list[j][2]
    /\ \A record \in ToSet(s_redis_list) \cup redis_data :
          /\ record[2] <= newest[record[1]]
          /\ \A r \in Roles : value[r] < record[2]
    /\ \A r \in Roles : newest[r] <= made /\ value[r] <= made
    /\ at = "test" => redis_data = {}
    /\ at = "erase" => s_redis_list # <<>> /\ redis_data = {s_redis_list[1]}
    /\ at = "set" => \E record \in Records :
                        /\ redis_data = {record}
                        /\ \A i \in DOMAIN s_redis_list : record[2] < s_redis_list[i][2]

\* The last record of a role is upstream, lost, or what redis holds.
Newest ==
    \A r \in Roles :
        \/ value[r] = newest[r]
        \/ <<r, newest[r]>> \in ToSet(s_redis_list) \cup redis_data \cup dropped

\* What the data server has read and saved.
Pass ==
    /\ pc \in {"zrange", "down"} => response \in {Nothing, ErrorText}
    /\ \A r \in Roles : mysql[r] <= value[r]
    /\ pc = "save" /\ role # 0 =>
          /\ response \in Roles
          /\ mysql[response] <= role /\ role <= value[response]
          /\ role = value[response] \/ response \in putting \/ Ranked(response)
    /\ \A r \in Roles : r \in putting \/ Ranked(r) => value[r] # 0

\* While nothing is ranked, the member read is the lowest, and what is saved is
\* what redis holds, unless the role is to be ranked again.
Quiet ==
    /\ quiet /\ pc \in {"get", "save", "remove"} /\ response # ErrorText =>
          role_sets # <<>> /\ role_sets[1] = response
    /\ quiet /\ pc \in {"save", "remove"} => response \in Roles
    /\ quiet /\ pc = "save" => role = value[response] \/ response \in putting
    /\ quiet /\ pc = "remove" =>
          mysql[response] = value[response] \/ response \in putting

\* Between redis and MySQL a role is to be ranked, ranked, or saved.
Delivered ==
    \A r \in Roles \ displaced :
        r \in putting \/ Ranked(r) \/ mysql[r] = value[r]

WriteBackInv == TypeOK /\ InOrder /\ Newest /\ Pass /\ Quiet /\ Delivered

-----------------------------------------------------------------------------
(* Types *)

\* push_back: the record is in the list, and what was in it still is.
LEMMA Pushed ==
    ASSUME NEW S, NEW q \in Seq(S), NEW e \in S, NEW r, r = Append(q, e)
    PROVE  /\ r \in Seq(S)
           /\ DOMAIN r = 1 .. Len(q) + 1 /\ DOMAIN q = 1 .. Len(q) /\ Len(q) \in Nat
           /\ r[Len(q) + 1] = e
           /\ \A i \in DOMAIN q : r[i] = q[i]
BY LenProperties, AppendProperties

\* Nothing else is.
LEMMA PushedSet ==
    ASSUME NEW S, NEW q \in Seq(S), NEW e \in S
    PROVE  ToSet(Append(q, e)) = ToSet(q) \cup {e}
<1>0. PICK r : r = Append(q, e)
  OBVIOUS
<1>1. /\ DOMAIN r = 1 .. Len(q) + 1 /\ DOMAIN q = 1 .. Len(q) /\ Len(q) \in Nat
      /\ r[Len(q) + 1] = e
      /\ \A i \in DOMAIN q : r[i] = q[i]
  BY <1>0, LenProperties, AppendProperties
<1>2. \A i \in DOMAIN r : i \in DOMAIN q \/ i = Len(q) + 1
  BY <1>1
<1>3. Len(q) + 1 \in DOMAIN r /\ \A i \in DOMAIN q : i \in DOMAIN r
  BY <1>1
<1>4. ToSet(r) = ToSet(q) \cup {e}
  BY <1>1, <1>2, <1>3 DEF ToSet
<1> QED
  BY ONLY <1>0, <1>4, Zenon

\* ZADD leaves a set with the new member.
LEMMA RankedSet ==
    ASSUME TypeOK, NEW r \in Roles, NEW i, Rank(r, i)
    PROVE  /\ role_sets' \in Seq(Roles) /\ IsInjective(role_sets')
           /\ ToSet(role_sets') = ToSet(role_sets) \cup {r}
<1>1. role_sets \in Seq(Roles) /\ IsInjective(role_sets)
  BY DEF TypeOK
<1>2. PICK o : o = Others(r)
  OBVIOUS
<1>3. o \in Seq(Roles) /\ IsInjective(o) /\ ToSet(o) = ToSet(role_sets) \ {r}
  <2>1. CASE Ranked(r)
    <3>1. PICK k : k = CHOOSE h \in DOMAIN role_sets : role_sets[h] = r
      OBVIOUS
    <3>2. \E j \in DOMAIN role_sets : role_sets[j] = r
      BY <2>1 DEF Ranked, ToSet
    <3>3. k \in DOMAIN role_sets /\ role_sets[k] = r
      BY <3>1, <3>2, Zenon
    <3>4. o = RemoveAt(role_sets, k)
      BY <1>2, <2>1, <3>1 DEF Others
    <3>5. o \in Seq(Roles) /\ IsInjective(o) /\ ToSet(o) = ToSet(role_sets) \ {role_sets[k]}
      BY <1>1, <3>3, <3>4, RemovedMember
    <3> QED
      BY <3>3, <3>5
  <2>2. CASE ~Ranked(r)
    <3>1. o = role_sets
      BY <1>2, <2>2 DEF Others
    <3> QED
      BY <1>1, <2>2, <3>1 DEF Ranked
  <2> QED
    BY <2>1, <2>2
<1>4. PICK s : s = role_sets'
  OBVIOUS
<1>5. i \in 1 .. Len(o) + 1 /\ s = InsertAt(o, i, r) /\ r \notin ToSet(o)
  BY <1>2, <1>3, <1>4 DEF Rank
<1>6. s \in Seq(Roles) /\ IsInjective(s) /\ ToSet(s) = ToSet(o) \cup {r}
  BY <1>3, <1>5, InsertedMember
<1> QED
  BY <1>3, <1>4, <1>6, Zenon DEF Rank

\* ZREMRANGEBYRANK 0 0 takes the lowest member out, if there is one.
LEMMA LowestTaken ==
    ASSUME TypeOK
    PROVE  /\ LowestRemoved \in Seq(Roles) /\ IsInjective(LowestRemoved)
           /\ ToSet(LowestRemoved) =
                 ToSet(role_sets) \ (IF role_sets = <<>> THEN {} ELSE {role_sets[1]})
<1>1. role_sets \in Seq(Roles) /\ IsInjective(role_sets)
  BY DEF TypeOK
<1>2. CASE role_sets = <<>>
  BY <1>1, <1>2 DEF LowestRemoved
<1>3. CASE role_sets # <<>>
  <2>1. PICK s : s = Tail(role_sets)
    OBVIOUS
  <2>2. s \in Seq(Roles) /\ IsInjective(s) /\ ToSet(s) = ToSet(role_sets) \ {role_sets[1]}
    BY <1>1, <1>3, <2>1, LowestMember
  <2>3. LowestRemoved = s
    BY <1>3, <2>1 DEF LowestRemoved
  <2> QED
    BY <1>3, <2>2, <2>3
<1> QED
  BY <1>2, <1>3

\* list::erase(begin())
LEMMA BeginErased ==
    ASSUME TypeOK, s_redis_list # <<>>, NEW r, r = RemoveAt(s_redis_list, Begin)
    PROVE  /\ r \in Seq(Records)
           /\ DOMAIN s_redis_list = 1 .. Len(s_redis_list) /\ Len(s_redis_list) \in Nat \ {0}
           /\ DOMAIN r = 1 .. Len(s_redis_list) - 1
           /\ \A i \in DOMAIN r : r[i] = s_redis_list[i + 1]
<1>1. s_redis_list \in Seq(Records)
  BY DEF TypeOK
<1>2. DOMAIN s_redis_list = 1 .. Len(s_redis_list) /\ Len(s_redis_list) \in Nat \ {0}
  BY <1>1, LenProperties, EmptySeq
<1>3. Begin \in DOMAIN s_redis_list /\ Begin = 1
  BY <1>2 DEF Begin
<1>4. /\ r \in Seq(Records) /\ Len(r) = Len(s_redis_list) - 1
      /\ \A i \in 1 .. Len(s_redis_list) - 1 :
            r[i] = IF i < Begin THEN s_redis_list[i] ELSE s_redis_list[i + 1]
  BY <1>1, <1>3, Removed
<1>5. DOMAIN r = 1 .. Len(s_redis_list) - 1
  BY <1>4, LenProperties
<1> QED
  BY <1>2, <1>3, <1>4, <1>5

\* Every step keeps the types; that the redis thread erases from a list with a
\* record on it comes from InOrder.
LEMMA TypeKept == ASSUME TypeOK, InOrder, Next PROVE TypeOK'
<1>0. 0 \in Numbers
  BY MaxRecordsAssumption DEF Numbers
<1>1. CASE Add
  <2>1. PICK r \in Roles : AddRedisData(r)
    BY <1>1 DEF Add
  <2>2. <<r, made + 1>> \in Records /\ made + 1 \in Numbers
    BY <2>1, MaxRecordsAssumption DEF AddRedisData, TypeOK, Records, Numbers
  <2>3. s_redis_list' \in Seq(Records)
    <3>1. s_redis_list \in Seq(Records)
      BY DEF TypeOK
    <3>2. s_redis_list' \in {s_redis_list, Append(s_redis_list, <<r, made + 1>>)}
      BY <2>1 DEF AddRedisData
    <3> QED
      BY <2>2, <3>1, <3>2, AppendProperties
  <2>4. dropped' \subseteq Records
    BY <2>1, <2>2 DEF AddRedisData, TypeOK
  <2>5. list_ok' \in BOOLEAN
    BY <2>1 DEF AddRedisData, TypeOK
  <2> QED
    BY <2>1, <2>2, <2>3, <2>4, <2>5
    DEF AddRedisData, TypeOK, storeVars, serverVars, history
<1>2. CASE TakeBegin
  <2>1. s_redis_list[Begin] \in Records
    <3>1. s_redis_list \in Seq(Records) /\ s_redis_list # <<>>
      BY <1>2 DEF TypeOK, TakeBegin
    <3> QED
      BY <3>1, LenProperties, EmptySeq DEF Begin
  <2> QED
    BY <1>2, <2>1 DEF TakeBegin, TypeOK, storeVars, serverVars, history
<1>3. CASE Erase
  <2>1. s_redis_list # <<>>
    BY <1>3 DEF Erase, InOrder
  <2>2. s_redis_list' \in Seq(Records)
    BY <1>3, <2>1, BeginErased DEF Erase
  <2> QED
    BY <1>3, <2>2 DEF Erase, TypeOK, storeVars, serverVars, history
<1>4. CASE SetData
  BY <1>4 DEF SetData, TypeOK, serverVars, history, Records
<1>5. CASE SetDataFails
  BY <1>5 DEF SetDataFails, TypeOK, storeVars, serverVars, history
<1>6. CASE GameRestarts
  <2>1. ToSet(s_redis_list) \subseteq Records
    BY LenProperties DEF ToSet, TypeOK
  <2> QED
    BY <1>6, <2>1 DEF GameRestarts, TypeOK, storeVars, serverVars, history
<1>7. CASE Ranking
  <2>1. PICK r \in Roles, i \in 1 .. Len(role_sets) + 1 : Rank(r, i)
    BY <1>7 DEF Ranking
  <2>2. role_sets' \in Seq(Roles) /\ IsInjective(role_sets')
    BY <2>1, RankedSet
  <2> QED
    BY <2>1, <2>2 DEF Rank, TypeOK, gameVars, serverVars
<1>8. CASE Server
  <2>1. CASE Zrange
    <3>1. Lowest \in Roles \cup {Nothing, ErrorText}
      <4>1. role_sets \in Seq(Roles) /\ response \in Roles \cup {Nothing, ErrorText}
        BY DEF TypeOK
      <4> QED
        BY <4>1, HeadTailProperties DEF Lowest
    <3> QED
      BY <2>1, <3>1 DEF Zrange, AfterZrange, TypeOK, gameVars, storeVars
  <2>2. CASE ZrangeFails
    BY <2>2 DEF ZrangeFails, TypeOK, gameVars, storeVars, history
  <2>3. CASE Get
    <3>1. response \in Roles
      BY <2>3 DEF Get, TypeOK
    <3> QED
      BY <2>3, <3>1 DEF Get, TypeOK, gameVars, storeVars, history
  <2>4. CASE GetFails
    BY <1>0, <2>4 DEF GetFails, TypeOK, gameVars, storeVars
  <2>5. CASE Save
    <3>1. mysql' \in [Roles -> Numbers]
      BY <2>5 DEF Save, TypeOK
    <3> QED
      BY <2>5, <3>1 DEF Save, TypeOK, gameVars, history
  <2>6. CASE SaveFails
    BY <1>0, <2>6
    DEF SaveFails, NotSaved, PassEnds, TypeOK, gameVars, storeVars, history
  <2>7. CASE ZRem
    <3>1. LowestRemoved \in Seq(Roles) /\ IsInjective(LowestRemoved)
      BY LowestTaken
    <3>2. ToSet(role_sets) \subseteq Roles
      BY LenProperties DEF ToSet, TypeOK
    <3>3. role_sets' \in Seq(Roles) /\ IsInjective(role_sets') /\ displaced' \subseteq Roles
      BY <2>7, <3>1, <3>2 DEF ZRem, TypeOK
    <3> QED
      BY <1>0, <2>7, <3>3 DEF ZRem, PassEnds, TypeOK, gameVars
  <2>8. CASE ZRemFails
    BY <1>0, <2>8 DEF ZRemFails, PassEnds, TypeOK, gameVars, storeVars, history
  <2> QED
    BY <1>8, <2>1, <2>2, <2>3, <2>4, <2>5, <2>6, <2>7, <2>8 DEF Server
<1>9. CASE ConnectionFails
  BY <1>9 DEF ConnectionFails, TypeOK, gameVars, storeVars, history
<1>10. CASE Crash
  BY <1>0, <1>10 DEF Crash, TypeOK, gameVars, storeVars, history
<1>11. CASE Restart
  BY <1>11 DEF Restart, TypeOK, gameVars, storeVars, history
<1> QED
  BY <1>1, <1>2, <1>3, <1>4, <1>5, <1>6, <1>7, <1>8, <1>9, <1>10, <1>11
  DEF Next, RedisThread

-----------------------------------------------------------------------------
(* From the game server to redis *)

\* The data server and the producer of the set touch neither the list nor what
\* redis holds under the keys.
LEMMA GameQuiet ==
    ASSUME InOrder, Newest, UNCHANGED <<gameVars, value>>
    PROVE  InOrder' /\ Newest'
BY DEF InOrder, Newest, gameVars

\* A new record has the highest number of all.
LEMMA AddInOrder ==
    ASSUME TypeOK, InOrder, Newest, NEW r \in Roles, AddRedisData(r)
    PROVE  InOrder' /\ Newest'
<1>0. PICK record : record = <<r, made + 1>>
  OBVIOUS
<1>1. /\ made \in Nat /\ newest \in [Roles -> Numbers] /\ value \in [Roles -> Numbers]
      /\ Numbers \subseteq Nat /\ s_redis_list \in Seq(Records) /\ redis_data \subseteq Records
  BY MaxRecordsAssumption DEF TypeOK, Numbers
<1>2. record \in Records /\ record[1] = r /\ record[2] = made + 1
  BY <1>0, <1>1, MaxRecordsAssumption DEF AddRedisData, Records, Numbers, TypeOK
<1>3. /\ \A s \in Roles : newest[s] <= made /\ value[s] <= made
      /\ \A s \in Roles : newest[s] \in Nat /\ value[s] \in Nat
      /\ \A s \in Roles : newest'[s] = IF s = r THEN made + 1 ELSE newest[s]
      /\ made' = made + 1
      /\ UNCHANGED <<value, at, redis_data>>
  <2>1. \A s \in Roles : newest[s] <= made /\ value[s] <= made
    BY DEF InOrder
  <2>2. \A s \in Roles : newest[s] \in Nat /\ value[s] \in Nat
    BY <1>1
  <2>3. newest' = [newest EXCEPT ![r] = made + 1]
    BY DEF AddRedisData
  <2>4. \A s \in Roles : newest'[s] = IF s = r THEN made + 1 ELSE newest[s]
    BY ONLY <1>1, <2>3
  <2>5. made' = made + 1 /\ UNCHANGED <<value, at, redis_data>>
    BY DEF AddRedisData, storeVars
  <2> QED
    BY <2>1, <2>2, <2>4, <2>5
<1>4. \/ /\ s_redis_list' = Append(s_redis_list, record) /\ UNCHANGED dropped
      \/ /\ s_redis_list' = s_redis_list /\ dropped' = dropped \cup {record}
  BY <1>0 DEF AddRedisData
<1>4a. ASSUME s_redis_list' = Append(s_redis_list, record)
       PROVE  ToSet(s_redis_list') = ToSet(s_redis_list) \cup {record}
  <2>1. PICK q, l : q = s_redis_list /\ l = s_redis_list'
    OBVIOUS
  <2>2. q \in Seq(Records) /\ l = Append(q, record) /\ record \in Records
    BY <1>1, <1>2, <1>4a, <2>1
  <2>3. ToSet(Append(q, record)) = ToSet(q) \cup {record}
    BY <2>2, PushedSet
  <2>4. ToSet(l) = ToSet(q) \cup {record}
    BY ONLY <2>2, <2>3, Zenon
  <2> QED
    BY ONLY <2>1, <2>4, Zenon
<1>5. ToSet(s_redis_list) \subseteq Records
  BY <1>1, LenProperties DEF ToSet
<1>6. \A x \in ToSet(s_redis_list) \cup redis_data :
         /\ x[1] \in Roles /\ x[2] \in Nat
         /\ x[2] <= newest[x[1]] /\ x[2] <= made
         /\ x[2] <= newest'[x[1]]
         /\ \A s \in Roles : value[s] < x[2]
  <2>1. \A x \in ToSet(s_redis_list) \cup redis_data : x[1] \in Roles /\ x[2] \in Nat
    BY <1>1, <1>5 DEF Records
  <2>2. \A x \in ToSet(s_redis_list) \cup redis_data :
           x[2] <= newest[x[1]] /\ \A s \in Roles : value[s] < x[2]
    BY DEF InOrder
  <2>3. ASSUME NEW x \in ToSet(s_redis_list) \cup redis_data
        PROVE  x[2] <= made /\ x[2] <= newest'[x[1]]
    <3>1. PICK s \in Roles, n \in Nat : s = x[1] /\ n = x[2]
      BY <2>1
    <3>2. n <= newest[s] /\ newest[s] <= made /\ newest[s] \in Nat
      BY <1>3, <2>2, <3>1
    <3>3. n <= made /\ n <= newest'[s]
      BY <1>1, <1>3, <3>2
    <3> QED
      BY <3>1, <3>3
  <2> QED
    BY <2>1, <2>2, <2>3
<1>7. /\ record[2] <= newest'[record[1]]
      /\ \A s \in Roles : value[s] < record[2]
  <2>1. newest'[r] = made + 1 /\ \A s \in Roles : value[s] < made + 1
    BY <1>1, <1>3
  <2> QED
    BY <1>1, <1>2, <2>1
<1>8. \A x \in ToSet(s_redis_list') \cup redis_data' :
         x = record \/ x \in ToSet(s_redis_list) \cup redis_data
  <2>1. CASE s_redis_list' = Append(s_redis_list, record)
    BY <1>3, <1>4a, <2>1
  <2>2. CASE s_redis_list' = s_redis_list
    BY <1>3, <2>2
  <2> QED
    BY <1>4, <2>1, <2>2
<1>9. ASSUME NEW x \in ToSet(s_redis_list') \cup redis_data'
      PROVE  x[2] <= newest'[x[1]] /\ \A s \in Roles : value'[s] < x[2]
  BY <1>3, <1>6, <1>7, <1>8
<1>10. \A s \in Roles : newest'[s] <= made' /\ value'[s] <= made'
  BY <1>1, <1>3
<1>11. ASSUME s_redis_list' = Append(s_redis_list, record)
       PROVE  /\ s_redis_list' # <<>>
              /\ \A i \in DOMAIN s_redis_list' :
                    \/ i \in DOMAIN s_redis_list /\ s_redis_list'[i] = s_redis_list[i]
                       /\ i < Len(s_redis_list) + 1
                    \/ i = Len(s_redis_list) + 1 /\ s_redis_list'[i] = record
  <2>1. /\ s_redis_list' \in Seq(Records)
        /\ DOMAIN s_redis_list' = 1 .. Len(s_redis_list) + 1
        /\ DOMAIN s_redis_list = 1 .. Len(s_redis_list) /\ Len(s_redis_list) \in Nat
        /\ s_redis_list'[Len(s_redis_list) + 1] = record
        /\ \A i \in DOMAIN s_redis_list : s_redis_list'[i] = s_redis_list[i]
    BY <1>1, <1>2, <1>11, Pushed
  <2>2. s_redis_list' # <<>>
    BY <1>1, <1>2, <1>11, AppendProperties
  <2> QED
    BY <2>1, <2>2
<1>12. \A i \in DOMAIN s_redis_list : s_redis_list[i] \in ToSet(s_redis_list)
  BY DEF ToSet
<1>13. ASSUME NEW i \in DOMAIN s_redis_list', NEW j \in DOMAIN s_redis_list', i < j
       PROVE  s_redis_list'[i][2] < s_redis_list'[j][2]
  <2>1. CASE s_redis_list' = s_redis_list
    BY <1>13, <2>1 DEF InOrder
  <2>2. CASE s_redis_list' = Append(s_redis_list, record)
    <3>1. CASE j \in DOMAIN s_redis_list /\ s_redis_list'[j] = s_redis_list[j]
               /\ j < Len(s_redis_list) + 1
      <4>1. i \in DOMAIN s_redis_list /\ s_redis_list'[i] = s_redis_list[i]
        BY <1>1, <1>11, <1>13, <2>2, <3>1, LenProperties
      <4> QED
        BY <1>13, <3>1, <4>1 DEF InOrder
    <3>2. CASE j = Len(s_redis_list) + 1 /\ s_redis_list'[j] = record
      <4>1. i \in DOMAIN s_redis_list /\ s_redis_list'[i] = s_redis_list[i]
        BY <1>1, <1>11, <1>13, <2>2, <3>2, LenProperties
      <4>2. s_redis_list[i][2] <= made /\ s_redis_list[i][2] \in Nat
        BY <1>6, <1>12, <4>1
      <4> QED
        BY <1>1, <1>2, <3>2, <4>1, <4>2
    <3> QED
      BY <1>11, <1>13, <2>2, <3>1, <3>2
  <2> QED
    BY <1>4, <2>1, <2>2
<1>14. at' = "erase" => s_redis_list' # <<>> /\ redis_data' = {s_redis_list'[1]}
  <2>1. ASSUME at' = "erase"
        PROVE  s_redis_list' # <<>> /\ redis_data' = {s_redis_list'[1]}
    <3>1. s_redis_list # <<>> /\ redis_data = {s_redis_list[1]}
      BY <1>3, <2>1 DEF InOrder
    <3>2. CASE s_redis_list' = s_redis_list
      BY <1>3, <3>1, <3>2
    <3>3. CASE s_redis_list' = Append(s_redis_list, record)
      <4>1. 1 \in DOMAIN s_redis_list
        BY <1>1, <3>1, LenProperties, EmptySeq
      <4>2. s_redis_list'[1] = s_redis_list[1]
        BY <1>1, <1>2, <3>3, <4>1, AppendProperties
      <4> QED
        BY <1>3, <1>11, <3>1, <3>3, <4>2
    <3> QED
      BY <1>4, <3>2, <3>3
  <2> QED
    BY <2>1
<1>15. at' = "set" => \E x \in Records :
          redis_data' = {x} /\ \A i \in DOMAIN s_redis_list' : x[2] < s_redis_list'[i][2]
  <2>1. ASSUME at' = "set"
        PROVE  \E x \in Records :
                  redis_data' = {x} /\ \A i \in DOMAIN s_redis_list' : x[2] < s_redis_list'[i][2]
    <3>1. PICK x \in Records :
             redis_data = {x} /\ \A i \in DOMAIN s_redis_list : x[2] < s_redis_list[i][2]
      BY <1>3, <2>1 DEF InOrder
    <3>2. x[2] < made + 1
      BY <1>1, <1>6, <3>1
    <3>3. \A i \in DOMAIN s_redis_list' : x[2] < s_redis_list'[i][2]
      BY <1>2, <1>4, <1>11, <3>1, <3>2
    <3> QED
      BY <1>3, <3>1, <3>3
  <2> QED
    BY <2>1
<1>16. at' = "test" => redis_data' = {}
  BY <1>3 DEF InOrder
<1>17. InOrder'
  BY <1>9, <1>10, <1>13, <1>14, <1>15, <1>16 DEF InOrder
<1>18. ASSUME NEW s \in Roles
       PROVE  \/ value'[s] = newest'[s]
              \/ <<s, newest'[s]>> \in ToSet(s_redis_list') \cup redis_data' \cup dropped'
  <2>1. ToSet(s_redis_list) \subseteq ToSet(s_redis_list') /\ dropped \subseteq dropped'
        /\ record \in ToSet(s_redis_list') \cup dropped'
    <3>1. CASE s_redis_list' = Append(s_redis_list, record) /\ UNCHANGED dropped
      BY <1>4a, <3>1
    <3>2. CASE s_redis_list' = s_redis_list /\ dropped' = dropped \cup {record}
      BY <3>2
    <3> QED
      BY <1>4, <3>1, <3>2
  <2>2. CASE s = r
    <3>1. <<s, newest'[s]>> = record
      BY <1>0, <1>3, <2>2
    <3> QED
      BY <2>1, <3>1
  <2>3. CASE s # r
    <3>1. newest'[s] = newest[s] /\ value'[s] = value[s] /\ redis_data' = redis_data
      BY <1>3, <2>3
    <3>2. \/ value[s] = newest[s]
          \/ <<s, newest[s]>> \in ToSet(s_redis_list) \cup redis_data \cup dropped
      BY DEF Newest
    <3> QED
      BY <2>1, <3>1, <3>2
  <2> QED
    BY <2>2, <2>3
<1> QED
  BY <1>17, <1>18 DEF Newest

\* Numbers on the list and in hand.
LEMMA RecordFacts ==
    ASSUME TypeOK
    PROVE  /\ Numbers \subseteq Nat
           /\ DOMAIN s_redis_list = 1 .. Len(s_redis_list) /\ Len(s_redis_list) \in Nat
           /\ \A i \in DOMAIN s_redis_list :
                 s_redis_list[i] \in Records /\ s_redis_list[i] \in ToSet(s_redis_list)
           /\ \A x \in ToSet(s_redis_list) \cup redis_data :
                 x \in Records /\ x = <<x[1], x[2]>> /\ x[1] \in Roles /\ x[2] \in Nat
<1>1. Numbers \subseteq Nat
  BY MaxRecordsAssumption DEF Numbers
<1>2. s_redis_list \in Seq(Records) /\ redis_data \subseteq Records
  BY DEF TypeOK
<1>3. DOMAIN s_redis_list = 1 .. Len(s_redis_list) /\ Len(s_redis_list) \in Nat
  BY <1>2, LenProperties
<1>4. \A i \in DOMAIN s_redis_list :
         s_redis_list[i] \in Records /\ s_redis_list[i] \in ToSet(s_redis_list)
  BY <1>2, <1>3, LenProperties DEF ToSet
<1>5. \A x \in ToSet(s_redis_list) \cup redis_data : x \in Records
  BY <1>2, <1>4 DEF ToSet
<1>6. \A x \in Records : x = <<x[1], x[2]>> /\ x[1] \in Roles /\ x[2] \in Nat
  <2>1. ASSUME NEW x \in Records
        PROVE  x = <<x[1], x[2]>> /\ x[1] \in Roles /\ x[2] \in Nat
    <3>1. PICK r \in Roles, n \in Numbers : x = <<r, n>>
      BY DEF Records
    <3>2. x[1] = r /\ x[2] = n
      BY <3>1
    <3> QED
      BY <1>1, <3>1, <3>2, Zenon
  <2> QED
    BY <2>1
<1> QED
  BY <1>1, <1>3, <1>4, <1>5, <1>6

\* The redis thread's copy of the first record is in order as the record is.
LEMMA TakeInOrder ==
    ASSUME TypeOK, InOrder, Newest, TakeBegin
    PROVE  InOrder' /\ Newest'
<1>1. /\ s_redis_list # <<>> /\ redis_data' = {s_redis_list[1]} /\ at' = "erase"
      /\ UNCHANGED <<made, newest, s_redis_list, dropped, value>> /\ redis_data = {}
  BY DEF TakeBegin, Begin, InOrder, storeVars
<1>2. 1 \in DOMAIN s_redis_list
  BY <1>1, RecordFacts, EmptySeq DEF TypeOK
<1>3. s_redis_list[1] \in ToSet(s_redis_list)
  BY <1>2, RecordFacts
<1>4. ToSet(s_redis_list') \cup redis_data' = ToSet(s_redis_list) \cup redis_data
  BY <1>1, <1>3
<1>5. InOrder'
  BY <1>1, <1>4 DEF InOrder
<1>6. Newest'
  BY <1>1, <1>4 DEF Newest
<1> QED
  BY <1>5, <1>6

\* The record erased is the one in hand, and all others come after it.
LEMMA EraseInOrder ==
    ASSUME TypeOK, InOrder, Newest, Erase
    PROVE  InOrder' /\ Newest'
<1>1. /\ s_redis_list # <<>> /\ redis_data = {s_redis_list[1]} /\ at' = "set"
      /\ UNCHANGED <<made, newest, redis_data, dropped, value>>
  BY DEF Erase, InOrder, storeVars
<1>2. /\ DOMAIN s_redis_list = 1 .. Len(s_redis_list) /\ Len(s_redis_list) \in Nat \ {0}
      /\ DOMAIN s_redis_list' = 1 .. Len(s_redis_list) - 1
      /\ \A i \in DOMAIN s_redis_list' : s_redis_list'[i] = s_redis_list[i + 1]
  BY <1>1, BeginErased DEF Erase
<1>3. 1 \in DOMAIN s_redis_list /\ s_redis_list[1] \in Records
  BY <1>2, RecordFacts
<1>4. \A i \in DOMAIN s_redis_list' :
         i + 1 \in DOMAIN s_redis_list /\ i \in Int /\ 1 < i + 1
  BY <1>2
<1>5. ToSet(s_redis_list') \cup redis_data' = ToSet(s_redis_list) \cup redis_data
  <2>1. \A i \in DOMAIN s_redis_list' : s_redis_list'[i] \in ToSet(s_redis_list)
    BY <1>2, <1>4, RecordFacts
  <2>2. ASSUME NEW i \in DOMAIN s_redis_list, i # 1
        PROVE  \E j \in DOMAIN s_redis_list' : s_redis_list[i] = s_redis_list'[j]
    <3>1. i - 1 \in DOMAIN s_redis_list' /\ s_redis_list[i] = s_redis_list'[i - 1]
      BY <1>2, <2>2
    <3> QED
      BY <3>1
  <2>3. s_redis_list[1] \in redis_data /\ s_redis_list[1] \in ToSet(s_redis_list)
    BY <1>1, <1>3, RecordFacts
  <2> QED
    BY <1>1, <2>1, <2>2, <2>3 DEF ToSet
<1>6. \A i, j \in DOMAIN s_redis_list' :
         i < j => s_redis_list'[i][2] < s_redis_list'[j][2]
  <2>1. ASSUME NEW i \in DOMAIN s_redis_list', NEW j \in DOMAIN s_redis_list', i < j
        PROVE  s_redis_list'[i][2] < s_redis_list'[j][2]
    <3>1. /\ i + 1 \in DOMAIN s_redis_list /\ j + 1 \in DOMAIN s_redis_list
          /\ i + 1 < j + 1
      BY <1>2, <1>4, <2>1
    <3>2. s_redis_list[i + 1][2] < s_redis_list[j + 1][2]
      BY <3>1 DEF InOrder
    <3> QED
      BY <1>2, <3>2
  <2> QED
    BY <2>1
<1>7. \A i \in DOMAIN s_redis_list' : s_redis_list[1][2] < s_redis_list'[i][2]
  <2>1. ASSUME NEW i \in DOMAIN s_redis_list'
        PROVE  s_redis_list[1][2] < s_redis_list'[i][2]
    <3>1. s_redis_list[1][2] < s_redis_list[i + 1][2]
      BY <1>3, <1>4 DEF InOrder
    <3> QED
      BY <1>2, <3>1
  <2> QED
    BY <2>1
<1>8. InOrder'
  BY <1>1, <1>3, <1>5, <1>6, <1>7 DEF InOrder
<1>9. Newest'
  BY <1>1, <1>5 DEF Newest
<1> QED
  BY <1>8, <1>9

\* What the redis thread writes to redis is newer than all redis holds, and
\* older than what is left on the list.
LEMMA SetInOrder ==
    ASSUME TypeOK, InOrder, Newest, SetData
    PROVE  /\ InOrder' /\ Newest'
           /\ \E record \in redis_data :
                 /\ record[1] \in Roles /\ record[2] \in Nat
                 /\ value[record[1]] < record[2]
                 /\ value' = [value EXCEPT ![record[1]] = record[2]]
                 /\ putting' = putting \cup {record[1]}
<1>1. PICK record \in Records :
         /\ redis_data = {record}
         /\ \A i \in DOMAIN s_redis_list : record[2] < s_redis_list[i][2]
  BY DEF SetData, InOrder
<1>2. /\ value' = [value EXCEPT ![record[1]] = record[2]]
      /\ putting' = putting \cup {record[1]}
  BY <1>1 DEF SetData
<1>3. /\ redis_data' = {} /\ at' = "test"
      /\ UNCHANGED <<made, newest, s_redis_list, dropped>>
  BY DEF SetData
<1>4. PICK s \in Roles, n \in Nat : s = record[1] /\ n = record[2] /\ record = <<s, n>>
  BY <1>1, RecordFacts
<1>5. /\ n <= newest[s] /\ newest[s] <= made /\ newest[s] \in Nat /\ made \in Nat
      /\ \A r \in Roles : value[r] < n /\ value[r] \in Nat
  <2>1. n <= newest[s] /\ newest[s] <= made /\ \A r \in Roles : value[r] < n
    BY <1>1, <1>4 DEF InOrder
  <2>2. newest[s] \in Nat /\ made \in Nat /\ \A r \in Roles : value[r] \in Nat
    BY RecordFacts DEF TypeOK
  <2> QED
    BY <2>1, <2>2
<1>6. \A r \in Roles : value'[r] = IF r = s THEN n ELSE value[r]
  BY <1>2, <1>4 DEF TypeOK
<1>7. ASSUME NEW x \in ToSet(s_redis_list') \cup redis_data'
      PROVE  x[2] <= newest'[x[1]] /\ \A r \in Roles : value'[r] < x[2]
  <2>1. x \in ToSet(s_redis_list)
    BY <1>3
  <2>2. x[2] <= newest[x[1]] /\ \A r \in Roles : value[r] < x[2]
    BY <2>1 DEF InOrder
  <2>3. n < x[2]
    BY <1>1, <1>4, <2>1 DEF ToSet
  <2> QED
    BY <1>3, <1>6, <2>2, <2>3
<1>8. \A r \in Roles : newest'[r] <= made' /\ value'[r] <= made'
  <2>1. \A r \in Roles : newest[r] <= made /\ value[r] <= made
    BY DEF InOrder
  <2>2. n <= made
    BY <1>5
  <2> QED
    BY <1>3, <1>6, <2>1, <2>2
<1>9. InOrder'
  BY <1>3, <1>7, <1>8 DEF InOrder
<1>10. ASSUME NEW r \in Roles
       PROVE  \/ value'[r] = newest'[r]
              \/ <<r, newest'[r]>> \in ToSet(s_redis_list') \cup redis_data' \cup dropped'
  <2>1. \/ value[r] = newest[r]
        \/ <<r, newest[r]>> \in ToSet(s_redis_list) \cup dropped
        \/ <<r, newest[r]>> = <<s, n>>
    BY <1>1, <1>4 DEF Newest
  <2>2. CASE r = s
    <3>1. value[s] # newest[s]
      BY <1>5
    <3> QED
      BY <1>3, <1>6, <2>1, <2>2, <3>1
  <2>3. CASE r # s
    BY <1>3, <1>6, <2>1, <2>3
  <2> QED
    BY <2>2, <2>3
<1>11. Newest'
  BY <1>10 DEF Newest
<1>12. record[1] \in Roles /\ record[2] \in Nat /\ value[record[1]] < record[2]
  BY <1>4, <1>5
<1> QED
  BY <1>1, <1>2, <1>9, <1>11, <1>12

\* A failed SET, and the end of the game server, lose what they drop only.
LEMMA DropInOrder ==
    ASSUME TypeOK, InOrder, Newest, SetDataFails \/ GameRestarts
    PROVE  InOrder' /\ Newest'
<1>1. /\ redis_data' = {} /\ at' = "test" /\ UNCHANGED <<made, newest, value>>
      /\ s_redis_list' = s_redis_list \/ s_redis_list' = <<>>
      /\ ToSet(s_redis_list) \cup redis_data \cup dropped \subseteq
            ToSet(s_redis_list') \cup redis_data' \cup dropped'
  BY DEF SetDataFails, GameRestarts, storeVars
<1>2. /\ ToSet(s_redis_list') \subseteq ToSet(s_redis_list)
      /\ \A i \in DOMAIN s_redis_list' :
            i \in DOMAIN s_redis_list /\ s_redis_list'[i] = s_redis_list[i]
  BY <1>1 DEF ToSet
<1>3. InOrder'
  BY <1>1, <1>2 DEF InOrder
<1>4. Newest'
  BY <1>1 DEF Newest
<1> QED
  BY <1>3, <1>4

-----------------------------------------------------------------------------
(* From redis to MySQL *)

\* Steps that touch neither the stores nor the data server.
LEMMA StoreQuiet ==
    ASSUME Pass, Quiet, Delivered, UNCHANGED <<storeVars, serverVars, history>>
    PROVE  Pass' /\ Quiet' /\ Delivered'
BY DEF Pass, Quiet, Delivered, Ranked, storeVars, serverVars, history

\* Numbers in the stores.
LEMMA StoreFacts ==
    ASSUME TypeOK
    PROVE  /\ role \in Nat /\ \A r \in Roles : value[r] \in Nat /\ mysql[r] \in Nat
           /\ Nothing \notin Roles /\ ErrorText \notin Roles /\ Nothing # ErrorText
BY RecordFacts, RolesAssumption DEF TypeOK

\* A role written while the data server is at it is to be ranked again.
LEMMA SetDelivered ==
    ASSUME TypeOK, InOrder, Newest, Pass, Quiet, Delivered, SetData
    PROVE  Pass' /\ Quiet' /\ Delivered'
<1>1. PICK s \in Roles, n \in Nat :
         /\ value[s] < n
         /\ value' = [value EXCEPT ![s] = n]
         /\ putting' = putting \cup {s}
  BY SetInOrder
<1>2. UNCHANGED <<role_sets, mysql, serverVars, history>>
  BY DEF SetData
<1>3. \A r \in Roles : value'[r] = IF r = s THEN n ELSE value[r]
  BY <1>1 DEF TypeOK
<1>4. \A r \in Roles : value[r] <= value'[r] /\ value'[r] \in Nat
  BY <1>1, <1>3, StoreFacts
<1>5. \A r \in Roles : value'[r] = value[r] \/ r \in putting'
  BY <1>1, <1>3
<1>6. Pass'
  <2>1. (pc \in {"zrange", "down"} => response \in {Nothing, ErrorText})'
    BY <1>2 DEF Pass, serverVars
  <2>2. \A r \in Roles : mysql'[r] <= value'[r]
    BY <1>2, <1>4, StoreFacts DEF Pass
  <2>3. ASSUME pc' = "save", role' # 0
        PROVE  /\ response' \in Roles
               /\ mysql'[response'] <= role' /\ role' <= value'[response']
               /\ role' = value'[response'] \/ response' \in putting' \/ Ranked(response)'
    <3>1. /\ UNCHANGED <<response, role, mysql>> /\ response \in Roles
          /\ mysql[response] <= role /\ role <= value[response]
          /\ role = value[response] \/ response \in putting \/ Ranked(response)
      BY <1>2, <2>3 DEF Pass, serverVars
    <3>2. role <= value'[response]
      BY <1>4, <3>1, StoreFacts
    <3> QED
      BY <1>1, <1>2, <1>5, <3>1, <3>2 DEF Ranked
  <2>4. \A r \in Roles : r \in putting' \/ Ranked(r)' => value'[r] # 0
    <3>1. \A r \in Roles : r \in putting \/ Ranked(r) => value[r] # 0
      BY DEF Pass
    <3>2. n # 0
      BY <1>1, StoreFacts
    <3> QED
      BY <1>1, <1>2, <1>3, <3>1, <3>2 DEF Ranked
  <2> QED
    BY <2>1, <2>2, <2>3, <2>4 DEF Pass
<1>7. Quiet'
  BY <1>1, <1>2, <1>5 DEF Quiet, serverVars, history
<1>8. Delivered'
  BY <1>1, <1>2, <1>5 DEF Delivered, Ranked, history
<1> QED
  BY <1>6, <1>7, <1>8

\* A role ranked is in the set.
LEMMA RankDelivered ==
    ASSUME TypeOK, Pass, Quiet, Delivered, NEW r \in Roles, NEW i, Rank(r, i)
    PROVE  Pass' /\ Quiet' /\ Delivered'
<1>1. \A s \in Roles : Ranked(s)' <=> Ranked(s) \/ s = r
  BY RankedSet DEF Ranked
<1>2. /\ r \in putting /\ putting' = putting \ {r} /\ quiet' = FALSE
      /\ displaced' = displaced \ {r} /\ UNCHANGED <<value, mysql, serverVars>>
  BY DEF Rank
<1>3. Pass'
  BY <1>1, <1>2 DEF Pass, serverVars
<1>4. Quiet'
  BY <1>2 DEF Quiet
<1>5. Delivered'
  BY <1>1, <1>2 DEF Delivered
<1> QED
  BY <1>3, <1>4, <1>5

\* ZRANGE returns the lowest member, or leaves the response of an error.
LEMMA ZrangeDelivered ==
    ASSUME TypeOK, Pass, Quiet, Delivered, Zrange
    PROVE  Pass' /\ Quiet' /\ Delivered'
<1>1. /\ response' = Lowest /\ pc' = AfterZrange(Lowest)
      /\ UNCHANGED <<storeVars, displaced>>
  BY DEF Zrange
<1>2. \/ role_sets # <<>> /\ Lowest = role_sets[1] /\ Lowest \in Roles /\ pc' = "get"
      \/ Lowest = Nothing /\ pc' = "zrange"
      \/ Lowest = ErrorText /\ pc' = "get"
  <2>1. CASE role_sets = <<>>
    <3>1. Lowest \in {Nothing, ErrorText}
      BY <2>1 DEF Lowest, Zrange, Pass
    <3> QED
      BY <1>1, <3>1, StoreFacts DEF AfterZrange
  <2>2. CASE role_sets # <<>>
    <3>1. Lowest = role_sets[1] /\ Lowest \in Roles
      BY <2>2, HeadTailProperties DEF Lowest, TypeOK
    <3> QED
      BY <1>1, <2>2, <3>1, StoreFacts DEF AfterZrange
  <2> QED
    BY <2>1, <2>2
<1>3. Pass'
  BY <1>1, <1>2 DEF Pass, Ranked, storeVars
<1>4. Quiet'
  BY <1>1, <1>2 DEF Quiet, storeVars
<1>5. Delivered'
  BY <1>1 DEF Delivered, Ranked, storeVars
<1> QED
  BY <1>3, <1>4, <1>5

\* GET reads what redis holds; when it cannot, the pass is not quiet.
LEMMA GetDelivered ==
    ASSUME TypeOK, Pass, Quiet, Delivered, Get \/ GetFails
    PROVE  Pass' /\ Quiet' /\ Delivered'
<1>1. /\ pc = "get" /\ pc' = "save" /\ UNCHANGED <<storeVars, response, displaced>>
      /\ \/ response \in Roles /\ role' = value[response] /\ UNCHANGED quiet
         \/ role' = 0 /\ quiet' = FALSE
  BY DEF Get, GetFails, history, TypeOK
<1>2. Pass'
  <2>1. ASSUME role' # 0
        PROVE  /\ response \in Roles
               /\ mysql[response] <= role' /\ role' <= value[response]
               /\ role' = value[response]
    BY <1>1, <2>1, StoreFacts DEF Pass
  <2> QED
    BY <1>1, <2>1 DEF Pass, Ranked, storeVars
<1>3. Quiet'
  BY <1>1, StoreFacts DEF Quiet, storeVars
<1>4. Delivered'
  BY <1>1 DEF Delivered, Ranked, storeVars
<1> QED
  BY <1>2, <1>3, <1>4

\* What is saved is newer than what MySQL has; a role saved late is ranked or
\* to be ranked.
LEMMA SaveDelivered ==
    ASSUME TypeOK, Pass, Quiet, Delivered, Save
    PROVE  Pass' /\ Quiet' /\ Delivered'
<1>1. /\ pc = "save" /\ pc' = "remove"
      /\ UNCHANGED <<value, role_sets, putting, response, role, quiet, displaced>>
  BY DEF Save, history
<1>2. CASE role = 0
  <2>1. mysql' = mysql
    BY <1>2 DEF Save
  <2>2. Pass'
    BY <1>1, <2>1 DEF Pass, Ranked
  <2>3. ASSUME quiet
        PROVE  response \in Roles /\ (mysql[response] = value[response] \/ response \in putting)
    <3>1. response \in Roles /\ (value[response] = 0 \/ response \in putting)
      BY <1>1, <1>2, <2>3 DEF Quiet
    <3>2. value[response] = 0 => mysql[response] = 0
      BY <3>1, StoreFacts DEF Pass
    <3> QED
      BY <3>1, <3>2
  <2>4. Quiet'
    BY <1>1, <2>1, <2>3 DEF Quiet
  <2>5. Delivered'
    BY <1>1, <2>1 DEF Delivered, Ranked
  <2> QED
    BY <2>2, <2>4, <2>5
<1>3. CASE role # 0
  <2>1. /\ response \in Roles
        /\ mysql[response] <= role /\ role <= value[response]
        /\ role = value[response] \/ response \in putting \/ Ranked(response)
    BY <1>1, <1>3 DEF Pass
  <2>2. \A r \in Roles : mysql'[r] = IF r = response THEN role ELSE mysql[r]
    BY <1>3, <2>1 DEF Save, TypeOK
  <2>3. Pass'
    BY <1>1, <2>1, <2>2 DEF Pass, Ranked
  <2>4. Quiet'
    BY <1>1, <2>1, <2>2 DEF Quiet
  <2>5. Delivered'
    BY <1>1, <2>1, <2>2 DEF Delivered, Ranked
  <2> QED
    BY <2>3, <2>4, <2>5
<1> QED
  BY <1>2, <1>3

\* A quiet pass removes the role it has saved, any other is recorded.
LEMMA ZRemDelivered ==
    ASSUME TypeOK, Pass, Quiet, Delivered, ZRem
    PROVE  Pass' /\ Quiet' /\ Delivered'
<1>1. /\ pc = "remove" /\ pc' = "zrange" /\ response' = Nothing
      /\ role_sets' = LowestRemoved /\ UNCHANGED <<value, mysql, putting, quiet>>
  BY DEF ZRem, PassEnds
<1>2. \A r \in Roles : Ranked(r)' => Ranked(r)
  BY <1>1, LowestTaken DEF Ranked
<1>3. Pass'
  BY <1>1, <1>2 DEF Pass
<1>4. Quiet'
  BY <1>1 DEF Quiet
<1>5. ASSUME NEW r \in Roles \ displaced'
      PROVE  (r \in putting \/ Ranked(r) \/ mysql[r] = value[r])'
  <2>1. r \notin displaced /\ (r \in putting \/ Ranked(r) \/ mysql[r] = value[r])
    BY DEF Delivered, ZRem
  <2>2. CASE Ranked(r) /\ ~Ranked(r)'
    <3>1. quiet
      BY <1>1, <2>2 DEF ZRem, Ranked
    <3>2. response \in Roles /\ (mysql[response] = value[response] \/ response \in putting)
      BY <1>1, <3>1 DEF Quiet
    <3>3. role_sets # <<>> /\ role_sets[1] = response
      BY <1>1, <3>1, <3>2, StoreFacts DEF Quiet
    <3>4. r = response
      BY <1>1, <2>2, <3>3, LowestTaken DEF Ranked
    <3> QED
      BY <1>1, <3>2, <3>4
  <2> QED
    BY <1>1, <2>1, <2>2
<1>6. Delivered'
  BY <1>5 DEF Delivered
<1> QED
  BY <1>3, <1>4, <1>6

\* The rest of the data server's steps end the pass, or leave it where it is.
LEMMA EndDelivered ==
    ASSUME TypeOK, Pass, Quiet, Delivered,
           \/ ZrangeFails \/ SaveFails \/ ZRemFails
           \/ ConnectionFails \/ Crash \/ Restart
    PROVE  Pass' /\ Quiet' /\ Delivered'
<1>1. UNCHANGED <<storeVars, history>>
  BY DEF ZrangeFails, SaveFails, ZRemFails, ConnectionFails, Crash, Restart
<1>2. \/ pc' \in {"zrange", "down"} /\ response' \in {Nothing, ErrorText}
      \/ UNCHANGED <<pc, response, role>>
  BY DEF ZrangeFails, SaveFails, ZRemFails, ConnectionFails, Crash, Restart, NotSaved,
         PassEnds, Pass
<1>3. Pass'
  BY <1>1, <1>2 DEF Pass, Ranked, storeVars
<1>4. Quiet'
  BY <1>1, <1>2 DEF Quiet, storeVars, history
<1>5. Delivered'
  BY <1>1 DEF Delivered, Ranked, storeVars, history
<1> QED
  BY <1>3, <1>4, <1>5

-----------------------------------------------------------------------------
(* The theorems *)

\* Every step keeps the invariant.
LEMMA StepKeeps == ASSUME WriteBackInv, [Next]_vars PROVE WriteBackInv'
<1>0. TypeOK /\ InOrder /\ Newest /\ Pass /\ Quiet /\ Delivered
  BY DEF WriteBackInv
<1>1. ASSUME Next PROVE InOrder' /\ Newest' /\ Pass' /\ Quiet' /\ Delivered'
  <2>1. CASE Add
    <3>1. PICK r \in Roles : AddRedisData(r)
      BY <2>1 DEF Add
    <3>2. Pass' /\ Quiet' /\ Delivered'
      BY <1>0, <3>1, StoreQuiet DEF AddRedisData
    <3> QED
      BY <1>0, <3>1, <3>2, AddInOrder
  <2>2. CASE TakeBegin
    BY <1>0, <2>2, TakeInOrder, StoreQuiet DEF TakeBegin
  <2>3. CASE Erase
    BY <1>0, <2>3, EraseInOrder, StoreQuiet DEF Erase
  <2>4. CASE SetData
    BY <1>0, <2>4, SetInOrder, SetDelivered
  <2>5. CASE SetDataFails \/ GameRestarts
    BY <1>0, <2>5, DropInOrder, StoreQuiet DEF SetDataFails, GameRestarts
  <2>6. CASE Ranking
    <3>1. PICK r \in Roles, i \in 1 .. Len(role_sets) + 1 : Rank(r, i)
      BY <2>6 DEF Ranking
    <3>2. UNCHANGED <<gameVars, value>>
      BY <3>1 DEF Rank
    <3> QED
      BY <1>0, <3>1, <3>2, GameQuiet, RankDelivered
  <2>7. CASE Server \/ ConnectionFails \/ Crash \/ Restart
    <3>1. UNCHANGED <<gameVars, value>>
      BY <2>7 DEF Server, Zrange, ZrangeFails, Get, GetFails, Save, SaveFails, ZRem,
                  ZRemFails, ConnectionFails, Crash, Restart, storeVars
    <3>2. Pass' /\ Quiet' /\ Delivered'
      BY <1>0, <2>7, ZrangeDelivered, GetDelivered, SaveDelivered, ZRemDelivered,
         EndDelivered DEF Server
    <3> QED
      BY <1>0, <3>1, <3>2, GameQuiet
  <2> QED
    BY <1>1, <2>1, <2>2, <2>3, <2>4, <2>5, <2>6, <2>7 DEF Next, RedisThread
<1>2. CASE Next
  BY <1>0, <1>1, <1>2, TypeKept DEF WriteBackInv
<1>3. CASE UNCHANGED vars
  <2>1. UNCHANGED <<gameVars, value>> /\ UNCHANGED <<storeVars, serverVars, history>>
    BY <1>3 DEF vars, storeVars
  <2>2. TypeOK'
    BY <1>0, <2>1 DEF TypeOK, gameVars, storeVars, serverVars, history
  <2> QED
    BY <1>0, <2>1, <2>2, GameQuiet, StoreQuiet DEF WriteBackInv
<1> QED
  BY <1>2, <1>3

\* It holds from the start.
LEMMA StartsIn == ASSUME Init PROVE WriteBackInv
<1>1. 0 \in Numbers /\ Numbers \subseteq Nat
  BY MaxRecordsAssumption DEF Numbers
<1>2. TypeOK
  BY <1>1 DEF Init, TypeOK, IsInjective
<1>3. ToSet(s_redis_list) = {} /\ redis_data = {} /\ DOMAIN s_redis_list = {}
  BY DEF Init, ToSet
<1>4. InOrder /\ Newest
  BY <1>3 DEF Init, InOrder, Newest
<1>5. Pass /\ Quiet /\ Delivered
  BY DEF Init, Pass, Quiet, Delivered, Ranked, ToSet
<1> QED
  BY <1>2, <1>4, <1>5 DEF WriteBackInv

LEMMA Invariance == Spec => []WriteBackInv
<1>1. Init => WriteBackInv
  BY StartsIn
<1>2. WriteBackInv /\ [Next]_vars => WriteBackInv'
  BY StepKeeps
<1> QED
  BY <1>1, <1>2, PTL DEF Spec

\* The redis thread never erases from an empty list and the set stays a set, for
\* any roles, any number of records and any place at which either server ends
\* (process_redis_list of both servers).
THEOREM TypeCorrect == Spec => []TypeOK
<1>1. WriteBackInv => TypeOK
  BY DEF WriteBackInv
<1> QED
  BY <1>1, Invariance, PTL

\* The last record of a role is in MySQL or on its way there, unless the game
\* server dropped it or a pass of process_redis_list that was not quiet removed
\* its role: losing replies, connections or the data server itself loses none.
THEOREM NothingAstray == Spec => []SavedOrOnItsWay
<1>1. ASSUME WriteBackInv, NEW r \in Roles \ displaced
      PROVE  \/ <<r, newest[r]>> \in ToSet(s_redis_list) \cup redis_data \cup dropped
             \/ r \in putting
             \/ Ranked(r)
             \/ mysql[r] = newest[r]
  BY <1>1 DEF WriteBackInv, Newest, Delivered
<1>2. WriteBackInv => SavedOrOnItsWay
  BY <1>1 DEF SavedOrOnItsWay
<1> QED
  BY <1>2, Invariance, PTL

\* No step of either server puts an older record over a newer one, in redis or
\* in MySQL: redis_set_data writes in the order of add_redis_data, and what
\* db_exe saves was read after what MySQL has.
THEOREM StoresForward == Spec => NoGoingBack
<1>1. ASSUME WriteBackInv, [Next]_vars, NEW r \in Roles
      PROVE  value'[r] >= value[r] /\ mysql'[r] >= mysql[r]
  <2>1. TypeOK /\ InOrder /\ Newest /\ Pass
    BY <1>1 DEF WriteBackInv
  <2>2. value[r] \in Nat /\ mysql[r] \in Nat /\ role \in Nat
    BY <2>1, StoreFacts
  <2>3. CASE SetData
    <3>1. PICK s \in Roles, n \in Nat :
             value[s] < n /\ value' = [value EXCEPT ![s] = n]
      BY <2>1, <2>3, SetInOrder
    <3>2. value'[r] = IF r = s THEN n ELSE value[r]
      BY <2>1, <3>1 DEF TypeOK
    <3>3. mysql' = mysql
      BY <2>3 DEF SetData
    <3> QED
      BY <2>2, <3>1, <3>2, <3>3
  <2>4. CASE Save
    <3>1. value' = value /\ pc = "save"
      BY <2>4 DEF Save
    <3>2. CASE role = 0
      BY <2>2, <2>4, <3>1, <3>2 DEF Save
    <3>3. CASE role # 0
      <4>1. response \in Roles /\ mysql[response] <= role
        BY <2>1, <3>1, <3>3 DEF Pass
      <4>2. mysql'[r] = IF r = response THEN role ELSE mysql[r]
        BY <2>1, <2>4, <3>3, <4>1 DEF Save, TypeOK
      <4> QED
        BY <2>2, <3>1, <4>1, <4>2
    <3> QED
      BY <3>2, <3>3
  <2>5. CASE ~SetData /\ ~Save
    <3>1. UNCHANGED <<value, mysql>>
      BY <1>1, <2>5
      DEF Next, Add, AddRedisData, RedisThread, TakeBegin, Erase, SetDataFails,
          GameRestarts, Ranking, Rank, Server, Zrange, ZrangeFails, Get, GetFails,
          SaveFails, ZRem, ZRemFails, ConnectionFails, Crash, Restart, vars, storeVars
    <3> QED
      BY <2>2, <3>1
  <2> QED
    BY <2>3, <2>4, <2>5
<1>2. ASSUME WriteBackInv, [Next]_vars
      PROVE  [\A r \in Roles : value'[r] >= value[r] /\ mysql'[r] >= mysql[r]]_vars
  BY <1>1, <1>2
<1> QED
  BY <1>2, Invariance, PTL DEF Spec, NoGoingBack
=============================================================================
