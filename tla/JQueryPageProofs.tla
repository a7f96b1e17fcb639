-------------------------- MODULE JQueryPageProofs --------------------------
(***************************************************************************)
(* What jQuery keeps on the nodes of a page, for any number of nodes,      *)
(* names, values and calls: data is read back as it was given; elements    *)
(* listen for the handlers they have, and focusin is served.               *)
(***************************************************************************)
EXTENDS JQueryEvents, JQueryData, FiniteSetTheorems, WellFoundedInduction, TLAPS

-----------------------------------------------------------------------------
(* A finite set of natural numbers has an ascending list, so what stands   *)
(* at some positions of a list is a list again, in the same order.         *)

\* Some numbers have a least one.
LEMMA LeastOf ==
    ASSUME NEW T \in SUBSET Nat, T # {}
    PROVE  \E x \in T : \A y \in T : x <= y
<1> DEFINE R == OpToRel(<, Nat)
<1>1. IsWellFoundedOn(R, Nat)
  BY NatLessThanWellFounded
<1>2. \A x, y \in Nat : <<x, y>> \in R <=> x < y
  BY DEF OpToRel
<1> HIDE DEF R
<1>3. PICK x \in T : \A y \in T : ~(<<y, x>> \in R)
  BY <1>1, WFMin
<1>4. \A y \in T : ~(y < x) /\ x \in Nat /\ y \in Nat
  BY <1>2, <1>3
<1> QED
  BY <1>4

\* The least number goes before a list of the others.
LEMMA AscendingExtends ==
    ASSUME NEW D \in SUBSET Nat, IsFiniteSet(D), NEW m \in D, \A k \in D : m <= k,
           Ascending(D \ {m}) # {}
    PROVE  Ascending(D) # {}
<1> DEFINE n == Cardinality(D)
           E == D \ {m}
<1>1. n \in Nat \ {0} /\ Cardinality(E) = n - 1
  BY FS_CardinalityType, FS_RemoveElement, FS_EmptySet
<1>2. PICK s \in [1 .. n - 1 -> E] :
        /\ \A k \in E : \E i \in 1 .. n - 1 : s[i] = k
        /\ \A i, j \in 1 .. n - 1 : i < j => s[i] < s[j]
  BY <1>1 DEF Ascending
<1> DEFINE t == [i \in 1 .. n |-> IF i = 1 THEN m ELSE s[i - 1]]
<1> HIDE DEF n
<1>3. \A i \in 1 .. n : i # 1 => i - 1 \in 1 .. n - 1
  BY <1>1
<1>4. t \in [1 .. n -> D]
  BY <1>2, <1>3
<1>5. \A k \in D : \E i \in 1 .. n : t[i] = k
  <2>1. ASSUME NEW k \in D PROVE \E i \in 1 .. n : t[i] = k
    <3>1. CASE k = m
      <4>1. 1 \in 1 .. n /\ t[1] = m
        BY <1>1
      <4> QED
        BY <3>1, <4>1
    <3>2. CASE k # m
      <4>1. PICK i \in 1 .. n - 1 : s[i] = k
        BY <3>2, <1>2
      <4>2. i + 1 \in 1 .. n /\ i + 1 # 1 /\ (i + 1) - 1 = i
        BY <1>1
      <4>3. t[i + 1] = k
        BY <4>1, <4>2
      <4> QED
        BY <4>2, <4>3
    <3> QED
      BY <3>1, <3>2
  <2> QED
    BY <2>1
<1>6. ASSUME NEW i \in 1 .. n, NEW j \in 1 .. n, i < j PROVE t[i] < t[j]
  <2>1. j # 1 /\ j - 1 \in 1 .. n - 1 /\ t[j] = s[j - 1] /\ s[j - 1] \in E
    BY <1>1, <1>2, <1>3, <1>6
  <2>2. CASE i = 1
    <3>1. t[i] = m
      BY <2>2
    <3>2. s[j - 1] \in D /\ s[j - 1] # m /\ s[j - 1] \in Nat /\ m \in Nat
      BY <2>1
    <3>3. m <= s[j - 1]
      BY <3>2
    <3>4. m < s[j - 1]
      BY <3>2, <3>3
    <3> HIDE DEF t
    <3> QED
      BY <2>1, <3>1, <3>4
  <2>3. CASE i # 1
    <3>1. t[i] = s[i - 1] /\ i - 1 \in 1 .. n - 1 /\ i - 1 < j - 1
      BY <2>3, <1>1, <1>3, <1>6
    <3> HIDE DEF t
    <3> QED
      BY <2>1, <3>1, <1>2
  <2> QED
    BY <2>2, <2>3
<1> HIDE DEF t
<1> QED
  BY <1>4, <1>5, <1>6 DEF Ascending, n

\* A least number of elements without a list would not be the least.
LEMMA AscendingExists ==
    ASSUME NEW D \in SUBSET Nat, IsFiniteSet(D)
    PROVE  Ascending(D) # {}
<1> DEFINE Bad == {n \in Nat : \E C \in SUBSET Nat :
                      IsFiniteSet(C) /\ Cardinality(C) = n /\ Ascending(C) = {}}
<1>1. ASSUME Bad # {} PROVE FALSE
  <2>1. PICK n \in Bad : \A k \in Bad : n <= k
    BY <1>1, LeastOf
  <2>2. PICK C \in SUBSET Nat : IsFiniteSet(C) /\ Cardinality(C) = n /\ Ascending(C) = {}
    BY <2>1
  <2>3. CASE C = {}
    <3> DEFINE s == [i \in 1 .. 0 |-> i]
    <3>1. Cardinality(C) = 0
      BY <2>3, FS_EmptySet
    <3>2. s \in Ascending(C)
      BY <2>3, <3>1 DEF Ascending
    <3> QED
      BY <2>2, <3>2
  <2>4. CASE C # {}
    <3>1. PICK m \in C : \A k \in C : m <= k
      BY <2>4, LeastOf
    <3>2. /\ IsFiniteSet(C \ {m}) /\ Cardinality(C \ {m}) = n - 1
          /\ n - 1 \in Nat /\ n \in Nat
      <4>1. IsFiniteSet(C \ {m}) /\ Cardinality(C \ {m}) = n - 1
        BY <2>2, <3>1, FS_RemoveElement
      <4>2. Cardinality(C \ {m}) \in Nat
        BY <4>1, FS_CardinalityType
      <4> QED
        BY <4>1, <4>2
    <3>3. n - 1 \notin Bad
      BY <2>1, <3>2
    <3>4. Ascending(C \ {m}) # {}
      BY <3>2, <3>3
    <3> QED
      BY <2>2, <3>1, <3>4, AscendingExtends
  <2> QED
    BY <2>3, <2>4
<1>2. Cardinality(D) \in Nat
  BY FS_CardinalityType
<1> QED
  BY <1>1, <1>2

\* What is taken from D is listed once, in order.
LEMMA OnlyFacts ==
    ASSUME NEW D \in SUBSET Nat, IsFiniteSet(D), NEW T, NEW map,
           \A k \in D : map[k] \in T
    PROVE  /\ Only(map, D) \in Seq(T)
           /\ Len(Only(map, D)) = Cardinality(D)
           /\ \E s \in [DOMAIN Only(map, D) -> D] :
                 /\ \A i \in DOMAIN Only(map, D) : Only(map, D)[i] = map[s[i]]
                 /\ \A k \in D : \E i \in DOMAIN Only(map, D) : s[i] = k
                 /\ \A i, j \in DOMAIN Only(map, D) : i < j => s[i] < s[j]
<1>1. PICK n \in Nat : n = Cardinality(D)
  BY FS_CardinalityType
<1>2. PICK s : s = AscendingList(D) /\ s \in Ascending(D)
  BY AscendingExists DEF AscendingList
<1>3. /\ s \in [1 .. n -> D]
      /\ \A k \in D : \E i \in 1 .. n : s[i] = k
      /\ \A i, j \in 1 .. n : i < j => s[i] < s[j]
  BY <1>1, <1>2 DEF Ascending
<1>4. PICK list : list = Only(map, D)
  OBVIOUS
<1>5. list = [i \in 1 .. n |-> map[s[i]]]
  BY <1>1, <1>2, <1>4 DEF Only
<1>6. list \in [1 .. n -> T]
  BY <1>3, <1>5
<1>7. list \in Seq(T) /\ Len(list) = n /\ DOMAIN list = 1 .. n
  BY <1>6
<1>8. \A i \in 1 .. n : list[i] = map[s[i]]
  BY <1>5
<1> QED
  BY <1>1, <1>3, <1>4, <1>7, <1>8

-----------------------------------------------------------------------------
(* An element that is put into a list.                                     *)

LEMMA FrontFacts ==
    ASSUME NEW T, NEW s \in Seq(T), NEW n \in 0 .. Len(s)
    PROVE  /\ SubSeq(s, 1, n) \in Seq(T) /\ Len(SubSeq(s, 1, n)) = n
           /\ \A i \in 1 .. n : SubSeq(s, 1, n)[i] = s[i]
<1>1. \A i \in 1 .. n : s[i] \in T
  OBVIOUS
<1>2. SubSeq(s, 1, n) = [i \in 1 .. n |-> s[i]]
  OBVIOUS
<1> QED
  BY <1>1, <1>2

LEMMA BackFacts ==
    ASSUME NEW T, NEW s \in Seq(T), NEW n \in 0 .. Len(s)
    PROVE  /\ SubSeq(s, n + 1, Len(s)) \in Seq(T) /\ Len(SubSeq(s, n + 1, Len(s))) = Len(s) - n
           /\ \A i \in 1 .. Len(s) - n : SubSeq(s, n + 1, Len(s))[i] = s[i + n]
<1>1. \A i \in 1 .. Len(s) - n : s[i + n] \in T
  OBVIOUS
<1>2. SubSeq(s, n + 1, Len(s)) = [i \in 1 .. Len(s) - n |-> s[i + n]]
  OBVIOUS
<1> QED
  BY <1>1, <1>2

LEMMA InsertAtFacts ==
    ASSUME NEW T, NEW s \in Seq(T), NEW n \in 0 .. Len(s), NEW x \in T
    PROVE  /\ InsertAt(s, n + 1, x) \in Seq(T)
           /\ Len(InsertAt(s, n + 1, x)) = Len(s) + 1
           /\ \A i \in 1 .. n : InsertAt(s, n + 1, x)[i] = s[i]
           /\ InsertAt(s, n + 1, x)[n + 1] = x
           /\ \A i \in n + 1 .. Len(s) : InsertAt(s, n + 1, x)[i + 1] = s[i]
<1> DEFINE front == SubSeq(s, 1, n)
           back == SubSeq(s, n + 1, Len(s))
           half == front \o <<x>>
           new == half \o back
<1>1. front \in Seq(T) /\ Len(front) = n /\ \A i \in 1 .. n : front[i] = s[i]
  BY FrontFacts
<1>2. /\ back \in Seq(T) /\ Len(back) = Len(s) - n
      /\ \A i \in 1 .. Len(s) - n : back[i] = s[i + n]
  BY BackFacts
<1>3. InsertAt(s, n + 1, x) = new
  <2>1. (n + 1) - 1 = n
    OBVIOUS
  <2> QED
    BY <2>1 DEF InsertAt
<1> HIDE DEF front, back
<1>4. half \in Seq(T) /\ Len(half) = n + 1
  BY <1>1
<1>5. \A i \in 1 .. n : half[i] = front[i]
  BY <1>1
<1>6. half[n + 1] = x
  BY <1>1
<1> HIDE DEF half
<1>7. new \in Seq(T) /\ Len(new) = Len(s) + 1
  BY <1>2, <1>4
<1>8. \A i \in 1 .. n + 1 : new[i] = half[i]
  BY <1>2, <1>4
<1>9. \A i \in n + 2 .. Len(s) + 1 : new[i] = back[i - (n + 1)]
  BY <1>2, <1>4
<1> HIDE DEF new
<1>10. ASSUME NEW i \in n + 1 .. Len(s) PROVE new[i + 1] = s[i]
  <2>1. /\ i - n \in 1 .. Len(s) - n /\ i + 1 \in n + 2 .. Len(s) + 1
        /\ (i + 1) - (n + 1) = i - n /\ (i - n) + n = i
    OBVIOUS
  <2> QED
    BY <1>2, <1>9, <2>1
<1>11. n \in 1 .. n + 1 \/ n = 0
  OBVIOUS
<1>12. \A i \in 1 .. n : i \in 1 .. n + 1
  OBVIOUS
<1>13. n + 1 \in 1 .. n + 1
  OBVIOUS
<1>14. \A i \in 1 .. n : new[i] = s[i]
  BY <1>1, <1>5, <1>8, <1>12
<1>15. new[n + 1] = x
  BY <1>6, <1>8, <1>13
<1> QED
  BY <1>3, <1>7, <1>10, <1>14, <1>15

-----------------------------------------------------------------------------
(* Data.                                                                   *)

\* Each unlock is of one node, and opens an entry that is not older.
StoreInv ==
    /\ unlocks \in [Owners -> Nat]
    /\ uid \in Nat
    /\ \A o \in Owners : unlocks[o] <= uid
    /\ \A o \in Owners \ Accepting : unlocks[o] = 0
    /\ \A o, q \in Owners : unlocks[o] = unlocks[q] /\ o # q => unlocks[o] = 0
    /\ \A k \in DOMAIN caches : k \in 1 .. uid

Texts == DOMAIN Converted \cup {Undefined}
Known == DataValues \cup {Converted[text] : text \in DOMAIN Converted} \cup {Undefined}

\* What was last given for a name is what the cache has in the spelling fooBar.
GivenIsKept ==
    \A o \in Accepting, n \in DataNames : lastGiven[o][n] = Entry(o, Camel(n))

DataInv ==
    /\ StoreInv
    /\ attributes \in [Owners -> [DataNames -> Texts]]
    /\ lastGiven \in [Owners -> [DataNames -> Known]]
    /\ \A o \in Copies \ cloned : unlocks[o] = 0
    /\ GivenIsKept

LEMMA UnderFacts ==
    ASSUME NEW key, NEW value
    PROVE  DOMAIN Under(key, value) = {key} /\ Under(key, value)[key] = value
BY DEF Under

\* A node without an unlock has no entry.
LEMMA NothingWithoutUnlock ==
    ASSUME StoreInv, NEW o \in Owners, unlocks[o] = 0
    PROVE  Key(o) \notin DOMAIN caches /\ Cache(o) = <<>>
<1>1. Key(o) = 0 \/ Key(o) = uid + 1
  BY DEF Key
<1>2. Key(o) \notin DOMAIN caches
  BY <1>1 DEF StoreInv
<1> QED
  BY <1>2 DEF Cache

\* An unlock stays, and so does the entry behind it, but for the node of the call.
LEMMA EntryReplaced ==
    ASSUME StoreInv, NEW o \in Owners, o \in Accepting, NEW cache, Keeps(o, cache)
    PROVE  /\ StoreInv'
           /\ Cache(o)' = cache
           /\ \A q \in Owners \ {o} : unlocks'[q] = unlocks[q] /\ Cache(q)' = Cache(q)
<1>1. PICK key : key = Key(o)
  OBVIOUS
<1>2. /\ key \in Nat /\ key # 0
      /\ key = IF unlocks[o] = 0 THEN uid + 1 ELSE unlocks[o]
  BY <1>1 DEF Key, StoreInv
<1>3. /\ unlocks' = [unlocks EXCEPT ![o] = key]
      /\ uid' = IF unlocks[o] = 0 THEN uid + 1 ELSE uid
      /\ caches' = Filed(Under(key, cache), caches)
  BY <1>1, <1>2 DEF Keeps
<1>4. /\ DOMAIN caches' = DOMAIN caches \cup {key}
      /\ caches'[key] = cache
      /\ \A k \in DOMAIN caches \ {key} : caches'[k] = caches[k]
  <2>1. PICK entry : /\ entry = Under(key, cache)
                     /\ DOMAIN entry = {key} /\ entry[key] = cache
    BY UnderFacts
  <2>2. caches' = [k \in {key} \cup DOMAIN caches |->
                     IF k \in {key} THEN entry[k] ELSE caches[k]]
    BY <1>3, <2>1 DEF Filed
  <2> QED
    BY <2>1, <2>2
<1>5. /\ unlocks'[o] = key
      /\ \A q \in Owners \ {o} : unlocks'[q] = unlocks[q]
      /\ unlocks' \in [Owners -> Nat]
      /\ uid' \in Nat /\ uid <= uid' /\ key <= uid'
  BY <1>2, <1>3 DEF StoreInv
<1>6. \A q \in Owners \ {o} : unlocks[q] # key
  BY <1>2 DEF StoreInv
<1>7. StoreInv'
  <2>1. \A q \in Owners : unlocks'[q] <= uid'
    BY <1>5 DEF StoreInv
  <2>2. \A q \in Owners \ Accepting : unlocks'[q] = 0
    BY <1>5 DEF StoreInv
  <2>3. \A p, q \in Owners : unlocks'[p] = unlocks'[q] /\ p # q => unlocks'[p] = 0
    BY <1>5, <1>6 DEF StoreInv
  <2>4. \A k \in DOMAIN caches' : k \in 1 .. uid'
    BY <1>2, <1>4, <1>5 DEF StoreInv
  <2> QED
    BY <1>5, <2>1, <2>2, <2>3, <2>4 DEF StoreInv
<1>8. Cache(o)' = cache
  BY <1>2, <1>4, <1>5 DEF Cache, Key
<1>9. ASSUME NEW q \in Owners \ {o} PROVE Cache(q)' = Cache(q)
  <2>1. CASE q \in Accepting /\ unlocks[q] # 0
    <3>1. Key(q)' = unlocks[q] /\ Key(q) = unlocks[q]
      BY <1>5, <2>1 DEF Key
    <3>2. unlocks[q] \in DOMAIN caches' <=> unlocks[q] \in DOMAIN caches
      BY <1>4, <1>6
    <3>3. unlocks[q] \in DOMAIN caches => caches'[unlocks[q]] = caches[unlocks[q]]
      BY <1>4, <1>6
    <3> QED
      BY <3>1, <3>2, <3>3 DEF Cache
  <2>2. CASE ~(q \in Accepting /\ unlocks[q] # 0)
    <3>1. unlocks[q] = 0 /\ unlocks'[q] = 0
      BY <1>5, <2>2 DEF StoreInv
    <3>2. Cache(q) = <<>>
      BY <3>1, NothingWithoutUnlock
    <3>3. Key(q)' = 0 \/ Key(q)' = uid' + 1
      BY <3>1 DEF Key
    <3>4. Key(q)' \notin DOMAIN caches'
      BY <1>7, <3>3 DEF StoreInv
    <3> QED
      BY <3>2, <3>4 DEF Cache
  <2> QED
    BY <2>1, <2>2
<1> QED
  BY <1>5, <1>7, <1>8, <1>9

\* A call that leaves a cache with its node: what was given must be what is there.
LEMMA CallKeeps ==
    ASSUME DataInv, NEW o \in Owners, NEW cache, Keeps(o, cache),
           attributes' \in [Owners -> [DataNames -> Texts]],
           lastGiven' \in [Owners -> [DataNames -> Known]],
           \A q \in Owners \ {o} : lastGiven'[q] = lastGiven[q],
           o \in Accepting => \A n \in DataNames :
               lastGiven'[o][n] = IF Camel(n) \in DOMAIN cache THEN cache[Camel(n)] ELSE Undefined,
           cloned \subseteq cloned', o \in Copies => o \in cloned'
    PROVE  DataInv'
<1>1. CASE o \in Accepting
  <2>1. /\ StoreInv'
        /\ Cache(o)' = cache
        /\ \A q \in Owners \ {o} : unlocks'[q] = unlocks[q] /\ Cache(q)' = Cache(q)
    BY <1>1, EntryReplaced DEF DataInv
  <2>2. \A q \in Copies \ cloned' : unlocks'[q] = 0
    BY <2>1, DataAssumption DEF DataInv
  <2>3. ASSUME NEW q \in Accepting, NEW n \in DataNames
        PROVE  lastGiven'[q][n] = Entry(q, Camel(n))'
    <3>1. CASE q = o
      BY <1>1, <2>1, <3>1 DEF Entry
    <3>2. CASE q # o
      <4>1. q \in Owners \ {o}
        BY <3>2, DataAssumption
      <4>2. Cache(q)' = Cache(q) /\ lastGiven'[q] = lastGiven[q]
        BY <2>1, <4>1
      <4>3. Entry(q, Camel(n))' = Entry(q, Camel(n))
        BY <4>2 DEF Entry, Camel
      <4> QED
        BY <4>2, <4>3 DEF DataInv, GivenIsKept
    <3> QED
      BY <3>1, <3>2
  <2>4. GivenIsKept'
    BY <2>3 DEF GivenIsKept
  <2> QED
    BY <2>1, <2>2, <2>4 DEF DataInv
<1>2. CASE o \notin Accepting
  <2>1. UNCHANGED storeVars
    BY <1>2 DEF Keeps, Key
  <2>2. StoreInv' /\ \A q \in Copies \ cloned' : unlocks'[q] = 0
    BY <2>1 DEF storeVars, DataInv, StoreInv
  <2>3. ASSUME NEW q \in Accepting, NEW n \in DataNames
        PROVE  lastGiven'[q][n] = Entry(q, Camel(n))'
    <3>1. lastGiven'[q] = lastGiven[q]
      BY <1>2, DataAssumption
    <3>2. Entry(q, Camel(n))' = Entry(q, Camel(n))
      BY <2>1 DEF storeVars, Entry, Cache, Key, Camel
    <3> QED
      BY <3>1, <3>2 DEF DataInv, GivenIsKept
  <2>4. GivenIsKept'
    BY <2>3 DEF GivenIsKept
  <2> QED
    BY <2>2, <2>4 DEF DataInv
<1> QED
  BY <1>1, <1>2

\* Names can be told apart by their keys.
LEMMA CamelFacts ==
    ASSUME NEW n, NEW m
    PROVE  /\ (Camel(n) = Camel(m)) <=> (n = m)
           /\ Camel(n).name = n /\ Camel(n).dashed = FALSE
BY DEF Camel

\* A call that files values for a node, and gives the page those that have names.
LEMMA CallFiles ==
    ASSUME DataInv, NEW o \in Owners, NEW values, Keeps(o, Filed(values, Cache(o))),
           Gives(o, values) \/ (o \notin Accepting /\ UNCHANGED lastGiven),
           \A n \in DataNames : Camel(n) \in DOMAIN values => values[Camel(n)] \in Known,
           UNCHANGED <<attributes, cloned>>, o \in Copies => o \in cloned
    PROVE  DataInv'
<1>1. lastGiven \in [Owners -> [DataNames -> Known]]
  BY DEF DataInv
<1>2. CASE o \notin Accepting /\ UNCHANGED lastGiven
  <2>1. PICK cache : cache = Filed(values, Cache(o))
    OBVIOUS
  <2>2. Keeps(o, cache)
    BY <2>1
  <2>3. attributes' \in [Owners -> [DataNames -> Texts]]
    BY DEF DataInv
  <2> QED
    BY <1>1, <1>2, <2>2, <2>3, CallKeeps
<1>3. CASE Gives(o, values)
  <2>1. PICK old : old = Cache(o)
    OBVIOUS
  <2>2. PICK cache : cache = Filed(values, old)
    OBVIOUS
  <2>3. /\ DOMAIN cache = DOMAIN values \cup DOMAIN old
        /\ \A k \in DOMAIN values : cache[k] = values[k]
        /\ \A k \in DOMAIN old \ DOMAIN values : cache[k] = old[k]
    BY <2>2 DEF Filed
  <2>4. PICK now \in [DataNames -> Known] :
          \A n \in DataNames : now[n] = IF Camel(n) \in DOMAIN values THEN values[Camel(n)]
                                                                    ELSE lastGiven[o][n]
    <3> DEFINE now == [n \in DataNames |-> IF Camel(n) \in DOMAIN values
                                           THEN values[Camel(n)] ELSE lastGiven[o][n]]
    <3>1. \A n \in DataNames : lastGiven[o][n] \in Known
      BY <1>1
    <3>2. now \in [DataNames -> Known]
      BY <3>1
    <3> QED
      BY <3>2
  <2>5. lastGiven' = [lastGiven EXCEPT ![o] = now]
    BY <1>1, <1>3, <2>4 DEF Gives
  <2>6. /\ lastGiven' \in [Owners -> [DataNames -> Known]]
        /\ \A q \in Owners \ {o} : lastGiven'[q] = lastGiven[q]
        /\ lastGiven'[o] = now
    BY <1>1, <2>4, <2>5
  <2>7. ASSUME o \in Accepting, NEW n \in DataNames
        PROVE  lastGiven'[o][n] = IF Camel(n) \in DOMAIN cache THEN cache[Camel(n)] ELSE Undefined
    <3>1. lastGiven[o][n] = IF Camel(n) \in DOMAIN old THEN old[Camel(n)] ELSE Undefined
      BY <2>1, <2>7 DEF DataInv, GivenIsKept, Entry
    <3> QED
      BY <2>3, <2>4, <2>6, <3>1
  <2>8. Keeps(o, cache) /\ attributes' \in [Owners -> [DataNames -> Texts]]
    BY <2>1, <2>2 DEF DataInv
  <2> QED
    BY <2>6, <2>7, <2>8, CallKeeps
<1> QED
  BY <1>2, <1>3

\* A call that takes keys from a node, in both spellings or in the spelling fooBar.
LEMMA CallDrops ==
    ASSUME DataInv, NEW o \in Owners, NEW cache, Keeps(o, cache), NEW names,
           Forgets(o, names), NEW keys, cache = Dropping(Cache(o), keys),
           \A n \in DataNames : Camel(n) \in keys <=> n \in names,
           UNCHANGED <<attributes, cloned>>, o \in Copies => o \in cloned
    PROVE  DataInv'
<1>1. lastGiven \in [Owners -> [DataNames -> Known]] /\ Undefined \in Known
  BY DEF DataInv, Known
<1>2. PICK old : old = Cache(o)
  OBVIOUS
<1>3. /\ DOMAIN cache = DOMAIN old \ keys
      /\ \A k \in DOMAIN old \ keys : cache[k] = old[k]
  BY <1>2 DEF Dropping
<1>4. PICK now \in [DataNames -> Known] :
        \A n \in DataNames : now[n] = IF n \in names THEN Undefined ELSE lastGiven[o][n]
  <2> DEFINE now == [n \in DataNames |-> IF n \in names THEN Undefined ELSE lastGiven[o][n]]
  <2>1. now \in [DataNames -> Known]
    BY <1>1
  <2> QED
    BY <2>1
<1>5. lastGiven' = [lastGiven EXCEPT ![o] = now]
  BY <1>1, <1>4 DEF Forgets
<1>6. /\ lastGiven' \in [Owners -> [DataNames -> Known]]
      /\ \A q \in Owners \ {o} : lastGiven'[q] = lastGiven[q]
      /\ lastGiven'[o] = now
  BY <1>1, <1>4, <1>5
<1>7. ASSUME o \in Accepting, NEW n \in DataNames
      PROVE  lastGiven'[o][n] = IF Camel(n) \in DOMAIN cache THEN cache[Camel(n)] ELSE Undefined
  <2>1. lastGiven[o][n] = IF Camel(n) \in DOMAIN old THEN old[Camel(n)] ELSE Undefined
    BY <1>2, <1>7 DEF DataInv, GivenIsKept, Entry
  <2> QED
    BY <1>3, <1>4, <1>6, <2>1
<1>8. attributes' \in [Owners -> [DataNames -> Texts]]
  BY DEF DataInv
<1> QED
  BY <1>6, <1>7, <1>8, CallKeeps

\* What is found in attributes is filed under keys of its own.
LEMMA FetchedFacts ==
    ASSUME DataInv, NEW o \in Owners, NEW names \in SUBSET DataNames
    PROVE  \A n \in DataNames : Camel(n) \in DOMAIN Fetched(o, names)
                                    => Fetched(o, names)[Camel(n)] \in Known
<1> SUFFICES ASSUME NEW n \in DataNames, Camel(n) \in DOMAIN Fetched(o, names)
             PROVE  Fetched(o, names)[Camel(n)] \in Known
  OBVIOUS
<1>1. Fetched(o, names)[Camel(n)] = FromAttribute(o, n)
  BY CamelFacts DEF Fetched
<1>2. attributes[o][n] \in Texts
  BY DEF DataInv
<1> QED
  BY <1>1, <1>2 DEF FromAttribute, Texts, Known

LEMMA KeyNames ==
    ASSUME NEW key \in Keys
    PROVE  /\ key.name \in DataNames
           /\ \A n \in DataNames : Camel(n) = key => key.name = n
<1>1. CASE key \in [name : Dashed, dashed : {TRUE}]
  BY <1>1, DataAssumption, CamelFacts
<1>2. CASE key \in {Camel(n) : n \in DataNames}
  BY <1>2, CamelFacts
<1> QED
  BY <1>1, <1>2 DEF Keys

LEMMA ReadKeeps ==
    ASSUME DataInv, NEW o \in Owners,
           \/ \E key \in Keys : ReadData(o, key)
           \/ ReadAllData(o)
    PROVE  DataInv'
<1>1. \A n \in DataNames : Camel(n) \in DOMAIN <<>> => <<>>[Camel(n)] \in Known
  OBVIOUS
<1>2. ASSUME NEW key \in Keys, ReadData(o, key) PROVE DataInv'
  <2>1. PICK fetched :
          /\ fetched = IF Entry(o, key) # Undefined THEN <<>> ELSE Fetched(o, {key.name})
          /\ Keeps(o, Filed(fetched, Cache(o))) /\ Gives(o, fetched)
          /\ UNCHANGED <<attributes, cloned>>
          /\ o \in Copies => o \in cloned
    BY <1>2 DEF ReadData, CallOn
  <2>2. \A n \in DataNames : Camel(n) \in DOMAIN fetched => fetched[Camel(n)] \in Known
    <3>1. {key.name} \in SUBSET DataNames
      BY KeyNames
    <3> QED
      BY <1>1, <2>1, <3>1, FetchedFacts
  <2> QED
    BY <2>1, <2>2, CallFiles
<1>3. CASE ReadAllData(o)
  <2>1. PICK fetched :
          /\ fetched = IF o \in askedAll THEN <<>> ELSE Fetched(o, DataNames)
          /\ Keeps(o, Filed(fetched, Cache(o))) /\ Gives(o, fetched)
          /\ UNCHANGED <<attributes, cloned>>
          /\ o \in Copies => o \in cloned
    BY <1>3 DEF ReadAllData, CallOn
  <2>2. \A n \in DataNames : Camel(n) \in DOMAIN fetched => fetched[Camel(n)] \in Known
    BY <1>1, <2>1, FetchedFacts
  <2> QED
    BY <2>1, <2>2, CallFiles
<1> QED
  BY <1>2, <1>3

\* With the spelling fooBar, the value may be filed under foo-bar, too: the page is
\* given it once.
LEMMA WriteKeeps ==
    ASSUME DataInv, NEW o \in Owners, NEW key \in Keys, NEW value \in DataValues,
           WriteData(o, key, value) \/ WriteAsSpelled(o, key, value)
    PROVE  DataInv'
<1>1. value \in Known /\ key.name \in DataNames
  BY KeyNames DEF Known
<1>2. CASE WriteAsSpelled(o, key, value)
  <2>1. PICK values : /\ values = Under(key, value)
                      /\ DOMAIN values = {key} /\ values[key] = value
    BY UnderFacts
  <2>2. /\ Keeps(o, Filed(values, Cache(o)))
        /\ Gives(o, values) \/ (o \notin Accepting /\ UNCHANGED lastGiven)
        /\ UNCHANGED <<attributes, cloned>>
        /\ o \in Copies => o \in cloned
    BY <1>2, <2>1 DEF WriteAsSpelled, CallOn
  <2>3. \A n \in DataNames : Camel(n) \in DOMAIN values => values[Camel(n)] \in Known
    BY <1>1, <2>1
  <2> QED
    BY <2>2, <2>3, CallFiles
<1>3. CASE WriteData(o, key, value)
  <2>1. PICK twice \in BOOLEAN :
          twice <=> key.dashed /\ Entry(o, Camel(key.name)) # Undefined
    OBVIOUS
  <2>2. PICK keys : keys = {Camel(key.name)} \cup IF twice THEN {key} ELSE {}
    OBVIOUS
  <2>3. PICK values : /\ values = [k \in keys |-> value]
                      /\ DOMAIN values = keys /\ \A k \in keys : values[k] = value
    <3>1. PICK values : values = [k \in keys |-> value]
      OBVIOUS
    <3> QED
      BY <3>1
  <2>4. Keeps(o, Filed(values, Cache(o)))
    BY <1>3, <2>1, <2>2, <2>3 DEF WriteData
  <2>5. /\ UNCHANGED <<attributes, cloned>>
        /\ o \in Copies => o \in cloned
    BY <1>3 DEF WriteData, CallOn
  <2>6. \A n \in DataNames : Camel(n) \in DOMAIN values => values[Camel(n)] \in Known
    BY <1>1, <2>3
  <2>7. \A n \in DataNames : Camel(n) \in keys <=> n = key.name
    BY <2>1, <2>2, CamelFacts, KeyNames
  <2>8. Gives(o, values) \/ (o \notin Accepting /\ UNCHANGED lastGiven)
    <3>1. CASE o \in Accepting
      <4>1. Gives(o, Under(Camel(key.name), value))
        BY <1>3, <3>1 DEF WriteData
      <4>2. PICK given : /\ given = Under(Camel(key.name), value)
                         /\ DOMAIN given = {Camel(key.name)}
                         /\ given[Camel(key.name)] = value
        BY UnderFacts
      <4>3. \A n \in DataNames : /\ Camel(n) \in DOMAIN given <=> Camel(n) \in DOMAIN values
                                 /\ Camel(n) \in DOMAIN given => given[Camel(n)] = values[Camel(n)]
        BY <2>3, <2>7, <4>2, CamelFacts
      <4>4. \A old : [n \in DataNames |-> IF Camel(n) \in DOMAIN given THEN given[Camel(n)] ELSE old[n]]
                   = [n \in DataNames |-> IF Camel(n) \in DOMAIN values THEN values[Camel(n)] ELSE old[n]]
        BY <4>3
      <4>5. Gives(o, given)
        BY <4>1, <4>2
      <4>6. lastGiven \in [Owners -> [DataNames -> Known]]
        BY DEF DataInv
      <4>7. lastGiven' = [lastGiven EXCEPT ![o] =
               [n \in DataNames |-> IF Camel(n) \in DOMAIN given THEN given[Camel(n)]
                                                                 ELSE lastGiven[o][n]]]
        BY <4>5, <4>6 DEF Gives
      <4>8. lastGiven' = [lastGiven EXCEPT ![o] =
               [n \in DataNames |-> IF Camel(n) \in DOMAIN values THEN values[Camel(n)]
                                                                  ELSE lastGiven[o][n]]]
        BY <4>4, <4>7
      <4> QED
        BY <4>6, <4>8 DEF Gives
    <3>2. CASE o \notin Accepting
      BY <1>3, <3>2 DEF WriteData
    <3> QED
      BY <3>1, <3>2
  <2> QED
    BY <2>4, <2>5, <2>6, <2>8, CallFiles
<1> QED
  BY <1>2, <1>3

LEMMA RemoveKeeps ==
    ASSUME DataInv, NEW o \in Owners,
           \/ \E key \in Keys : RemoveData(o, key)
           \/ \E keys \in SUBSET Keys : RemoveListed(o, keys)
           \/ RemoveAllData(o)
    PROVE  DataInv'
<1>1. ASSUME NEW key \in Keys, RemoveData(o, key) PROVE DataInv'
  <2>1. PICK cache : cache = Dropping(Cache(o), Removed(o, key))
    OBVIOUS
  <2>2. PICK keys : keys = Removed(o, key)
    OBVIOUS
  <2>3. /\ Keeps(o, cache) /\ Forgets(o, {key.name})
        /\ UNCHANGED <<attributes, cloned>>
        /\ o \in Copies => o \in cloned
    BY <1>1, <2>1 DEF RemoveData, CallOn
  <2>4. \A n \in DataNames : Camel(n) \in keys <=> n \in {key.name}
    BY <2>2, CamelFacts, KeyNames DEF Removed
  <2>5. cache = Dropping(Cache(o), keys)
    BY <2>1, <2>2
  <2> QED
    BY <2>3, <2>4, <2>5, CallDrops
<1>2. ASSUME NEW listed \in SUBSET Keys, RemoveListed(o, listed) PROVE DataInv'
  <2>1. PICK keys : keys = listed \cup {Camel(k.name) : k \in listed}
    OBVIOUS
  <2>2. PICK names : names = {k.name : k \in listed}
    OBVIOUS
  <2>3. PICK cache : cache = Dropping(Cache(o), keys)
    OBVIOUS
  <2>4. /\ Keeps(o, cache) /\ Forgets(o, names)
        /\ UNCHANGED <<attributes, cloned>>
        /\ o \in Copies => o \in cloned
    BY <1>2, <2>1, <2>2, <2>3 DEF RemoveListed, CallOn
  <2>5. ASSUME NEW n \in DataNames PROVE Camel(n) \in keys <=> n \in names
    <3>1. ASSUME Camel(n) \in keys PROVE n \in names
      <4>1. PICK k \in listed : Camel(n) = k \/ Camel(n) = Camel(k.name)
        BY <2>1, <3>1
      <4>2. k.name = n
        BY <4>1, CamelFacts, KeyNames
      <4> QED
        BY <2>2, <4>2
    <3>2. ASSUME n \in names PROVE Camel(n) \in keys
      BY <2>1, <2>2, <3>2
    <3> QED
      BY <3>1, <3>2
  <2> QED
    BY <2>3, <2>4, <2>5, CallDrops
<1>3. CASE RemoveAllData(o)
  <2>1. PICK keys : keys = DOMAIN Cache(o) \cup {Camel(n) : n \in DataNames}
    OBVIOUS
  <2>2. Dropping(Cache(o), keys) = <<>>
    BY <2>1 DEF Dropping
  <2>3. /\ Keeps(o, <<>>) /\ Forgets(o, DataNames)
        /\ UNCHANGED <<attributes, cloned>>
        /\ o \in Copies => o \in cloned
    BY <1>3 DEF RemoveAllData, CallOn
  <2>4. \A n \in DataNames : Camel(n) \in keys <=> n \in DataNames
    BY <2>1
  <2> QED
    BY <2>2, <2>3, <2>4, CallDrops
<1> QED
  BY <1>1, <1>2, <1>3

LEMMA DiscardKeeps ==
    ASSUME DataInv, NEW o \in Owners, DiscardData(o)
    PROVE  DataInv'
<1>1. /\ caches' = Dropping(caches, {unlocks[o]})
      /\ UNCHANGED <<unlocks, uid, attributes, cloned>>
      /\ Forgets(o, DataNames)
  BY DEF DiscardData
<1>2. /\ DOMAIN caches' = DOMAIN caches \ {unlocks[o]}
      /\ \A k \in DOMAIN caches' : caches'[k] = caches[k]
  BY <1>1 DEF Dropping
<1>3. StoreInv' /\ \A q \in Copies \ cloned' : unlocks'[q] = 0
  BY <1>1, <1>2 DEF DataInv, StoreInv
<1>4. lastGiven \in [Owners -> [DataNames -> Known]] /\ Undefined \in Known
  BY DEF DataInv, Known
<1>5. /\ lastGiven' \in [Owners -> [DataNames -> Known]]
      /\ \A q \in Owners \ {o} : lastGiven'[q] = lastGiven[q]
      /\ \A n \in DataNames : lastGiven'[o][n] = Undefined
  <2>1. PICK now \in [DataNames -> Known] : \A n \in DataNames : now[n] = Undefined
    <3>1. [n \in DataNames |-> Undefined] \in [DataNames -> Known]
      BY <1>4
    <3> QED
      BY <3>1
  <2>2. lastGiven' = [lastGiven EXCEPT ![o] = now]
    BY <1>1, <1>4, <2>1 DEF Forgets
  <2> QED
    BY <1>4, <2>1, <2>2
<1>6. ASSUME NEW q \in Accepting, NEW n \in DataNames
      PROVE  lastGiven'[q][n] = Entry(q, Camel(n))'
  <2>1. q \in Owners /\ Key(q)' = Key(q)
    BY <1>1, DataAssumption DEF Key
  <2>2. CASE unlocks[q] = 0
    <3>1. Key(q) \notin DOMAIN caches
      BY <2>1, <2>2, NothingWithoutUnlock DEF DataInv
    <3>2. Key(q)' \notin DOMAIN caches'
      BY <1>2, <2>1, <3>1
    <3>3. Entry(q, Camel(n)) = Undefined /\ Entry(q, Camel(n))' = Undefined
      BY <3>1, <3>2 DEF Entry, Cache
    <3> QED
      BY <1>5, <2>1, <3>3 DEF DataInv, GivenIsKept
  <2>3. CASE q = o /\ unlocks[q] # 0
    <3>1. Key(q)' \notin DOMAIN caches'
      BY <1>2, <2>1, <2>3 DEF Key
    <3> QED
      BY <1>5, <2>3, <3>1 DEF Entry, Cache
  <2>4. CASE q # o /\ unlocks[q] # 0
    <3>1. Key(q) # unlocks[o] /\ lastGiven'[q] = lastGiven[q]
      BY <1>5, <2>1, <2>4 DEF Key, DataInv, StoreInv
    <3>2. Cache(q)' = Cache(q)
      BY <1>2, <2>1, <3>1 DEF Cache
    <3> QED
      BY <3>1, <3>2 DEF DataInv, GivenIsKept, Entry, Camel
  <2> QED
    BY <2>2, <2>3, <2>4
<1>7. GivenIsKept' /\ attributes' \in [Owners -> [DataNames -> Texts]]
  BY <1>1, <1>6 DEF DataInv, GivenIsKept
<1> QED
  BY <1>3, <1>5, <1>7 DEF DataInv

LEMMA CloneKeeps ==
    ASSUME DataInv, NEW o \in Owners, NEW copy \in Owners, CloneWithData(o, copy)
    PROVE  DataInv'
<1>1. /\ copy \in Copies \ cloned /\ copy \in Accepting /\ o \in Accepting /\ o # copy
      /\ cloned' = cloned \cup {copy}
      /\ attributes' = [attributes EXCEPT ![copy] = attributes[o]]
      /\ lastGiven' = [lastGiven EXCEPT ![copy] = lastGiven[o]]
  BY DataAssumption DEF CloneWithData, CallOn
<1>2. /\ attributes' \in [Owners -> [DataNames -> Texts]]
      /\ lastGiven' \in [Owners -> [DataNames -> Known]]
      /\ lastGiven'[copy] = lastGiven[o]
      /\ \A q \in Owners \ {copy} : lastGiven'[q] = lastGiven[q]
  BY <1>1 DEF DataInv
<1>3. CASE HasData(o)
  <2>1. PICK cache : cache = Cache(o)
    OBVIOUS
  <2>2. Keeps(copy, cache)
    BY <1>3, <2>1 DEF CloneWithData
  <2>3. \A n \in DataNames :
           lastGiven'[copy][n] = IF Camel(n) \in DOMAIN cache THEN cache[Camel(n)] ELSE Undefined
    BY <1>1, <1>2, <2>1 DEF DataInv, GivenIsKept, Entry
  <2> QED
    BY <1>1, <1>2, <2>2, <2>3, CallKeeps
<1>4. CASE ~HasData(o)
  <2>1. UNCHANGED storeVars
    BY <1>4 DEF CloneWithData
  <2>2. StoreInv' /\ \A q \in Copies \ cloned' : unlocks'[q] = 0
    BY <1>1, <2>1 DEF storeVars, DataInv, StoreInv
  <2>3. \A n \in DataNames : Entry(o, Camel(n)) = Undefined
    <3>1. CASE unlocks[o] = 0
      BY <3>1, NothingWithoutUnlock DEF Entry, DataInv
    <3>2. CASE unlocks[o] # 0
      <4>1. Key(o) = unlocks[o]
        BY <1>1, <3>2 DEF Key
      <4> QED
        BY <1>4, <4>1 DEF HasData, Entry, Cache
    <3> QED
      BY <3>1, <3>2
  <2>4. Cache(copy) = <<>>
    BY <1>1, NothingWithoutUnlock DEF DataInv
  <2>5. ASSUME NEW q \in Accepting, NEW n \in DataNames
        PROVE  lastGiven'[q][n] = Entry(q, Camel(n))'
    <3>1. Entry(q, Camel(n))' = Entry(q, Camel(n)) /\ q \in Owners
      BY <2>1, DataAssumption DEF storeVars, Entry, Cache, Key, Camel
    <3>2. CASE q = copy
      <4>1. Entry(q, Camel(n)) = Undefined
        BY <2>4, <3>2 DEF Entry
      <4>2. lastGiven'[q][n] = Undefined
        BY <1>1, <1>2, <2>3, <3>2 DEF DataInv, GivenIsKept
      <4> QED
        BY <3>1, <4>1, <4>2
    <3>3. CASE q # copy
      BY <1>2, <3>1, <3>3 DEF DataInv, GivenIsKept
    <3> QED
      BY <3>2, <3>3
  <2>6. GivenIsKept'
    BY <2>5 DEF GivenIsKept
  <2> QED
    BY <1>2, <2>2, <2>6 DEF DataInv
<1> QED
  BY <1>3, <1>4

LEMMA StoreUnchanged ==
    ASSUME DataInv, UNCHANGED <<storeVars, cloned, lastGiven>>,
           attributes' \in [Owners -> [DataNames -> Texts]]
    PROVE  DataInv'
<1>1. StoreInv'
  BY DEF DataInv, StoreInv, storeVars
<1>2. GivenIsKept'
  BY DEF DataInv, GivenIsKept, Entry, Cache, Key, Camel, storeVars
<1> QED
  BY <1>1, <1>2 DEF DataInv, storeVars

LEMMA DataInitially == DataInit => DataInv
<1> SUFFICES ASSUME DataInit PROVE DataInv
  OBVIOUS
<1>1. StoreInv
  BY DEF DataInit, StoreInv
<1>2. Undefined \in Texts /\ Undefined \in Known
  BY DEF Texts, Known
<1>3. ASSUME NEW o \in Accepting, NEW n \in DataNames
      PROVE  lastGiven[o][n] = Entry(o, Camel(n))
  BY DataAssumption DEF DataInit, Entry, Cache
<1>4. GivenIsKept
  BY <1>3 DEF GivenIsKept
<1>5. \A o \in Copies \ cloned : unlocks[o] = 0
  BY DataAssumption DEF DataInit
<1>6. /\ attributes \in [Owners -> [DataNames -> Texts]]
      /\ lastGiven \in [Owners -> [DataNames -> Known]]
  BY <1>2 DEF DataInit
<1> QED
  BY <1>1, <1>4, <1>5, <1>6 DEF DataInv

LEMMA DataStep ==
    ASSUME DataInv, [DataNext]_dataVars
    PROVE  DataInv'
<1>1. CASE UNCHANGED dataVars
  <2>1. attributes' \in [Owners -> [DataNames -> Texts]]
    BY <1>1 DEF dataVars, DataInv
  <2> QED
    BY <1>1, <2>1, StoreUnchanged DEF dataVars
<1>2. ASSUME NEW o \in Owners, NEW key \in Keys, ReadData(o, key) \/ RemoveData(o, key)
      PROVE  DataInv'
  BY <1>2, ReadKeeps, RemoveKeeps
<1>3. ASSUME NEW o \in Owners, NEW key \in Keys, NEW value \in DataValues,
             WriteData(o, key, value) \/ WriteAsSpelled(o, key, value)
      PROVE  DataInv'
  BY <1>3, WriteKeeps
<1>4. ASSUME NEW o \in Owners, ReadAllData(o) \/ RemoveAllData(o) PROVE DataInv'
  BY <1>4, ReadKeeps, RemoveKeeps
<1>5. ASSUME NEW o \in Owners, DiscardData(o) PROVE DataInv'
  BY <1>5, DiscardKeeps
<1>6. ASSUME NEW o \in Owners, NEW keys \in SUBSET Keys, RemoveListed(o, keys) PROVE DataInv'
  BY <1>6, RemoveKeeps
<1>7. ASSUME NEW o \in Owners, NEW copy \in Owners, CloneWithData(o, copy) PROVE DataInv'
  BY <1>7, CloneKeeps
<1>8. ASSUME NEW o \in Owners, NEW n \in DataNames, NEW text \in DOMAIN Converted \cup {Undefined},
             SetAttribute(o, n, text)
      PROVE  DataInv'
  <2>1. attributes' \in [Owners -> [DataNames -> Texts]]
    BY <1>8 DEF SetAttribute, DataInv, Texts
  <2> QED
    BY <1>8, <2>1, StoreUnchanged DEF SetAttribute
<1> QED
  BY <1>1, <1>2, <1>3, <1>4, <1>5, <1>6, <1>7, <1>8 DEF DataNext

\* .data() (:3776-3874): under either spelling a node reads back what the page last
\* gave or was given for the name, or the attribute, whatever happens to the attribute,
\* to clones and to other nodes, however many there are.
THEOREM ReadsBack == DataSpec => []ReadsWhatWasGiven
<1>1. DataInit => DataInv
  BY DataInitially
<1>2. DataInv /\ [DataNext]_dataVars => DataInv'
  BY DataStep
<1>3. DataInv => ReadsWhatWasGiven
  <2> SUFFICES ASSUME DataInv, NEW o \in Accepting, NEW key \in Keys,
                      key.dashed => key \notin DOMAIN Cache(o)
               PROVE  Reads(o, key) = IF lastGiven[o][key.name] # Undefined
                                      THEN lastGiven[o][key.name]
                                      ELSE FromAttribute(o, key.name)
    BY DEF ReadsWhatWasGiven
  <2>1. PICK camel : camel = Camel(key.name)
    OBVIOUS
  <2>2. lastGiven[o][key.name] = Entry(o, camel)
    BY <2>1, KeyNames DEF DataInv, GivenIsKept
  <2>3. Entry(o, key) = Undefined \/ key = camel
    <3>1. CASE key \in [name : Dashed, dashed : {TRUE}]
      BY <3>1 DEF Entry
    <3>2. CASE key \in {Camel(n) : n \in DataNames}
      <4>1. PICK n \in DataNames : key = Camel(n)
        BY <3>2
      <4>2. key.name = n
        BY <4>1, KeyNames
      <4> QED
        BY <2>1, <4>1, <4>2
    <3> QED
      BY <3>1, <3>2 DEF Keys
  <2> QED
    BY <2>1, <2>2, <2>3 DEF Reads
<1> QED
  BY <1>1, <1>2, <1>3, PTL DEF DataSpec

-----------------------------------------------------------------------------
(* Lists of handlers.                                                      *)

\* Delegates stand in front.
InFront(hs) == \A i, j \in DOMAIN hs : Delegated(hs[j]) /\ i < j => Delegated(hs[i])

\* So their number is the position of the last one.
LEMMA DelegatesCounted ==
    ASSUME NEW hs \in Seq(Handler), InFront(hs)
    PROVE  \E n \in 0 .. Len(hs) :
              /\ n = Cardinality({i \in DOMAIN hs : Delegated(hs[i])})
              /\ \A i \in DOMAIN hs : Delegated(hs[i]) <=> i <= n
<1> DEFINE len == Len(hs)
           T == {k \in 0 .. len : \A i \in 1 .. len : Delegated(hs[i]) => i <= k}
<1>1. len \in Nat /\ DOMAIN hs = 1 .. len
  OBVIOUS
<1> HIDE DEF len
<1>2. len \in T /\ T \in SUBSET Nat
  BY <1>1
<1>3. PICK n \in T : \A k \in T : n <= k
  BY <1>2, LeastOf
<1>4. n \in 0 .. len /\ \A i \in 1 .. len : Delegated(hs[i]) => i <= n
  BY <1>3
<1>5. ASSUME NEW i \in 1 .. len, i <= n PROVE Delegated(hs[i])
  <2>1. n - 1 \in 0 .. len /\ n - 1 \notin T
    BY <1>1, <1>3, <1>4, <1>5
  <2>2. PICK j \in 1 .. len : Delegated(hs[j]) /\ ~(j <= n - 1)
    BY <2>1
  <2>3. j = i \/ i < j
    BY <1>1, <1>4, <1>5, <2>2
  <2> QED
    BY <1>1, <2>2, <2>3 DEF InFront
<1> HIDE DEF T
<1>6. \A i \in 1 .. len : Delegated(hs[i]) <=> i <= n
  BY <1>4, <1>5
<1>7. {i \in DOMAIN hs : Delegated(hs[i])} = 1 .. n
  BY <1>1, <1>4, <1>6
<1>8. Cardinality(1 .. n) = n
  BY <1>1, <1>4, FS_Interval
<1> QED
  BY <1>1, <1>4, <1>6, <1>7, <1>8 DEF len

\* A new handler stands behind the delegates, or at the end; no other is moved
\* past another.
Placed(new, hs, h, n) ==
    /\ new \in Seq(Handler) /\ Len(new) = Len(hs) + 1
    /\ \A i \in 1 .. n : new[i] = hs[i]
    /\ new[n + 1] = h
    /\ \A i \in n + 1 .. Len(hs) : new[i + 1] = hs[i]

LEMMA PlacedAt ==
    ASSUME NEW hs, NEW new, NEW h, NEW n \in 0 .. Len(hs), Len(hs) \in Nat,
           Placed(new, hs, h, n)
    PROVE  /\ DOMAIN new = 1 .. Len(hs) + 1
           /\ \A i \in DOMAIN new :
                 new[i] = IF i <= n THEN hs[i] ELSE IF i = n + 1 THEN h ELSE hs[i - 1]
<1>1. DOMAIN new = 1 .. Len(hs) + 1
  BY DEF Placed
<1>2. ASSUME NEW i \in 1 .. Len(hs) + 1
      PROVE  new[i] = IF i <= n THEN hs[i] ELSE IF i = n + 1 THEN h ELSE hs[i - 1]
  <2>1. CASE i <= n
    BY <2>1 DEF Placed
  <2>2. CASE i = n + 1
    BY <2>2 DEF Placed
  <2>3. CASE i > n + 1
    <3>1. i - 1 \in n + 1 .. Len(hs) /\ (i - 1) + 1 = i
      BY <2>3
    <3> QED
      BY <2>3, <3>1 DEF Placed
  <2> QED
    BY <2>1, <2>2, <2>3
<1> QED
  BY <1>1, <1>2

LEMMA InsertedFacts ==
    ASSUME NEW hs \in Seq(Handler), InFront(hs), NEW h \in Handler
    PROVE  /\ InFront(Inserted(hs, h))
           /\ \E n \in 0 .. Len(hs) : Placed(Inserted(hs, h), hs, h, n)
<1>1. PICK n \in 0 .. Len(hs) :
        /\ n = Cardinality({i \in DOMAIN hs : Delegated(hs[i])})
        /\ \A i \in DOMAIN hs : Delegated(hs[i]) <=> i <= n
  BY DelegatesCounted
<1>2. PICK new : new = Inserted(hs, h)
  OBVIOUS
<1>3. Len(hs) \in Nat /\ DOMAIN hs = 1 .. Len(hs)
  OBVIOUS
<1>4. CASE Delegated(h)
  <2>1. new = InsertAt(hs, n + 1, h)
    BY <1>1, <1>2, <1>4 DEF Inserted
  <2>2. Placed(new, hs, h, n)
    <3>1. new \in Seq(Handler) /\ Len(new) = Len(hs) + 1
      BY <2>1, InsertAtFacts
    <3>2. \A i \in 1 .. n : new[i] = hs[i]
      BY <2>1, InsertAtFacts
    <3>3. new[n + 1] = h
      BY <2>1, InsertAtFacts
    <3>4. \A i \in n + 1 .. Len(hs) : InsertAt(hs, n + 1, h)[i + 1] = hs[i]
      BY InsertAtFacts
    <3> QED
      BY <2>1, <3>1, <3>2, <3>3, <3>4 DEF Placed
  <2>3. /\ DOMAIN new = 1 .. Len(hs) + 1
        /\ \A i \in DOMAIN new :
              new[i] = IF i <= n THEN hs[i] ELSE IF i = n + 1 THEN h ELSE hs[i - 1]
    BY <1>3, <2>2, PlacedAt
  <2>4. ASSUME NEW i \in DOMAIN new PROVE Delegated(new[i]) <=> i <= n + 1
    <3>1. CASE i <= n
      BY <1>1, <1>3, <2>3, <3>1
    <3>2. CASE i = n + 1
      <4>1. new[i] = h
        BY <1>3, <2>3, <3>2
      <4>2. i <= n + 1
        BY <1>3, <3>2
      <4> QED
        BY <1>4, <4>1, <4>2
    <3>3. CASE i > n + 1
      <4>1. i - 1 \in DOMAIN hs /\ ~(i - 1 <= n) /\ new[i] = hs[i - 1]
        BY <1>3, <2>3, <3>3
      <4>2. ~Delegated(new[i])
        BY <1>1, <4>1
      <4>3. ~(i <= n + 1)
        BY <1>3, <2>3, <3>3
      <4> QED
        BY <4>2, <4>3
    <3>4. i \in Nat
      BY <1>3, <2>3
    <3> QED
      BY <3>1, <3>2, <3>3, <3>4
  <2>5. InFront(new)
    BY <2>3, <2>4 DEF InFront
  <2> QED
    BY <1>2, <2>2, <2>5
<1>5. CASE ~Delegated(h)
  <2>1. new = Append(hs, h)
    BY <1>2, <1>5 DEF Inserted
  <2>2. Placed(new, hs, h, Len(hs))
    BY <2>1 DEF Placed
  <2>3. Len(hs) \in 0 .. Len(hs)
    BY <1>3
  <2>4. /\ DOMAIN new = 1 .. Len(hs) + 1
        /\ \A i \in DOMAIN new :
              new[i] = IF i <= Len(hs) THEN hs[i] ELSE IF i = Len(hs) + 1 THEN h ELSE hs[i - 1]
    BY <1>3, <2>2, <2>3, PlacedAt
  <2>5. \A i \in DOMAIN new : Delegated(new[i]) <=> i <= n
    BY <1>1, <1>3, <1>5, <2>4
  <2>6. InFront(new)
    BY <1>3, <2>4, <2>5 DEF InFront
  <2> QED
    BY <1>2, <2>2, <2>3, <2>6
<1> QED
  BY <1>4, <1>5

\* Handlers that are taken out of a list leave the others in their order.
LEMMA StayFacts ==
    ASSUME NEW hs \in Seq(Handler), NEW D \in SUBSET (DOMAIN hs)
    PROVE  /\ Only(hs, D) \in Seq(Handler)
           /\ \E s \in [DOMAIN Only(hs, D) -> D] :
                 /\ \A i \in DOMAIN Only(hs, D) : Only(hs, D)[i] = hs[s[i]]
                 /\ \A k \in D : \E i \in DOMAIN Only(hs, D) : s[i] = k
                 /\ \A i, j \in DOMAIN Only(hs, D) : i < j => s[i] < s[j]
           /\ hs = <<>> => Only(hs, D) = <<>>
<1>1. DOMAIN hs = 1 .. Len(hs) /\ Len(hs) \in Nat
  OBVIOUS
<1>2. IsFiniteSet(1 .. Len(hs))
  BY <1>1, FS_Interval
<1>3. D \in SUBSET Nat /\ IsFiniteSet(D)
  BY <1>1, <1>2, FS_Subset
<1>4. \A k \in D : hs[k] \in Handler
  BY <1>1
<1>5. Only(hs, D) \in Seq(Handler) /\ Len(Only(hs, D)) = Cardinality(D)
  BY <1>3, <1>4, OnlyFacts
<1>6. \E s \in [DOMAIN Only(hs, D) -> D] :
                 /\ \A i \in DOMAIN Only(hs, D) : Only(hs, D)[i] = hs[s[i]]
                 /\ \A k \in D : \E i \in DOMAIN Only(hs, D) : s[i] = k
                 /\ \A i, j \in DOMAIN Only(hs, D) : i < j => s[i] < s[j]
  BY <1>3, <1>4, OnlyFacts
<1>7. ASSUME hs = <<>> PROVE Only(hs, D) = <<>>
  <2>1. D = {} /\ Cardinality(D) = 0
    BY <1>7, FS_EmptySet
  <2> QED
    BY <1>5, <2>1
<1> QED
  BY <1>5, <1>6, <1>7

LEMMA StayInFront ==
    ASSUME NEW hs \in Seq(Handler), NEW D \in SUBSET (DOMAIN hs), InFront(hs)
    PROVE  InFront(Only(hs, D))
<1>1. PICK list : list = Only(hs, D)
  OBVIOUS
<1>2. PICK s \in [DOMAIN list -> D] :
        /\ \A i \in DOMAIN list : list[i] = hs[s[i]]
        /\ \A i, j \in DOMAIN list : i < j => s[i] < s[j]
  BY <1>1, StayFacts
<1>3. InFront(list)
  BY <1>2 DEF InFront
<1> QED
  BY <1>1, <1>3

-----------------------------------------------------------------------------
(* Listeners.                                                              *)

Wanting == {e \in Elems : handlers[e]["focusin"] # <<>>}

\* The two properties, and the types they need.
RegistryInv ==
    /\ handlers \in [Elems -> [OrigTypes -> Seq(Handler)]]
    /\ listening \in [Elems -> [OrigTypes -> BOOLEAN]]
    /\ attaches \in Nat
    /\ captures \in BOOLEAN
    /\ \A e \in Elems, t \in OrigTypes :
          /\ t # "focusin" => (listening[e][t] <=> handlers[e][t] # <<>>)
          /\ InFront(handlers[e][t])
    /\ captures <=> attaches > 0
    /\ attaches >= Cardinality(Wanting)

LEMMA RegistryMeans == RegistryInv => ListensForItsHandlers /\ FocusinServed
BY DEF RegistryInv, ListensForItsHandlers, FocusinServed, Wanting, InFront

LEMMA WantingCounted == IsFiniteSet(Wanting) /\ Cardinality(Wanting) \in Nat
BY EventsAssumption, FS_Subset, FS_CardinalityType DEF Wanting

\* Teardown takes no element off the count that does not want focusin, and each
\* only once.
LEMMA TearsDownCounted ==
    ASSUME RegistryInv, NEW es \in SUBSET Wanting, TornDown(es), Wanting' \subseteq Wanting \ es
    PROVE  /\ attaches' \in Nat /\ captures' \in BOOLEAN
           /\ captures' <=> attaches' > 0
           /\ attaches' >= Cardinality(Wanting)'
<1>1. PICK W : W = Wanting
  OBVIOUS
<1>2. PICK W2 : W2 = Wanting'
  OBVIOUS
<1>3. IsFiniteSet(W) /\ Cardinality(W) \in Nat /\ es \subseteq W /\ W2 \subseteq W \ es
  BY <1>1, <1>2, WantingCounted
<1>4. IsFiniteSet(W \ es) /\ Cardinality(W \ es) = Cardinality(W) - Cardinality(es)
  <2>1. W \cap es = es
    BY <1>3
  <2> QED
    BY <1>3, <2>1, FS_Difference
<1>5. Cardinality(W2) <= Cardinality(W \ es) /\ Cardinality(W2) \in Nat
  BY <1>3, <1>4, FS_Subset, FS_CardinalityType
<1>6. Cardinality(es) \in Nat
  BY <1>3, FS_Subset, FS_CardinalityType
<1>7. /\ attaches \in Nat /\ attaches >= Cardinality(W) /\ captures \in BOOLEAN
      /\ captures <=> attaches > 0
  BY <1>1 DEF RegistryInv
<1>8. /\ attaches' = attaches - Cardinality(es)
      /\ captures' = (captures /\ attaches' # 0)
  BY DEF TornDown
<1>9. Cardinality(Wanting)' = Cardinality(W2)
  BY <1>2
<1>10. attaches' \in Nat /\ attaches' >= Cardinality(W2)
  BY <1>3, <1>4, <1>5, <1>6, <1>7, <1>8
<1>11. captures' <=> captures /\ attaches' # 0
  BY <1>8
<1>12. captures' \in BOOLEAN
  BY <1>8
<1>13. attaches' > 0 => attaches > 0
  BY <1>6, <1>7, <1>8
<1>14. attaches' > 0 <=> attaches' # 0
  BY <1>10
<1>15. captures' <=> attaches' > 0
  BY <1>7, <1>11, <1>13, <1>14
<1> QED
  BY <1>9, <1>10, <1>12, <1>15

LEMMA KeptType ==
    ASSUME NEW orig \in OrigTypes, NEW selector
    PROVE  Kept(orig, selector) \in OrigTypes
BY DEF Kept, OrigTypes

LEMMA AddKeeps ==
    ASSUME RegistryInv, NEW e \in Elems, NEW h \in Handler, AddHandler(e, h)
    PROVE  RegistryInv'
<1>1. h.orig \in OrigTypes
  BY DEF Handler
<1>2. PICK t \in OrigTypes : t = Kept(h.orig, h.selector)
  BY <1>1, KeptType
<1>3. PICK old \in Seq(Handler) : old = handlers[e][t] /\ InFront(old)
  BY DEF RegistryInv
<1>4. PICK new \in Seq(Handler) : new = Inserted(old, h) /\ InFront(new) /\ new # <<>>
  <2>1. PICK new : new = Inserted(old, h)
    OBVIOUS
  <2>2. InFront(new)
    BY <1>3, <2>1, InsertedFacts
  <2>3. PICK n \in 0 .. Len(old) : Placed(new, old, h, n)
    BY <1>3, <2>1, InsertedFacts
  <2>4. new \in Seq(Handler) /\ Len(new) = Len(old) + 1
    BY <2>3 DEF Placed
  <2>5. new # <<>>
    BY <2>4
  <2> QED
    BY <2>1, <2>2, <2>4, <2>5
<1>5. handlers \in [Elems -> [OrigTypes -> Seq(Handler)]]
  BY DEF RegistryInv
<1>6. handlers' = [handlers EXCEPT ![e][t] = new]
  BY <1>2, <1>3, <1>4 DEF AddHandler
<1>7. /\ handlers' \in [Elems -> [OrigTypes -> Seq(Handler)]]
      /\ handlers'[e][t] = new
      /\ \A x \in Elems, u \in OrigTypes :
            x # e \/ u # t => handlers'[x][u] = handlers[x][u]
  BY <1>5, <1>6
<1>8. \A x \in Elems, u \in OrigTypes : InFront(handlers'[x][u])
  BY <1>4, <1>7 DEF RegistryInv
<1>9. CASE old = <<>> /\ t = "focusin"
  <2>1. attaches' = attaches + 1 /\ captures' = TRUE /\ listening' = listening
    BY <1>2, <1>3, <1>9 DEF AddHandler
  <2>2. e \notin Wanting /\ Wanting' = Wanting \cup {e}
    BY <1>3, <1>4, <1>7, <1>9 DEF Wanting, OrigTypes
  <2>3. Cardinality(Wanting)' = Cardinality(Wanting) + 1
    BY <2>2, WantingCounted, FS_AddElement
  <2>4. /\ attaches' \in Nat /\ captures' \in BOOLEAN /\ attaches' > 0
        /\ attaches' >= Cardinality(Wanting)'
    BY <2>1, <2>3, WantingCounted DEF RegistryInv
  <2>5. \A x \in Elems, u \in OrigTypes :
           u # "focusin" => (listening'[x][u] <=> handlers'[x][u] # <<>>)
    BY <1>7, <1>9, <2>1 DEF RegistryInv
  <2>6. listening' \in [Elems -> [OrigTypes -> BOOLEAN]]
    BY <2>1 DEF RegistryInv
  <2> QED
    BY <1>7, <1>8, <2>1, <2>4, <2>5, <2>6 DEF RegistryInv
<1>10. CASE ~(old = <<>> /\ t = "focusin")
  <2>1. /\ listening' = [listening EXCEPT ![e][t] = t # "focusin"]
        /\ UNCHANGED <<attaches, captures>>
    BY <1>2, <1>3, <1>10 DEF AddHandler
  <2>2. Wanting' = Wanting
    <3>1. ASSUME NEW x \in Elems
          PROVE  handlers'[x]["focusin"] # <<>> <=> handlers[x]["focusin"] # <<>>
      <4>1. CASE x = e /\ t = "focusin"
        BY <1>3, <1>4, <1>7, <1>10, <4>1
      <4>2. CASE ~(x = e /\ t = "focusin")
        <5>1. "focusin" \in OrigTypes
          BY DEF OrigTypes
        <5> QED
          BY <1>7, <4>2, <5>1
      <4> QED
        BY <4>1, <4>2
    <3> QED
      BY <3>1 DEF Wanting
  <2>3. /\ listening' \in [Elems -> [OrigTypes -> BOOLEAN]]
        /\ listening'[e][t] <=> t # "focusin"
        /\ \A x \in Elems, u \in OrigTypes :
              x # e \/ u # t => listening'[x][u] = listening[x][u]
    BY <2>1 DEF RegistryInv
  <2>4. \A x \in Elems, u \in OrigTypes :
           u # "focusin" => (listening'[x][u] <=> handlers'[x][u] # <<>>)
    BY <1>4, <1>7, <2>3 DEF RegistryInv
  <2>5. attaches' >= Cardinality(Wanting)'
    BY <2>1, <2>2 DEF RegistryInv
  <2> QED
    BY <1>7, <1>8, <2>1, <2>3, <2>4, <2>5 DEF RegistryInv
<1> QED
  BY <1>9, <1>10

\* What remove leaves of the lists of an element.
LEMMA RemainingFacts ==
    ASSUME handlers \in [Elems -> [OrigTypes -> Seq(Handler)]],
           NEW e \in Elems, NEW orig, NEW selector, NEW fn, NEW t \in OrigTypes
    PROVE  LET left == Remaining(e, orig, selector, fn)
           IN  /\ left[t] \in Seq(Handler)
               /\ InFront(handlers[e][t]) => InFront(left[t])
               /\ left[t] # <<>> => handlers[e][t] # <<>>
<1>1. PICK hs \in Seq(Handler) : hs = handlers[e][t]
  OBVIOUS
<1>2. PICK D \in SUBSET (DOMAIN hs) : D = Stay(hs, orig, selector, fn)
  BY DEF Stay
<1>3. \/ Remaining(e, orig, selector, fn)[t] = hs
      \/ Remaining(e, orig, selector, fn)[t] = Only(hs, D)
  BY <1>1, <1>2 DEF Remaining
<1>4. Only(hs, D) \in Seq(Handler) /\ (hs = <<>> => Only(hs, D) = <<>>)
  BY StayFacts
<1>5. InFront(hs) => InFront(Only(hs, D))
  BY StayInFront
<1> QED
  BY <1>1, <1>3, <1>4, <1>5

LEMMA RemoveHandlersKeeps ==
    ASSUME RegistryInv, NEW e \in Elems, NEW orig, NEW selector, NEW fn,
           RemoveHandlers(e, orig, selector, fn)
    PROVE  RegistryInv'
<1>1. PICK left : left = Remaining(e, orig, selector, fn)
  OBVIOUS
<1>2. /\ handlers \in [Elems -> [OrigTypes -> Seq(Handler)]]
      /\ \A t \in OrigTypes : InFront(handlers[e][t])
  BY DEF RegistryInv
<1>3. \A t \in OrigTypes : /\ left[t] \in Seq(Handler)
                           /\ InFront(left[t])
                           /\ left[t] # <<>> => handlers[e][t] # <<>>
  BY <1>1, <1>2, RemainingFacts
<1>4. left \in [OrigTypes -> Seq(Handler)]
  <2>1. left = [t \in OrigTypes |-> left[t]]
    BY <1>1 DEF Remaining
  <2> QED
    BY <1>3, <2>1
<1>5. PICK torn : torn = {x \in {e} : TearsDown(e, orig, left)}
  OBVIOUS
<1>6. /\ handlers' = [handlers EXCEPT ![e] = left]
      /\ listening' = [listening EXCEPT ![e] = [t \in OrigTypes |-> listening[e][t] /\ left[t] # <<>>]]
      /\ TornDown(torn)
  BY <1>1, <1>5 DEF RemoveHandlers
<1>7. /\ handlers' \in [Elems -> [OrigTypes -> Seq(Handler)]]
      /\ handlers'[e] = left
      /\ \A x \in Elems \ {e} : handlers'[x] = handlers[x]
  BY <1>2, <1>4, <1>6
<1>8. torn \in SUBSET Wanting /\ Wanting' \subseteq Wanting \ torn
  <2>1. "focusin" \in OrigTypes
    BY DEF OrigTypes
  <2>2. \A x \in torn : x = e /\ handlers[e]["focusin"] # <<>> /\ left["focusin"] = <<>>
    BY <1>5 DEF TearsDown
  <2>3. torn \in SUBSET Wanting
    BY <2>2 DEF Wanting
  <2>4. ASSUME NEW x \in Elems, handlers'[x]["focusin"] # <<>>
        PROVE  handlers[x]["focusin"] # <<>> /\ x \notin torn
    BY <1>3, <1>7, <2>1, <2>2, <2>4
  <2> QED
    BY <2>3, <2>4 DEF Wanting
<1>9. /\ attaches' \in Nat /\ captures' \in BOOLEAN
      /\ captures' <=> attaches' > 0
      /\ attaches' >= Cardinality(Wanting)'
  BY <1>6, <1>8, TearsDownCounted
<1>10. listening \in [Elems -> [OrigTypes -> BOOLEAN]]
  BY DEF RegistryInv
<1>11. /\ listening' \in [Elems -> [OrigTypes -> BOOLEAN]]
       /\ \A t \in OrigTypes : listening'[e][t] <=> listening[e][t] /\ left[t] # <<>>
       /\ \A x \in Elems \ {e} : listening'[x] = listening[x]
  BY <1>6, <1>10
<1>12. ASSUME NEW x \in Elems, NEW t \in OrigTypes
       PROVE  /\ t # "focusin" => (listening'[x][t] <=> handlers'[x][t] # <<>>)
              /\ InFront(handlers'[x][t])
  <2>1. CASE x = e
    <3>1. t # "focusin" => (listening[e][t] <=> handlers[e][t] # <<>>)
      BY DEF RegistryInv
    <3> QED
      BY <1>3, <1>7, <1>11, <2>1, <3>1
  <2>2. CASE x # e
    <3>1. /\ t # "focusin" => (listening[x][t] <=> handlers[x][t] # <<>>)
          /\ InFront(handlers[x][t])
      BY DEF RegistryInv
    <3>2. handlers'[x] = handlers[x] /\ listening'[x] = listening[x]
      BY <1>7, <1>11, <2>2
    <3> QED
      BY <3>1, <3>2
  <2> QED
    BY <2>1, <2>2
<1> QED
  BY <1>7, <1>9, <1>11, <1>12 DEF RegistryInv

LEMMA CleanDataKeeps ==
    ASSUME RegistryInv, NEW es \in SUBSET Elems, CleanData(es)
    PROVE  RegistryInv'
<1>1. PICK torn : torn = {e \in es : TearsDown(e, "focusin", Remaining(e, "focusin", NoSelector, AnyFn))}
  OBVIOUS
<1>2. /\ handlers' = [e \in Elems |-> IF e \in es THEN [t \in OrigTypes |-> <<>>] ELSE handlers[e]]
      /\ listening' = [e \in Elems |-> IF e \in es THEN [t \in OrigTypes |-> FALSE] ELSE listening[e]]
      /\ TornDown(torn)
  BY <1>1 DEF CleanData
<1>3. \A e \in Elems, t \in OrigTypes :
         /\ handlers[e][t] \in Seq(Handler) /\ listening[e][t] \in BOOLEAN
         /\ handlers'[e][t] = IF e \in es THEN <<>> ELSE handlers[e][t]
         /\ listening'[e][t] = IF e \in es THEN FALSE ELSE listening[e][t]
  BY <1>2 DEF RegistryInv
<1>4. /\ handlers' \in [Elems -> [OrigTypes -> Seq(Handler)]]
      /\ listening' \in [Elems -> [OrigTypes -> BOOLEAN]]
  <2>1. [t \in OrigTypes |-> <<>>] \in [OrigTypes -> Seq(Handler)]
    OBVIOUS
  <2>2. [t \in OrigTypes |-> FALSE] \in [OrigTypes -> BOOLEAN]
    OBVIOUS
  <2> QED
    BY <1>2, <2>1, <2>2 DEF RegistryInv
<1>5. torn \in SUBSET Wanting /\ Wanting' \subseteq Wanting \ torn
  <2>1. "focusin" \in OrigTypes
    BY DEF OrigTypes
  <2>2. \A x \in torn : x \in es /\ handlers[x]["focusin"] # <<>>
    BY <1>1 DEF TearsDown
  <2>3. torn \in SUBSET Wanting
    BY <2>2 DEF Wanting
  <2>4. ASSUME NEW x \in Elems, handlers'[x]["focusin"] # <<>>
        PROVE  handlers[x]["focusin"] # <<>> /\ x \notin torn
    BY <1>3, <2>1, <2>2, <2>4
  <2> QED
    BY <2>3, <2>4 DEF Wanting
<1>6. /\ attaches' \in Nat /\ captures' \in BOOLEAN
      /\ captures' <=> attaches' > 0
      /\ attaches' >= Cardinality(Wanting)'
  BY <1>2, <1>5, TearsDownCounted
<1>7. InFront(<<>>)
  BY DEF InFront
<1>8. ASSUME NEW x \in Elems, NEW t \in OrigTypes
      PROVE  /\ t # "focusin" => (listening'[x][t] <=> handlers'[x][t] # <<>>)
             /\ InFront(handlers'[x][t])
  <2>1. CASE x \in es
    <3>1. handlers'[x][t] = <<>> /\ ~listening'[x][t]
      BY <1>3, <2>1
    <3> QED
      BY <1>7, <3>1
  <2>2. CASE x \notin es
    <3>1. handlers'[x][t] = handlers[x][t] /\ listening'[x][t] = listening[x][t]
      BY <1>3, <2>2
    <3> QED
      BY <3>1 DEF RegistryInv
  <2> QED
    BY <2>1, <2>2
<1> QED
  BY <1>4, <1>6, <1>8 DEF RegistryInv

LEMMA RegistryUnchanged == RegistryInv /\ UNCHANGED registry => RegistryInv'
BY DEF RegistryInv, registry, Wanting

\* What happens to the registry: a handler of the call is added, handlers of an
\* element are removed, elements are cleaned, or nothing.
RegistryStep ==
    \/ \E e \in Elems, orig \in OrigTypes, fn \in Fns, one \in BOOLEAN :
          \E selector \in Selectors \cup {NoSelector} :
             calls < MaxCalls /\ AddHandler(e, NewHandler(orig, selector, fn, one))
    \/ \E e \in Elems : \E orig, selector, fn : RemoveHandlers(e, orig, selector, fn)
    \/ \E es \in SUBSET Elems : CleanData(es)
    \/ UNCHANGED registry

LEMMA PageRegistry == Page => RegistryStep
<1> SUFFICES ASSUME Page PROVE RegistryStep
  OBVIOUS
<1>1. ASSUME NEW e \in Elems, NEW orig \in OrigTypes, NEW fn \in Fns, NEW one \in BOOLEAN,
             NEW selector \in Selectors \cup {NoSelector}, Bind(e, orig, selector, fn, one)
      PROVE  RegistryStep
  BY <1>1 DEF Page, PageCalls, Bind, RegistryStep
<1>2. ASSUME NEW e \in Elems, NEW orig, NEW selector, NEW fn, Off(e, orig, selector, fn)
      PROVE  RegistryStep
  BY <1>2 DEF Off, RegistryStep
<1>3. ASSUME NEW e \in Elems, NEW keepData, RemoveElem(e, keepData) PROVE RegistryStep
  <2>1. Inside(e) \in SUBSET Elems
    BY DEF Inside
  <2> QED
    BY <1>3, <2>1 DEF RemoveElem, RegistryStep
<1>4. ASSUME NEW e \in Elems, Empty(e) PROVE RegistryStep
  <2>1. Inside(e) \ {e} \in SUBSET Elems
    BY DEF Inside
  <2> QED
    BY <1>4, <2>1 DEF Empty, RegistryStep
<1>5. ASSUME NEW e \in Elems, PutBack(e) PROVE RegistryStep
  BY <1>5 DEF PutBack, RegistryStep, registry
<1>6. ASSUME NEW e \in Elems, NEW t, NEW onlyHandlers, Trigger(e, t, onlyHandlers)
      PROVE  RegistryStep
  BY <1>6 DEF Trigger, RegistryStep, registry
<1> QED
  BY <1>1, <1>2, <1>3, <1>4, <1>5, <1>6 DEF Page

LEMMA EventRegistry ==
    ASSUME [Next]_vars, \A i \in DOMAIN frames : frames[i].code = "dispatch" => frames[i].elem \in Elems,
           frames # <<>> => 1 \in DOMAIN frames
    PROVE  RegistryStep
<1>1. CASE Page
  BY <1>1, PageRegistry
<1>2. CASE Dispatch
  <2>1. PICK h : TakesOff(Top.elem, h)
    BY <1>2 DEF Dispatch
  <2>2. Top.elem \in Elems
    BY <1>2 DEF Dispatch, On, Top
  <2>3. CASE h.one
    BY <2>1, <2>2, <2>3 DEF TakesOff, RegistryStep
  <2>4. CASE ~h.one
    BY <2>1, <2>4 DEF TakesOff, RegistryStep
  <2> QED
    BY <2>3, <2>4
<1>3. CASE UNCHANGED registry
  BY <1>3 DEF RegistryStep
<1>4. Next => Page \/ Dispatch \/ UNCHANGED registry
  BY DEF Next, Native, Walk, Walked, Dispatched, Returns, Stops
<1> QED
  BY <1>1, <1>2, <1>3, <1>4 DEF vars

-----------------------------------------------------------------------------
(* The path of an element, and what runs.                                  *)

\* An element is where it was at first, or out of the page.
TreeInv ==
    /\ parent \in [Elems -> Elems \cup {NoElem}]
    /\ \A e \in Elems : parent[e] \in {Home[e], NoElem}

\* f gives the paths of the elements es, which hold all that they are in.
Climbs(es, f) ==
    /\ f \in [es -> Seq(Elems)]
    /\ \A x \in es : \/ parent[x] = NoElem /\ f[x] = <<x>>
                     \/ parent[x] # NoElem /\ parent[x] \in es /\ f[x] = <<x>> \o f[parent[x]]

\* A set of elements of which there are paths, and that is not all, has not most.
LEMMA ClimbsOn ==
    ASSUME TreeInv, NEW es \in SUBSET Elems, NEW f, Climbs(es, f), es # Elems
    PROVE  \E e \in Elems \ es : \E g : Climbs(es \cup {e}, g)
<1>1. PICK e \in Elems \ es : Home[e] \notin Elems \ es
  BY EventsAssumption
<1>2. parent[e] = NoElem \/ (parent[e] # NoElem /\ parent[e] \in es)
  BY <1>1, EventsAssumption DEF TreeInv
<1>3. PICK p : p = IF parent[e] = NoElem THEN <<e>> ELSE <<e>> \o f[parent[e]]
  OBVIOUS
<1>4. p \in Seq(Elems)
  <2>1. <<e>> \in Seq(Elems)
    OBVIOUS
  <2>2. ASSUME NEW s \in Seq(Elems) PROVE <<e>> \o s \in Seq(Elems)
    BY <2>1
  <2> QED
    BY <1>2, <1>3, <2>1, <2>2 DEF Climbs
<1>5. PICK g : g = [x \in es \cup {e} |-> IF x = e THEN p ELSE f[x]]
  OBVIOUS
<1>6. g[e] = p /\ \A x \in es : g[x] = f[x]
  BY <1>5
<1>7. g \in [es \cup {e} -> Seq(Elems)]
  BY <1>4, <1>5 DEF Climbs
<1>8. \/ parent[e] = NoElem /\ g[e] = <<e>>
      \/ parent[e] # NoElem /\ parent[e] \in es /\ g[e] = <<e>> \o g[parent[e]]
  BY <1>2, <1>3, <1>6
<1>9. ASSUME NEW x \in es
      PROVE  \/ parent[x] = NoElem /\ g[x] = <<x>>
             \/ parent[x] # NoElem /\ parent[x] \in es /\ g[x] = <<x>> \o g[parent[x]]
  BY <1>6 DEF Climbs
<1>10. Climbs(es \cup {e}, g)
  BY <1>7, <1>8, <1>9 DEF Climbs
<1> QED
  BY <1>10

LEMMA PathsExist ==
    ASSUME TreeInv
    PROVE  \E f : Climbs(Elems, f)
<1> DEFINE Missing == {n \in Nat : \E es \in SUBSET Elems : \E f :
                          Climbs(es, f) /\ n = Cardinality(Elems \ es)}
<1>1. ASSUME NEW es \in SUBSET Elems
      PROVE  IsFiniteSet(Elems \ es) /\ Cardinality(Elems \ es) \in Nat
  BY EventsAssumption, FS_Subset, FS_CardinalityType
<1>2. Climbs({}, [x \in {} |-> <<>>])
  BY DEF Climbs
<1>3. Missing # {}
  BY <1>1, <1>2
<1>4. PICK n \in Missing : \A k \in Missing : n <= k
  BY <1>3, LeastOf
<1>5. PICK es \in SUBSET Elems : \E f : Climbs(es, f) /\ n = Cardinality(Elems \ es)
  OBVIOUS
<1>6. PICK f : Climbs(es, f) /\ n = Cardinality(Elems \ es)
  BY <1>5
<1>7. ASSUME es # Elems PROVE FALSE
  <2>1. PICK e \in Elems \ es : \E g : Climbs(es \cup {e}, g)
    BY <1>6, <1>7, ClimbsOn
  <2>2. PICK g : Climbs(es \cup {e}, g)
    BY <2>1
  <2>3. /\ es \cup {e} \in SUBSET Elems
        /\ Elems \ (es \cup {e}) = (Elems \ es) \ {e}
    OBVIOUS
  <2>4. PICK k : k = Cardinality(Elems \ (es \cup {e}))
    OBVIOUS
  <2>5. k \in Nat
    BY <1>1, <2>3, <2>4
  <2>6. k \in Missing
    BY <2>2, <2>3, <2>4, <2>5
  <2>7. k = n - 1
    <3>1. PICK all : all = Elems \ es
      OBVIOUS
    <3>2. IsFiniteSet(all) /\ n = Cardinality(all) /\ e \in all /\ k = Cardinality(all \ {e})
      BY <1>1, <1>6, <2>1, <2>3, <2>4, <3>1
    <3> QED
      BY <3>2, FS_RemoveElement
  <2>8. n \in Nat /\ n <= k
    BY <1>4, <2>6
  <2> QED
    BY <2>7, <2>8
<1> QED
  BY <1>6, <1>7

LEMMA PathType ==
    ASSUME TreeInv
    PROVE  \A e \in Elems : Path(e) \in Seq(Elems)
<1> DEFINE Above(u, x) == IF parent[x] = NoElem THEN <<x>> ELSE <<x>> \o u[parent[x]]
<1>1. PICK f : Climbs(Elems, f)
  BY PathsExist
<1>2. f = [x \in Elems |-> Above(f, x)]
  <2>1. f = [x \in Elems |-> f[x]]
    BY <1>1 DEF Climbs
  <2>2. \A x \in Elems : f[x] = Above(f, x)
    BY <1>1 DEF Climbs
  <2> QED
    BY <2>1, <2>2
<1>3. Up = [x \in Elems |-> Above(Up, x)]
  BY <1>2 DEF Up
<1>4. \A x \in Elems : Up[x] = Above(Up, x)
  BY <1>3
<1>5. ASSUME {x \in Elems : Up[x] \notin Seq(Elems)} # {} PROVE FALSE
  <2>1. PICK bad \in SUBSET Elems : bad = {x \in Elems : Up[x] \notin Seq(Elems)}
    OBVIOUS
  <2>2. PICK e \in bad : Home[e] \notin bad
    BY <1>5, <2>1, EventsAssumption
  <2>3. parent[e] = NoElem \/ (parent[e] \in Elems /\ Up[parent[e]] \in Seq(Elems))
    BY <2>1, <2>2, EventsAssumption DEF TreeInv
  <2>4. Up[e] = <<e>> \/ (Up[parent[e]] \in Seq(Elems) /\ Up[e] = <<e>> \o Up[parent[e]])
    BY <1>4, <2>3
  <2>5. <<e>> \in Seq(Elems)
    OBVIOUS
  <2>6. \A s \in Seq(Elems) : <<e>> \o s \in Seq(Elems)
    BY <2>5
  <2>7. Up[e] \in Seq(Elems)
    BY <2>4, <2>5, <2>6
  <2> QED
    BY <2>1, <2>7
<1> QED
  BY <1>5 DEF Path

Walks == [code : {"walk"}, type : OrigTypes, target : Elems, path : Seq(Elems), native : BOOLEAN]
Dispatches == [code : {"dispatch"}, elem : Elems, groups : Seq(Seq(Handler))]
Frames == Walks \cup Dispatches \cup {HandlerFrame}

\* A handler runs for a dispatch, and a dispatch for a walk.
Stacked(s) ==
    \A i \in DOMAIN s :
       /\ s[i].code = "handler" => i + 1 \in DOMAIN s /\ s[i + 1].code = "dispatch" /\ s[i + 1].groups # <<>>
       /\ s[i].code = "dispatch" => i + 1 \in DOMAIN s /\ s[i + 1].code = "walk"

FramesInv == frames \in Seq(Frames) /\ Stacked(frames)

LEMMA FrameKinds ==
    ASSUME NEW f \in Frames
    PROVE  /\ f.code = "walk" <=> f \in Walks
           /\ f.code = "dispatch" <=> f \in Dispatches
           /\ f.code = "handler" <=> f = HandlerFrame
           /\ f.code \in {"walk", "dispatch", "handler"}
BY DEF Frames, Walks, Dispatches, HandlerFrame

LEMMA WalkIsFrame ==
    ASSUME NEW t \in OrigTypes, NEW e \in Elems, NEW p \in Seq(Elems), NEW n \in BOOLEAN
    PROVE  WalkFrame(t, e, p, n) \in Frames /\ WalkFrame(t, e, p, n).code = "walk"
BY DEF WalkFrame, Frames, Walks

LEMMA DispatchIsFrame ==
    ASSUME NEW e \in Elems, NEW groups \in Seq(Seq(Handler))
    PROVE  /\ DispatchFrame(e, groups) \in Frames /\ DispatchFrame(e, groups).code = "dispatch"
           /\ DispatchFrame(e, groups).elem = e /\ DispatchFrame(e, groups).groups = groups
BY DEF DispatchFrame, Frames, Dispatches

LEMMA OneOnTop ==
    ASSUME NEW T, NEW s \in Seq(T), NEW f \in T
    PROVE  /\ <<f>> \o s \in Seq(T) /\ Len(<<f>> \o s) = Len(s) + 1
           /\ (<<f>> \o s)[1] = f /\ \A i \in DOMAIN s : (<<f>> \o s)[i + 1] = s[i]
<1>1. <<f>> \in Seq(T) /\ Len(<<f>>) = 1 /\ <<f>>[1] = f
  OBVIOUS
<1>2. PICK one \in Seq(T) : one = <<f>>
  BY <1>1
<1>3. /\ one \o s \in Seq(T) /\ Len(one \o s) = Len(s) + 1
      /\ (one \o s)[1] = f /\ \A i \in DOMAIN s : (one \o s)[i + 1] = s[i]
  BY <1>1, <1>2
<1> QED
  BY <1>2, <1>3

LEMMA TwoOnTop ==
    ASSUME NEW T, NEW s \in Seq(T), NEW f \in T, NEW g \in T
    PROVE  /\ <<f, g>> \o s \in Seq(T) /\ Len(<<f, g>> \o s) = Len(s) + 2
           /\ (<<f, g>> \o s)[1] = f /\ (<<f, g>> \o s)[2] = g
           /\ \A i \in DOMAIN s : (<<f, g>> \o s)[i + 2] = s[i]
<1>1. <<f, g>> \in Seq(T) /\ Len(<<f, g>>) = 2 /\ <<f, g>>[1] = f /\ <<f, g>>[2] = g
  OBVIOUS
<1>2. PICK two \in Seq(T) : two = <<f, g>>
  BY <1>1
<1>3. /\ two \o s \in Seq(T) /\ Len(two \o s) = Len(s) + 2
      /\ (two \o s)[1] = f /\ (two \o s)[2] = g /\ \A i \in DOMAIN s : (two \o s)[i + 2] = s[i]
  BY <1>1, <1>2
<1> QED
  BY <1>2, <1>3

LEMMA TailFacts ==
    ASSUME NEW T, NEW s \in Seq(T), s # <<>>
    PROVE  /\ Head(s) = s[1] /\ s[1] \in T /\ Len(s) \in Nat \ {0} /\ DOMAIN s = 1 .. Len(s)
           /\ Tail(s) \in Seq(T) /\ Len(Tail(s)) = Len(s) - 1
           /\ \A i \in 1 .. Len(s) - 1 : Tail(s)[i] = s[i + 1]
OBVIOUS

\* What is left when the top has come to its end is stacked.
LEMMA PopStacked ==
    ASSUME FramesInv, frames # <<>>
    PROVE  Below \in Seq(Frames) /\ Stacked(Below)
<1>1. PICK s \in Seq(Frames) : s = frames /\ Stacked(s) /\ s # <<>>
  BY DEF FramesInv
<1>2. PICK r : r = Tail(s)
  OBVIOUS
<1>3. /\ r \in Seq(Frames) /\ Len(r) = Len(s) - 1 /\ \A i \in 1 .. Len(s) - 1 : r[i] = s[i + 1]
      /\ Len(s) \in Nat \ {0}
  BY <1>1, <1>2, TailFacts
<1>4. ASSUME NEW i \in DOMAIN r
      PROVE  /\ r[i].code = "handler" => i + 1 \in DOMAIN r /\ r[i + 1].code = "dispatch" /\ r[i + 1].groups # <<>>
             /\ r[i].code = "dispatch" => i + 1 \in DOMAIN r /\ r[i + 1].code = "walk"
  <2>1. i + 1 \in DOMAIN s /\ r[i] = s[i + 1] /\ (i + 2 \in DOMAIN s => r[i + 1] = s[i + 2])
    BY <1>3
  <2>2. /\ s[i + 1].code = "handler" => i + 2 \in DOMAIN s /\ s[i + 2].code = "dispatch" /\ s[i + 2].groups # <<>>
        /\ s[i + 1].code = "dispatch" => i + 2 \in DOMAIN s /\ s[i + 2].code = "walk"
    <3>1. PICK j \in DOMAIN s : j = i + 1 /\ j + 1 = i + 2
      BY <2>1, <1>3
    <3>2. /\ s[j].code = "handler" => j + 1 \in DOMAIN s /\ s[j + 1].code = "dispatch" /\ s[j + 1].groups # <<>>
          /\ s[j].code = "dispatch" => j + 1 \in DOMAIN s /\ s[j + 1].code = "walk"
      BY <1>1 DEF Stacked
    <3> QED
      BY <3>1, <3>2
  <2>3. i + 2 \in DOMAIN s => i + 1 \in DOMAIN r
    BY <1>3
  <2> QED
    BY <2>1, <2>2, <2>3
<1> QED
  BY <1>1, <1>2, <1>3, <1>4 DEF Stacked, Below

\* A walk may stand on anything.
LEMMA WalkStacked ==
    ASSUME NEW s \in Seq(Frames), Stacked(s), NEW f \in Frames, f.code = "walk"
    PROVE  <<f>> \o s \in Seq(Frames) /\ Stacked(<<f>> \o s)
<1>1. PICK r : r = <<f>> \o s
  OBVIOUS
<1>2. r \in Seq(Frames) /\ Len(r) = Len(s) + 1 /\ r[1] = f /\ \A i \in DOMAIN s : r[i + 1] = s[i]
  BY <1>1, OneOnTop
<1>3. ASSUME NEW i \in DOMAIN r
      PROVE  /\ r[i].code = "handler" => i + 1 \in DOMAIN r /\ r[i + 1].code = "dispatch" /\ r[i + 1].groups # <<>>
             /\ r[i].code = "dispatch" => i + 1 \in DOMAIN r /\ r[i + 1].code = "walk"
  <2>1. CASE i = 1
    BY <1>2, <2>1
  <2>2. CASE i # 1
    <3>1. PICK j : j = i - 1
      OBVIOUS
    <3>2. j \in DOMAIN s /\ i = j + 1 /\ i + 1 = (j + 1) + 1
      BY <1>2, <2>2, <3>1
    <3>3. r[i] = s[j] /\ (j + 1 \in DOMAIN s => r[i + 1] = s[j + 1] /\ i + 1 \in DOMAIN r)
      BY <1>2, <3>2
    <3> QED
      BY <3>2, <3>3 DEF Stacked
  <2> QED
    BY <2>1, <2>2
<1> QED
  BY <1>1, <1>2, <1>3 DEF Stacked

\* So may a handler and what stands under it, for a dispatch, on what is not one.
LEMMA PairStacked ==
    ASSUME NEW s \in Seq(Frames), Stacked(s), NEW f \in Frames, NEW g \in Frames,
           \/ f.code = "dispatch" /\ g.code = "walk"
           \/ f.code = "handler" /\ g.code = "dispatch" /\ g.groups # <<>> /\ s # <<>> /\ s[1].code = "walk"
    PROVE  <<f, g>> \o s \in Seq(Frames) /\ Stacked(<<f, g>> \o s)
<1>1. PICK r : r = <<f, g>> \o s
  OBVIOUS
<1>2. /\ r \in Seq(Frames) /\ Len(r) = Len(s) + 2 /\ r[1] = f /\ r[2] = g
      /\ \A i \in DOMAIN s : r[i + 2] = s[i]
  BY <1>1, TwoOnTop
<1>3. 2 \in DOMAIN r /\ (s # <<>> => 3 \in DOMAIN r /\ r[3] = s[1])
  BY <1>2
<1>4. ASSUME NEW i \in DOMAIN r
      PROVE  /\ r[i].code = "handler" => i + 1 \in DOMAIN r /\ r[i + 1].code = "dispatch" /\ r[i + 1].groups # <<>>
             /\ r[i].code = "dispatch" => i + 1 \in DOMAIN r /\ r[i + 1].code = "walk"
  <2>1. CASE i = 1
    BY <1>2, <1>3, <2>1
  <2>2. CASE i = 2
    BY <1>2, <1>3, <2>2
  <2>3. CASE i \notin {1, 2}
    <3>1. PICK j : j = i - 2
      OBVIOUS
    <3>2. j \in DOMAIN s /\ i = j + 2 /\ i + 1 = (j + 1) + 2
      BY <1>2, <2>3, <3>1
    <3>3. r[i] = s[j] /\ (j + 1 \in DOMAIN s => r[i + 1] = s[j + 1] /\ i + 1 \in DOMAIN r)
      BY <1>2, <3>2
    <3> QED
      BY <3>2, <3>3 DEF Stacked
  <2> QED
    BY <2>1, <2>2, <2>3
<1> QED
  BY <1>1, <1>2, <1>4 DEF Stacked

\* What stands from some place on is stacked.
LEMMA BackStacked ==
    ASSUME NEW s \in Seq(Frames), Stacked(s), NEW n \in 0 .. Len(s)
    PROVE  SubSeq(s, n + 1, Len(s)) \in Seq(Frames) /\ Stacked(SubSeq(s, n + 1, Len(s)))
<1>1. PICK r : r = SubSeq(s, n + 1, Len(s))
  OBVIOUS
<1>2. r \in Seq(Frames) /\ Len(r) = Len(s) - n /\ \A i \in 1 .. Len(s) - n : r[i] = s[i + n]
  BY <1>1, BackFacts
<1>3. ASSUME NEW i \in DOMAIN r
      PROVE  /\ r[i].code = "handler" => i + 1 \in DOMAIN r /\ r[i + 1].code = "dispatch" /\ r[i + 1].groups # <<>>
             /\ r[i].code = "dispatch" => i + 1 \in DOMAIN r /\ r[i + 1].code = "walk"
  <2>1. PICK j : j = i + n
    OBVIOUS
  <2>2. j \in DOMAIN s /\ (i + 1) + n = j + 1 /\ r[i] = s[j]
    BY <1>2, <2>1
  <2>3. j + 1 \in DOMAIN s => i + 1 \in DOMAIN r /\ r[i + 1] = s[j + 1]
    <3>1. j + 1 \in DOMAIN s => i + 1 \in 1 .. Len(s) - n
      <4>1. i \in Nat \ {0}
        BY <1>2
      <4>2. j + 1 \in DOMAIN s => j + 1 <= Len(s)
        OBVIOUS
      <4> QED
        BY <2>1, <4>1, <4>2
    <3>2. i + 1 \in 1 .. Len(s) - n => r[i + 1] = s[(i + 1) + n]
      BY <1>2
    <3> QED
      BY <1>2, <2>2, <3>1, <3>2
  <2>4. /\ s[j].code = "handler" => j + 1 \in DOMAIN s /\ s[j + 1].code = "dispatch" /\ s[j + 1].groups # <<>>
        /\ s[j].code = "dispatch" => j + 1 \in DOMAIN s /\ s[j + 1].code = "walk"
    BY <2>2 DEF Stacked
  <2> QED
    BY <2>2, <2>3, <2>4
<1> QED
  BY <1>1, <1>2, <1>3 DEF Stacked

\* Positions of a list are finitely many numbers.
LEMMA Positions ==
    ASSUME NEW T, NEW s \in Seq(T), NEW D \in SUBSET (DOMAIN s)
    PROVE  D \in SUBSET Nat /\ IsFiniteSet(D) /\ \A k \in D : s[k] \in T
<1>1. DOMAIN s = 1 .. Len(s) /\ Len(s) \in Nat
  OBVIOUS
<1>2. IsFiniteSet(1 .. Len(s))
  BY <1>1, FS_Interval
<1>3. D \in SUBSET (1 .. Len(s))
  BY <1>1
<1>4. IsFiniteSet(D)
  BY <1>2, <1>3, FS_Subset
<1> QED
  BY <1>1, <1>3, <1>4

LEMMA LeftFacts ==
    ASSUME NEW T, NEW groups \in Seq(T)
    PROVE  /\ Left(groups) \in Seq(T)
           /\ \E s \in [DOMAIN Left(groups) -> DOMAIN groups] :
                 /\ \A i \in DOMAIN Left(groups) : Left(groups)[i] = groups[s[i]] /\ Left(groups)[i] # <<>>
                 /\ \A i, j \in DOMAIN Left(groups) : i < j => s[i] < s[j]
<1>1. PICK D : D = {i \in DOMAIN groups : groups[i] # <<>>}
  OBVIOUS
<1>2. D \in SUBSET Nat /\ D \subseteq DOMAIN groups /\ (\A k \in D : groups[k] \in T /\ groups[k] # <<>>)
  BY <1>1
<1>3. IsFiniteSet(D)
  BY <1>2, Positions
<1>4. PICK left : left = Only(groups, D)
  OBVIOUS
<1>5. left = Left(groups)
  BY <1>1, <1>4 DEF Left
<1>6. /\ left \in Seq(T)
      /\ \E s \in [DOMAIN left -> D] :
            /\ \A i \in DOMAIN left : left[i] = groups[s[i]]
            /\ \A i, j \in DOMAIN left : i < j => s[i] < s[j]
  BY <1>2, <1>3, <1>4, OnlyFacts
<1>7. PICK s \in [DOMAIN left -> D] :
         /\ \A i \in DOMAIN left : left[i] = groups[s[i]]
         /\ \A i, j \in DOMAIN left : i < j => s[i] < s[j]
  BY <1>6
<1>8. s \in [DOMAIN left -> DOMAIN groups]
  BY <1>2
<1>9. \A i \in DOMAIN left : left[i] # <<>>
  BY <1>2, <1>7
<1> QED
  BY <1>5, <1>6, <1>7, <1>8, <1>9

\* What is queued are lists of handlers of the element, each as part of its list.
LEMMA QueueFacts ==
    ASSUME NEW e \in Elems, NEW t \in OrigTypes, NEW target \in Elems,
           Path(target) \in Seq(Elems), handlers[e][t] \in Seq(Handler)
    PROVE  LET queue == HandlerQueue(e, t, target)
           IN  /\ queue \in Seq(Seq(Handler))
               /\ \A g \in DOMAIN queue : \E C \in SUBSET (DOMAIN handlers[e][t]) :
                     queue[g] = Only(handlers[e][t], C)
<1>1. PICK hs \in Seq(Handler) : hs = handlers[e][t]
  OBVIOUS
<1>2. PICK path \in Seq(Elems) : path = Path(target)
  OBVIOUS
<1>3. PICK below : below = Only(path, {i \in DOMAIN path : \A j \in 1 .. i : path[j] # e})
  OBVIOUS
<1>4. Len(below) \in Nat
  <2>1. PICK D \in SUBSET (DOMAIN path) : D = {i \in DOMAIN path : \A j \in 1 .. i : path[j] # e}
    OBVIOUS
  <2>2. IsFiniteSet(D) /\ D \in SUBSET Nat /\ \A k \in D : path[k] \in Elems
    BY Positions
  <2>3. below \in Seq(Elems)
    BY <1>3, <2>1, <2>2, OnlyFacts
  <2> QED
    BY <2>3
<1> DEFINE Called(i) ==
             {j \in DOMAIN hs : IF i <= Len(below)
                                THEN Delegated(hs[j]) /\ below[i] \in Matching[hs[j].selector]
                                ELSE ~Delegated(hs[j])}
<1>5. \A i : Called(i) \in SUBSET (DOMAIN hs)
  OBVIOUS
<1>6. PICK groups : groups = [i \in 1 .. Len(below) + 1 |-> Only(hs, Called(i))]
  OBVIOUS
<1>7. PICK queue : queue = HandlerQueue(e, t, target)
  OBVIOUS
<1>8. queue = Left(groups)
  BY <1>1, <1>2, <1>3, <1>6, <1>7 DEF HandlerQueue
<1> HIDE DEF Called
<1>9. \A i \in DOMAIN groups : groups[i] = Only(hs, Called(i))
  BY <1>6
<1>10. groups \in Seq(Seq(Handler))
  <2>1. ASSUME NEW C \in SUBSET (DOMAIN hs) PROVE Only(hs, C) \in Seq(Handler)
    <3>1. IsFiniteSet(C) /\ C \in SUBSET Nat /\ \A k \in C : hs[k] \in Handler
      BY Positions
    <3> QED
      BY <3>1, OnlyFacts
  <2>2. \A i \in 1 .. Len(below) + 1 : Only(hs, Called(i)) \in Seq(Handler)
    BY <1>5, <2>1
  <2> QED
    BY <1>4, <1>6, <2>2
<1>11. /\ queue \in Seq(Seq(Handler))
       /\ \E s \in [DOMAIN queue -> DOMAIN groups] : \A i \in DOMAIN queue : queue[i] = groups[s[i]]
  BY <1>8, <1>10, LeftFacts
<1>12. \A g \in DOMAIN queue : \E C \in SUBSET (DOMAIN hs) : queue[g] = Only(hs, C)
  <2>1. PICK s \in [DOMAIN queue -> DOMAIN groups] : \A i \in DOMAIN queue : queue[i] = groups[s[i]]
    BY <1>11
  <2>2. \A g \in DOMAIN queue : queue[g] = Only(hs, Called(s[g]))
    BY <1>9, <2>1
  <2> QED
    BY <1>5, <2>2
<1> QED
  BY <1>1, <1>7, <1>11, <1>12

-----------------------------------------------------------------------------
(* Types, and the properties of the registry, along every step.            *)

EventsInv ==
    /\ RegistryInv
    /\ TreeInv
    /\ FramesInv
    /\ calls \in 0 .. MaxCalls
    /\ ran \in [1 .. MaxCalls -> 0 .. 2]
    /\ queuedTwice \subseteq 1 .. MaxCalls

LEMMA TopFacts ==
    ASSUME FramesInv, frames # <<>>
    PROVE  /\ 1 \in DOMAIN frames /\ Top = frames[1] /\ Top \in Frames
           /\ Len(frames) \in Nat \ {0} /\ DOMAIN frames = 1 .. Len(frames)
           /\ Below \in Seq(Frames) /\ Stacked(Below) /\ Len(Below) = Len(frames) - 1
           /\ \A i \in 1 .. Len(frames) - 1 : Below[i] = frames[i + 1]
<1>1. /\ Head(frames) = frames[1] /\ frames[1] \in Frames /\ Len(frames) \in Nat \ {0}
      /\ DOMAIN frames = 1 .. Len(frames)
      /\ Tail(frames) \in Seq(Frames) /\ Len(Tail(frames)) = Len(frames) - 1
      /\ \A i \in 1 .. Len(frames) - 1 : Tail(frames)[i] = frames[i + 1]
  BY TailFacts DEF FramesInv
<1> QED
  BY <1>1, PopStacked DEF Top, Below

LEMMA NewHandlerType ==
    ASSUME calls \in 0 .. MaxCalls, calls < MaxCalls, NEW orig \in OrigTypes, NEW fn \in Fns,
           NEW one \in BOOLEAN, NEW selector \in Selectors \cup {NoSelector}
    PROVE  NewHandler(orig, selector, fn, one) \in Handler
<1>1. calls + 1 \in 1 .. MaxCalls
  BY EventsAssumption
<1> QED
  BY <1>1 DEF NewHandler, Handler

LEMMA IdsType ==
    ASSUME NEW groups \in Seq(Seq(Handler))
    PROVE  Ids(groups) \subseteq 1 .. MaxCalls
<1>1. ASSUME NEW id \in Ids(groups) PROVE id \in 1 .. MaxCalls
  <2>1. PICK g \in DOMAIN groups : id \in IdsIn(groups[g])
    BY DEF Ids, Range
  <2>2. groups[g] \in Seq(Handler)
    OBVIOUS
  <2>3. PICK i \in DOMAIN groups[g] : id = groups[g][i].id
    BY <2>1 DEF IdsIn, Range
  <2>4. groups[g][i] \in Handler
    BY <2>2
  <2> QED
    BY <2>3, <2>4 DEF Handler
<1> QED
  BY <1>1

\* A walk that goes on calls handlers of an element on its path.
WalksOn(e, t, target, queue, rest) ==
    /\ queue = HandlerQueue(e, t, target)
    /\ frames' = <<DispatchFrame(e, queue), rest>> \o Below
    /\ queuedTwice' = queuedTwice \cup (Pending \cap Ids(queue)) \cup Repeated(queue)

LEMMA WalkStep ==
    ASSUME EventsInv, Walk
    PROVE  /\ \E e \in Elems, t \in OrigTypes, target \in Elems,
                 queue \in Seq(Seq(Handler)), rest \in Walks : WalksOn(e, t, target, queue, rest)
           /\ frames # <<>> /\ frames[1].code = "walk"
<1>1. frames # <<>> /\ Top.code = "walk" /\ Top \in Frames /\ Top = frames[1]
  BY TopFacts DEF Walk, On, EventsInv
<1>2. PICK top \in Walks : top = Top
  BY <1>1, FrameKinds
<1>3. /\ top.code = "walk" /\ top.type \in OrigTypes /\ top.target \in Elems /\ top.path \in Seq(Elems)
      /\ top.native \in BOOLEAN
      /\ top = [code |-> top.code, type |-> top.type, target |-> top.target, path |-> top.path,
                native |-> top.native]
  BY DEF Walks
<1>4. PICK i \in Hears(top) :
         LET queue == HandlerQueue(top.path[i], TypeAt(top, i), top.target)
             rest == [top EXCEPT !.path = SubSeq(@, i + 1, Len(@)), !.type = TypeAt(top, i + 1)]
         IN  /\ frames' = <<DispatchFrame(top.path[i], queue), rest>> \o Below
             /\ queuedTwice' = queuedTwice \cup (Pending \cap Ids(queue)) \cup Repeated(queue)
  BY <1>2 DEF Walk
<1>5. i \in DOMAIN top.path /\ i \in 1 .. Len(top.path) /\ top.path[i] \in Elems
  BY <1>3 DEF Hears
<1>6. SubSeq(top.path, i + 1, Len(top.path)) \in Seq(Elems)
  BY <1>3, <1>5, BackFacts
<1>12. PICK now \in OrigTypes : now = TypeAt(top, i)
  BY <1>3 DEF TypeAt, OrigTypes
<1>13. PICK later \in OrigTypes : later = TypeAt(top, i + 1)
  BY <1>3 DEF TypeAt, OrigTypes
<1>7. PICK rest : rest = [top EXCEPT !.path = SubSeq(@, i + 1, Len(@)), !.type = later]
  OBVIOUS
<1>8. rest \in Walks
  BY <1>6, <1>7, <1>13 DEF Walks
<1>9. PICK queue : queue = HandlerQueue(top.path[i], now, top.target)
  OBVIOUS
<1>10. queue \in Seq(Seq(Handler))
  <2>1. /\ handlers[top.path[i]][now] \in Seq(Handler)
        /\ Path(top.target) \in Seq(Elems)
    BY <1>3, <1>5, <1>12, PathType DEF EventsInv, RegistryInv
  <2> QED
    BY <1>3, <1>5, <1>9, <1>12, <2>1, QueueFacts
<1>11. WalksOn(top.path[i], now, top.target, queue, rest)
  BY <1>4, <1>7, <1>9, <1>12, <1>13 DEF WalksOn
<1> QED
  BY <1>1, <1>3, <1>5, <1>8, <1>10, <1>11, <1>12

\* A dispatch goes on with the first handler that is left.
GoesOn(e, groups, next, h) ==
    /\ frames[1] \in Dispatches /\ e = frames[1].elem /\ groups = Left(frames[1].groups)
    /\ groups # <<>> /\ groups[1] # <<>> /\ h = groups[1][1]
    /\ next = <<Tail(groups[1])>> \o Tail(groups)
    /\ frames' = <<HandlerFrame, DispatchFrame(e, next)>> \o Below
    /\ TakesOff(e, h)
    /\ ran' = [ran EXCEPT ![h.id] = IF ~h.one \/ @ = 2 THEN @ ELSE @ + 1]

LEMMA DispatchStep ==
    ASSUME EventsInv, Dispatch
    PROVE  /\ \E e \in Elems, groups \in Seq(Seq(Handler)), next \in Seq(Seq(Handler)), h \in Handler :
                 GoesOn(e, groups, next, h)
           /\ frames # <<>> /\ 2 \in DOMAIN frames /\ frames[2].code = "walk"
           /\ Below # <<>> /\ Below[1].code = "walk"
<1>1. frames # <<>> /\ Top.code = "dispatch" /\ Top \in Frames /\ Top = frames[1] /\ 1 \in DOMAIN frames
  BY TopFacts DEF Dispatch, On, EventsInv
<1>2. PICK top \in Dispatches : top = Top
  BY <1>1, FrameKinds
<1>3. top.elem \in Elems /\ top.groups \in Seq(Seq(Handler))
  BY DEF Dispatches
<1>4. PICK groups : groups = Left(top.groups)
  OBVIOUS
<1>5. /\ groups \in Seq(Seq(Handler)) /\ groups # <<>>
      /\ \A i \in DOMAIN groups : groups[i] # <<>>
  BY <1>2, <1>3, <1>4, LeftFacts DEF Dispatch
<1>6. groups[1] \in Seq(Handler) /\ groups[1] # <<>> /\ Head(groups) = groups[1] /\ Tail(groups) \in Seq(Seq(Handler))
  BY <1>5, TailFacts
<1>7. Head(groups[1]) = groups[1][1] /\ groups[1][1] \in Handler /\ Tail(groups[1]) \in Seq(Handler)
  BY <1>6, TailFacts
<1>8. PICK next : next = <<Tail(groups[1])>> \o Tail(groups)
  OBVIOUS
<1>9. next \in Seq(Seq(Handler))
  BY <1>6, <1>7, <1>8, OneOnTop
<1>10. GoesOn(top.elem, groups, next, groups[1][1])
  <2>1. /\ frames' = <<HandlerFrame,
                       DispatchFrame(top.elem, <<Tail(Head(groups))>> \o Tail(groups))>> \o Below
        /\ TakesOff(top.elem, Head(Head(groups)))
        /\ ran' = [ran EXCEPT ![Head(Head(groups)).id] =
                     IF ~Head(Head(groups)).one \/ @ = 2 THEN @ ELSE @ + 1]
    BY <1>2, <1>4 DEF Dispatch
  <2>2. frames[1] \in Dispatches /\ top.elem = frames[1].elem /\ groups = Left(frames[1].groups)
    BY <1>1, <1>2, <1>4
  <2> QED
    BY <1>5, <1>6, <1>7, <1>8, <2>1, <2>2 DEF GoesOn
<1>11. 2 \in DOMAIN frames /\ frames[2].code = "walk"
  <2>1. 1 + 1 \in DOMAIN frames /\ frames[1 + 1].code = "walk"
    BY <1>1 DEF EventsInv, FramesInv, Stacked
  <2> QED
    BY <2>1
<1>12. Below # <<>> /\ Below[1].code = "walk"
  <2>1. /\ Len(frames) \in Nat /\ DOMAIN frames = 1 .. Len(frames) /\ Below \in Seq(Frames)
        /\ Len(Below) = Len(frames) - 1
        /\ \A i \in 1 .. Len(frames) - 1 : Below[i] = frames[i + 1]
    BY <1>1, TopFacts DEF EventsInv
  <2>2. 1 \in 1 .. Len(frames) - 1
    BY <1>11, <2>1
  <2> QED
    BY <1>11, <2>1, <2>2
<1> QED
  BY <1>1, <1>3, <1>5, <1>7, <1>9, <1>10, <1>11, <1>12

LEMMA TreeStep ==
    ASSUME TreeInv, [Next]_vars
    PROVE  TreeInv'
<1>1. CASE UNCHANGED parent
  BY <1>1 DEF TreeInv
<1>2. ASSUME NEW e \in Elems, parent' = [parent EXCEPT ![e] = NoElem] PROVE TreeInv'
  BY <1>2 DEF TreeInv
<1>3. ASSUME NEW e \in Elems, parent' = [parent EXCEPT ![e] = Home[e]] PROVE TreeInv'
  BY <1>3, EventsAssumption DEF TreeInv
<1>4. ASSUME NEW e \in Elems, Empty(e) PROVE TreeInv'
  BY <1>4 DEF TreeInv, Empty
<1>5. CASE Page
  BY <1>1, <1>2, <1>3, <1>4, <1>5 DEF Page, Bind, Off, RemoveElem, PutBack, Trigger
<1>6. Next => Page \/ UNCHANGED parent
  BY DEF Next, Native, Walk, Walked, Dispatch, Dispatched, Returns, Stops
<1> QED
  BY <1>1, <1>5, <1>6 DEF vars

IsWalk(f) == f.code = "walk"

\* Nothing, one walk, or two are put on the stack.
WalksOnTop ==
    \/ UNCHANGED frames
    \/ \E f \in Frames : IsWalk(f) /\ frames' = <<f>> \o frames
    \/ \E f, g \in Frames : IsWalk(f) /\ IsWalk(g) /\ frames' = <<f>> \o (<<g>> \o frames)

LEMMA SentOnTop ==
    ASSUME EventsInv, NEW e \in Elems, NEW t \in OrigTypes, frames' = Sent(e, t)
    PROVE  WalksOnTop
<1>1. Path(e) \in Seq(Elems) /\ <<e>> \in Seq(Elems)
  BY PathType DEF EventsInv
<1>2. PICK through \in Frames : through = WalkFrame("focusin", e, Path(e), FALSE) /\ IsWalk(through)
  BY <1>1, WalkIsFrame DEF OrigTypes, IsWalk
<1>3. PICK click \in Frames : click = WalkFrame(t, e, Path(e), TRUE) /\ IsWalk(click)
  BY <1>1, WalkIsFrame DEF IsWalk
<1>4. PICK target \in Frames : target = WalkFrame(t, e, <<e>>, TRUE) /\ IsWalk(target)
  BY <1>1, WalkIsFrame DEF IsWalk
<1>5. \/ frames' = <<click>> \o frames
      \/ frames' = <<target>> \o frames
      \/ frames' = <<through>> \o (<<target>> \o frames)
  BY <1>2, <1>3, <1>4 DEF Sent
<1> QED
  BY <1>2, <1>3, <1>4, <1>5 DEF WalksOnTop

LEMMA TriggerOnTop ==
    ASSUME EventsInv, NEW e \in Elems, NEW t \in OrigTypes, NEW only \in BOOLEAN, Trigger(e, t, only)
    PROVE  WalksOnTop
<1>1. CASE t = "focus" /\ Focus(e)
  <2>1. CASE InPage(e)
    BY <1>1, <2>1, SentOnTop DEF Focus
  <2>2. CASE ~InPage(e)
    BY <1>1, <2>2 DEF Focus, WalksOnTop
  <2> QED
    BY <2>1, <2>2
<1>2. CASE frames' = <<WalkFrame(t, e, EventPath(e, t, only), FALSE)>> \o frames
  <2>1. PICK path \in Seq(Elems) : path = Path(e)
    BY PathType DEF EventsInv
  <2>2. <<e>> \o path \in Seq(Elems)
    BY OneOnTop
  <2>3. PICK p \in Seq(Elems) : p = EventPath(e, t, only)
    <3>1. <<e>> \in Seq(Elems)
      OBVIOUS
    <3> QED
      BY <2>1, <2>2, <3>1 DEF EventPath
  <2>4. PICK f \in Frames : f = WalkFrame(t, e, p, FALSE) /\ IsWalk(f)
    BY WalkIsFrame DEF IsWalk
  <2> QED
    BY <1>2, <2>3, <2>4 DEF WalksOnTop
<1> QED
  BY <1>1, <1>2 DEF Trigger

LEMMA OnTopStacked ==
    ASSUME EventsInv, WalksOnTop
    PROVE  FramesInv'
<1>1. PICK fs \in Seq(Frames) : fs = frames /\ Stacked(fs)
  BY DEF EventsInv, FramesInv
<1>2. CASE UNCHANGED frames
  BY <1>1, <1>2 DEF FramesInv, Stacked
<1>3. ASSUME NEW f \in Frames, IsWalk(f), frames' = <<f>> \o frames PROVE FramesInv'
  <2>1. <<f>> \o fs \in Seq(Frames) /\ Stacked(<<f>> \o fs)
    BY <1>1, <1>3, WalkStacked DEF IsWalk
  <2> QED
    BY <1>1, <1>3, <2>1 DEF FramesInv, Stacked
<1>4. ASSUME NEW f \in Frames, NEW g \in Frames, IsWalk(f), IsWalk(g),
             frames' = <<f>> \o (<<g>> \o frames)
      PROVE  FramesInv'
  <2>1. PICK gs \in Seq(Frames) : gs = <<g>> \o fs /\ Stacked(gs)
    BY <1>1, <1>4, WalkStacked DEF IsWalk
  <2>2. <<f>> \o gs \in Seq(Frames) /\ Stacked(<<f>> \o gs)
    BY <1>4, <2>1, WalkStacked DEF IsWalk
  <2> QED
    BY <1>1, <1>4, <2>1, <2>2 DEF FramesInv, Stacked
<1> QED
  BY <1>2, <1>3, <1>4 DEF WalksOnTop

\* A handler that stops its event, and what is left of the dispatch and of the walk.
StopsWith(d, left, rest) ==
    /\ frames[2] = d
    /\ left = <<>> \/ (d.groups # <<>> /\ left = <<d.groups[1]>>)
    /\ frames' = <<DispatchFrame(d.elem, left), rest>> \o SubSeq(frames, 4, Len(frames))

LEMMA StopsStep ==
    ASSUME EventsInv, NEW immediate \in BOOLEAN, Stops(immediate)
    PROVE  /\ \E d \in Dispatches, left \in Seq(Seq(Handler)), rest \in Walks : StopsWith(d, left, rest)
           /\ 3 \in 1 .. Len(frames)
<1>1. /\ frames # <<>> /\ Top.code = "handler" /\ Top = frames[1]
      /\ Len(frames) \in Nat \ {0} /\ DOMAIN frames = 1 .. Len(frames) /\ 1 \in DOMAIN frames
      /\ Below \in Seq(Frames) /\ Len(Below) = Len(frames) - 1
      /\ \A i \in 1 .. Len(frames) - 1 : Below[i] = frames[i + 1]
      /\ frames \in Seq(Frames)
  BY TopFacts DEF Stops, On, EventsInv, FramesInv
<1>2. 2 \in DOMAIN frames /\ frames[2].code = "dispatch" /\ frames[2].groups # <<>>
  <2>1. 1 + 1 \in DOMAIN frames /\ frames[1 + 1].code = "dispatch" /\ frames[1 + 1].groups # <<>>
    BY <1>1 DEF EventsInv, FramesInv, Stacked
  <2> QED
    BY <2>1
<1>3. 3 \in DOMAIN frames /\ frames[3].code = "walk"
  <2>1. 2 + 1 \in DOMAIN frames /\ frames[2 + 1].code = "walk"
    BY <1>2 DEF EventsInv, FramesInv, Stacked
  <2> QED
    BY <2>1
<1>4. PICK d \in Dispatches : d = frames[2] /\ d.groups # <<>>
  BY <1>1, <1>2, FrameKinds
<1>5. PICK walk \in Walks : walk = frames[3]
  BY <1>1, <1>3, FrameKinds
<1>6. Below # <<>> /\ Head(Below) = d
  <2>1. 1 \in 1 .. Len(frames) - 1
    BY <1>1, <1>2
  <2>2. Below # <<>> /\ Below[1] = d
    BY <1>1, <1>4, <2>1
  <2> QED
    BY <1>1, <2>2, TailFacts
<1>7. /\ d.groups \in Seq(Seq(Handler)) /\ d.elem \in Elems
      /\ d = [code |-> "dispatch", elem |-> d.elem, groups |-> d.groups]
  BY DEF Dispatches
<1>8. Head(d.groups) = d.groups[1] /\ d.groups[1] \in Seq(Handler)
  BY <1>4, <1>7, TailFacts
<1>9. PICK left : left = IF immediate THEN <<>> ELSE <<d.groups[1]>>
  OBVIOUS
<1>10. left \in Seq(Seq(Handler)) /\ (left = <<>> \/ left = <<d.groups[1]>>)
  BY <1>8, <1>9
<1>11. PICK rest : rest = [walk EXCEPT !.path = <<>>]
  OBVIOUS
<1>12. rest \in Walks
  <2>1. rest = [code |-> "walk", type |-> walk.type, target |-> walk.target, path |-> <<>>,
                native |-> walk.native]
    BY <1>11 DEF Walks
  <2>2. PICK none : none = <<>>
    OBVIOUS
  <2>3. none \in Seq(Elems)
    BY <2>2
  <2>4. walk.type \in OrigTypes /\ walk.target \in Elems /\ walk.native \in BOOLEAN
    BY DEF Walks
  <2> QED
    BY <2>1, <2>2, <2>3, <2>4 DEF Walks
<1>13. frames' = <<[frames[2] EXCEPT !.groups = left], [frames[3] EXCEPT !.path = <<>>]>>
                 \o SubSeq(frames, 4, Len(frames))
  BY <1>6, <1>8, <1>9 DEF Stops
<1>14. [d EXCEPT !.groups = left] = DispatchFrame(d.elem, left)
  BY <1>7 DEF DispatchFrame
<1>15. StopsWith(d, left, rest)
  BY <1>4, <1>5, <1>10, <1>11, <1>13, <1>14 DEF StopsWith
<1> QED
  BY <1>1, <1>3, <1>10, <1>12, <1>15

LEMMA FramesStep ==
    ASSUME EventsInv, [Next]_vars
    PROVE  FramesInv'
<1>1. CASE UNCHANGED frames
  BY <1>1 DEF EventsInv, FramesInv, Stacked
<1>2. ASSUME frames # <<>>, frames' = Below PROVE FramesInv'
  <2>1. frames' \in Seq(Frames) /\ Stacked(frames')
    BY <1>2, TopFacts DEF EventsInv
  <2> QED
    BY <2>1 DEF FramesInv
<1>3. ASSUME NEW e \in Elems, NEW t \in OrigTypes, NEW only \in BOOLEAN, Trigger(e, t, only)
      PROVE  FramesInv'
  BY <1>3, TriggerOnTop, OnTopStacked
<1>4. CASE Walk
  <2>1. PICK e \in Elems, t \in OrigTypes, target \in Elems, queue \in Seq(Seq(Handler)), rest \in Walks :
           WalksOn(e, t, target, queue, rest)
    BY <1>4, WalkStep
  <2>2. Below \in Seq(Frames) /\ Stacked(Below)
    BY <1>4, WalkStep, TopFacts DEF EventsInv
  <2>3. PICK d \in Frames : d = DispatchFrame(e, queue) /\ d.code = "dispatch"
    BY DispatchIsFrame
  <2>4. rest \in Frames /\ rest.code = "walk"
    BY DEF Walks, Frames
  <2>5. frames' = <<d, rest>> \o Below
    BY <2>1, <2>3 DEF WalksOn
  <2>6. frames' \in Seq(Frames) /\ Stacked(frames')
    BY <2>2, <2>3, <2>4, <2>5, PairStacked
  <2> QED
    BY <2>6 DEF FramesInv
<1>5. CASE Dispatch
  <2>1. PICK e \in Elems, groups \in Seq(Seq(Handler)), next \in Seq(Seq(Handler)), h \in Handler :
           GoesOn(e, groups, next, h)
    BY <1>5, DispatchStep
  <2>2. Below \in Seq(Frames) /\ Stacked(Below) /\ Below # <<>> /\ Below[1].code = "walk"
    BY <1>5, DispatchStep, TopFacts DEF EventsInv
  <2>3. PICK d \in Frames : d = DispatchFrame(e, next) /\ d.code = "dispatch" /\ d.groups = next
    BY DispatchIsFrame
  <2>4. next # <<>>
    <3>1. groups[1] \in Seq(Handler) /\ groups # <<>>
      BY <2>1 DEF GoesOn
    <3>2. Tail(groups[1]) \in Seq(Handler) /\ Tail(groups) \in Seq(Seq(Handler))
      BY <2>1, <3>1, TailFacts DEF GoesOn
    <3>3. Len(next) = Len(Tail(groups)) + 1 /\ Len(Tail(groups)) \in Nat
      BY <2>1, <3>2, OneOnTop DEF GoesOn
    <3>4. Len(next) # 0
      BY <3>3
    <3> QED
      BY <3>4
  <2>5. HandlerFrame \in Frames /\ HandlerFrame.code = "handler"
    BY DEF Frames, HandlerFrame
  <2>6. frames' = <<HandlerFrame, d>> \o Below
    BY <2>1, <2>3 DEF GoesOn
  <2>7. frames' \in Seq(Frames) /\ Stacked(frames')
    BY <2>2, <2>3, <2>4, <2>5, <2>6, PairStacked
  <2> QED
    BY <2>7 DEF FramesInv
<1>6. ASSUME NEW immediate \in BOOLEAN, Stops(immediate) PROVE FramesInv'
  <2>1. PICK d \in Dispatches, left \in Seq(Seq(Handler)), rest \in Walks : StopsWith(d, left, rest)
    BY <1>6, StopsStep
  <2>2. PICK f \in Frames : f = DispatchFrame(d.elem, left) /\ f.code = "dispatch"
    BY DispatchIsFrame DEF Dispatches
  <2>3. PICK s : s = SubSeq(frames, 3 + 1, Len(frames))
    OBVIOUS
  <2>4. s \in Seq(Frames) /\ Stacked(s)
    BY <1>6, <2>3, StopsStep, BackStacked DEF EventsInv, FramesInv
  <2>5. rest \in Frames /\ rest.code = "walk"
    BY DEF Walks, Frames
  <2>6. frames' = <<f, rest>> \o s
    BY <2>1, <2>2, <2>3 DEF StopsWith
  <2>7. frames' \in Seq(Frames) /\ Stacked(frames')
    BY <2>2, <2>4, <2>5, <2>6, PairStacked
  <2> QED
    BY <2>7 DEF FramesInv
<1>7. CASE Page
  BY <1>1, <1>3, <1>7 DEF Page, Bind, Off, RemoveElem, Empty, PutBack
<1>8. ASSUME NEW e \in Elems, NEW t \in OrigTypes, Native(e, t) PROVE FramesInv'
  BY <1>8, SentOnTop, OnTopStacked DEF Native
<1>9. CASE Walked \/ Dispatched \/ Returns
  BY <1>2, <1>9 DEF Walked, Dispatched, Returns, On
<1> QED
  BY <1>1, <1>4, <1>5, <1>6, <1>7, <1>8, <1>9 DEF Next, vars

LEMMA EventsStep == EventsInv /\ [Next]_vars => EventsInv'
<1> SUFFICES ASSUME EventsInv, [Next]_vars PROVE EventsInv'
  OBVIOUS
<1>1. RegistryInv'
  <2>1. \A i \in DOMAIN frames : frames[i].code = "dispatch" => frames[i].elem \in Elems
    <3>1. ASSUME NEW i \in DOMAIN frames, frames[i].code = "dispatch" PROVE frames[i].elem \in Elems
      <4>1. frames[i] \in Frames
        BY DEF EventsInv, FramesInv
      <4>2. frames[i] \in Dispatches
        BY <3>1, <4>1, FrameKinds
      <4> QED
        BY <4>2 DEF Dispatches
    <3> QED
      BY <3>1
  <2>2. frames # <<>> => 1 \in DOMAIN frames
    BY TopFacts DEF EventsInv
  <2>3. RegistryStep
    BY <2>1, <2>2, EventRegistry
  <2>4. ASSUME NEW e \in Elems, NEW orig \in OrigTypes, NEW fn \in Fns, NEW one \in BOOLEAN,
               NEW selector \in Selectors \cup {NoSelector},
               calls < MaxCalls, AddHandler(e, NewHandler(orig, selector, fn, one))
        PROVE  RegistryInv'
    <3>1. PICK h \in Handler : h = NewHandler(orig, selector, fn, one)
      BY <2>4, NewHandlerType DEF EventsInv
    <3> QED
      BY <2>4, <3>1, AddKeeps DEF EventsInv
  <2> QED
    BY <2>3, <2>4, RemoveHandlersKeeps, CleanDataKeeps, RegistryUnchanged DEF RegistryStep, EventsInv
<1>2. TreeInv'
  BY TreeStep DEF EventsInv
<1>3. FramesInv'
  BY FramesStep
<1>4. calls' \in 0 .. MaxCalls
  <2>1. calls' = calls \/ (calls < MaxCalls /\ calls' = calls + 1)
    BY DEF Next, vars, Page, PageCalls, Native, Walk, Walked, Dispatch, Dispatched, Returns, Stops
  <2> QED
    BY <2>1, EventsAssumption DEF EventsInv
<1>5. ran' \in [1 .. MaxCalls -> 0 .. 2] /\ queuedTwice' \subseteq 1 .. MaxCalls
  <2>1. CASE UNCHANGED <<ran, queuedTwice>>
    BY <2>1 DEF EventsInv
  <2>2. CASE Walk
    <3>1. PICK e \in Elems, t \in OrigTypes, target \in Elems, queue \in Seq(Seq(Handler)), rest \in Walks :
             WalksOn(e, t, target, queue, rest)
      BY <2>2, WalkStep
    <3>2. Ids(queue) \subseteq 1 .. MaxCalls
      BY IdsType
    <3>3. queuedTwice' \subseteq queuedTwice \cup Ids(queue) /\ ran' = ran
      BY <2>2, <3>1 DEF WalksOn, Repeated, Walk
    <3> QED
      BY <3>2, <3>3 DEF EventsInv
  <2>3. CASE Dispatch
    <3>1. PICK e \in Elems, groups \in Seq(Seq(Handler)), next \in Seq(Seq(Handler)), h \in Handler :
             GoesOn(e, groups, next, h)
      BY <2>3, DispatchStep
    <3>2. h.id \in 1 .. MaxCalls /\ ran[h.id] \in 0 .. 2
      BY DEF Handler, EventsInv
    <3>3. PICK n : n = IF ~h.one \/ ran[h.id] = 2 THEN ran[h.id] ELSE ran[h.id] + 1
      OBVIOUS
    <3>4. n \in 0 .. 2
      BY <3>2, <3>3
    <3>5. ran' = [ran EXCEPT ![h.id] = n]
      BY <3>1, <3>3 DEF GoesOn
    <3> QED
      BY <2>3, <3>4, <3>5 DEF EventsInv, Dispatch
  <2>4. Next => Walk \/ Dispatch \/ UNCHANGED <<ran, queuedTwice>>
    BY DEF Next, Page, Bind, Off, RemoveElem, Empty, PutBack, Trigger, Native, Walked, Dispatched,
           Returns, Stops
  <2> QED
    BY <2>1, <2>2, <2>3, <2>4 DEF vars
<1> QED
  BY <1>1, <1>2, <1>3, <1>4, <1>5 DEF EventsInv

LEMMA EventsStart == Init => EventsInv
<1> SUFFICES ASSUME Init PROVE EventsInv
  OBVIOUS
<1>1. RegistryInv
  <2>1. \A e \in Elems, t \in OrigTypes : handlers[e][t] = <<>> /\ listening[e][t] = FALSE
    BY DEF Init
  <2>2. Wanting = {}
    BY <2>1 DEF Wanting, OrigTypes
  <2>3. Cardinality(Wanting) = 0
    BY <2>2, FS_EmptySet
  <2>4. handlers \in [Elems -> [OrigTypes -> Seq(Handler)]] /\ listening \in [Elems -> [OrigTypes -> BOOLEAN]]
    <3>1. <<>> \in Seq(Handler)
      OBVIOUS
    <3> QED
      BY <3>1 DEF Init
  <2>5. InFront(<<>>)
    BY DEF InFront
  <2>6. attaches = 0 /\ captures = FALSE
    BY DEF Init
  <2>7. attaches \in Nat /\ captures \in BOOLEAN /\ (captures <=> attaches > 0)
    <3>1. ~(attaches > 0) /\ attaches \in Nat
      BY <2>6
    <3> QED
      BY <2>6, <3>1, Zenon
  <2>8. attaches >= Cardinality(Wanting)
    BY <2>3, <2>6
  <2>9. \A e \in Elems, t \in OrigTypes :
          /\ t # "focusin" => (listening[e][t] <=> handlers[e][t] # <<>>)
          /\ InFront(handlers[e][t])
    BY <2>1, <2>5
  <2> QED
    BY <2>4, <2>7, <2>8, <2>9 DEF RegistryInv
<1>2. TreeInv
  BY EventsAssumption DEF Init, TreeInv
<1>3. FramesInv
  BY DEF Init, FramesInv, Stacked
<1>4. calls \in 0 .. MaxCalls /\ ran \in [1 .. MaxCalls -> 0 .. 2] /\ queuedTwice \subseteq 1 .. MaxCalls
  BY EventsAssumption DEF Init
<1> QED
  BY <1>1, <1>2, <1>3, <1>4 DEF EventsInv

LEMMA EventsInvariance == Spec => []EventsInv
BY EventsStart, EventsStep, PTL DEF Spec

\* Every variable keeps its type; what runs is a walk, a dispatch or a handler.
THEOREM PageTypeCorrect == Spec => []TypeOK
<1>1. EventsInv => TypeOK
  <2> SUFFICES ASSUME EventsInv PROVE TypeOK
    OBVIOUS
  <2>1. parent \in [Elems -> Elems \cup {NoElem}]
    BY DEF EventsInv, TreeInv
  <2>2. \A i \in DOMAIN frames : frames[i].code \in {"walk", "dispatch", "handler"}
    <3>1. \A i \in DOMAIN frames : frames[i] \in Frames
      BY DEF EventsInv, FramesInv
    <3> QED
      BY <3>1, FrameKinds
  <2> QED
    BY <2>1, <2>2 DEF EventsInv, RegistryInv, TypeOK
<1> QED
  BY <1>1, EventsInvariance, PTL

\* Whatever the page binds, unbinds and removes, also in the middle of a dispatch:
\* an element listens exactly for the types that it has handlers for, and has its
\* delegates in front.
THEOREM AlwaysListensForItsHandlers == Spec => []ListensForItsHandlers
<1>1. EventsInv => ListensForItsHandlers
  BY RegistryMeans DEF EventsInv
<1> QED
  BY <1>1, EventsInvariance, PTL

\* The document listens for focus as long as an element wants focusin.
THEOREM FocusinAlwaysServed == Spec => []FocusinServed
<1>1. EventsInv => FocusinServed
  BY RegistryMeans DEF EventsInv
<1> QED
  BY <1>1, EventsInvariance, PTL

-----------------------------------------------------------------------------
(* A handler of one runs once.                                             *)

\* Each call of the page makes one handler, which stands at one place, under its type.
ListedInv ==
    /\ \A e \in Elems, t \in OrigTypes : \A p \in DOMAIN handlers[e][t] :
          /\ handlers[e][t][p].id <= calls
          /\ t = Kept(handlers[e][t][p].orig, handlers[e][t][p].selector)
    /\ \A e, f \in Elems, t, u \in OrigTypes :
          \A p \in DOMAIN handlers[e][t], q \in DOMAIN handlers[f][u] :
             handlers[e][t][p].id = handlers[f][u][q].id => e = f /\ t = u /\ p = q

\* A handler that e calls: if it is still listed, it is there.
KnownAt(e, h) ==
    /\ h.id <= calls
    /\ \A f \in Elems, u \in OrigTypes : \A q \in DOMAIN handlers[f][u] :
          handlers[f][u][q].id = h.id => f = e /\ handlers[f][u][q] = h

\* new is what is left of old.
Thinned(new, old) ==
    \E s \in [DOMAIN new -> DOMAIN old] :
       /\ \A p \in DOMAIN new : new[p] = old[s[p]]
       /\ \A p, q \in DOMAIN new : p # q => s[p] # s[q]

Thin == \A e \in Elems, t \in OrigTypes : Thinned(handlers'[e][t], handlers[e][t])

Grows ==
    \E e \in Elems, h \in Handler : h.id = calls + 1 /\ calls' = calls + 1 /\ AddHandler(e, h)

LEMMA ThinnedSame ==
    ASSUME NEW list
    PROVE  Thinned(list, list)
<1>1. PICK s : s = [p \in DOMAIN list |-> p]
  OBVIOUS
<1>2. s \in [DOMAIN list -> DOMAIN list]
  BY <1>1
<1> QED
  BY <1>1, <1>2 DEF Thinned

LEMMA ThinnedOnly ==
    ASSUME NEW hs \in Seq(Handler), NEW D \in SUBSET (DOMAIN hs)
    PROVE  Thinned(Only(hs, D), hs)
<1>1. PICK list : list = Only(hs, D)
  OBVIOUS
<1>2. PICK s \in [DOMAIN list -> D] :
        /\ \A i \in DOMAIN list : list[i] = hs[s[i]]
        /\ \A i, j \in DOMAIN list : i < j => s[i] < s[j]
  BY <1>1, StayFacts
<1>3. s \in [DOMAIN list -> DOMAIN hs]
  BY <1>2
<1>4. ASSUME NEW i \in DOMAIN list, NEW j \in DOMAIN list, i # j PROVE s[i] # s[j]
  <2>1. i \in Nat /\ j \in Nat /\ s[i] \in Nat /\ s[j] \in Nat
    <3>1. list \in Seq(Handler)
      BY <1>1, StayFacts
    <3>2. DOMAIN list = 1 .. Len(list) /\ DOMAIN hs = 1 .. Len(hs)
      BY <3>1
    <3> QED
      BY <1>3, <3>2
  <2>2. i < j \/ j < i
    BY <1>4, <2>1
  <2> QED
    BY <1>2, <2>1, <2>2
<1> QED
  BY <1>1, <1>2, <1>3, <1>4 DEF Thinned

LEMMA RemoveThins ==
    ASSUME RegistryInv, NEW e \in Elems, NEW orig, NEW selector, NEW fn,
           RemoveHandlers(e, orig, selector, fn)
    PROVE  Thin
<1>1. handlers \in [Elems -> [OrigTypes -> Seq(Handler)]]
  BY DEF RegistryInv
<1>2. handlers' = [handlers EXCEPT ![e] = Remaining(e, orig, selector, fn)]
  BY DEF RemoveHandlers
<1>3. ASSUME NEW x \in Elems, NEW t \in OrigTypes
      PROVE  Thinned(handlers'[x][t], handlers[x][t])
  <2>1. PICK hs \in Seq(Handler) : hs = handlers[x][t]
    BY <1>1
  <2>2. PICK D \in SUBSET (DOMAIN hs) : D = Stay(hs, orig, selector, fn)
    BY DEF Stay
  <2>3. handlers'[x][t] = hs \/ handlers'[x][t] = Only(hs, D)
    <3>1. CASE x = e
      <4>1. handlers'[x][t] = Remaining(e, orig, selector, fn)[t]
        BY <1>1, <1>2, <3>1
      <4> QED
        BY <2>1, <2>2, <3>1, <4>1 DEF Remaining
    <3>2. CASE x # e
      BY <1>1, <1>2, <2>1, <3>2
    <3> QED
      BY <3>1, <3>2
  <2> QED
    BY <2>1, <2>3, ThinnedSame, ThinnedOnly
<1> QED
  BY <1>3 DEF Thin

LEMMA CleanThins ==
    ASSUME RegistryInv, NEW es \in SUBSET Elems, CleanData(es)
    PROVE  Thin
<1>1. handlers' = [e \in Elems |-> IF e \in es THEN [t \in OrigTypes |-> <<>>] ELSE handlers[e]]
  BY DEF CleanData
<1>2. ASSUME NEW e \in Elems, NEW t \in OrigTypes
      PROVE  Thinned(handlers'[e][t], handlers[e][t])
  <2>1. handlers'[e][t] = handlers[e][t] \/ handlers'[e][t] = <<>>
    BY <1>1
  <2>2. PICK none : none = <<>>
    OBVIOUS
  <2>3. DOMAIN none = {} /\ none \in [DOMAIN none -> DOMAIN handlers[e][t]]
    BY <2>2
  <2>4. Thinned(none, handlers[e][t])
    BY <2>3 DEF Thinned
  <2> QED
    BY <2>1, <2>2, <2>4, ThinnedSame
<1> QED
  BY <1>2 DEF Thin

LEMMA UnchangedThins == UNCHANGED registry => Thin
BY ThinnedSame DEF Thin, registry

\* Lists grow by the call that runs, or lose handlers.
LEMMA ListsStep ==
    ASSUME EventsInv, [Next]_vars
    PROVE  Thin \/ Grows
<1>1. CASE Page
  <2>1. RegistryStep /\ calls' = calls + 1
    BY <1>1, PageRegistry DEF Page, PageCalls
  <2>2. ASSUME NEW e \in Elems, NEW orig \in OrigTypes, NEW fn \in Fns, NEW one \in BOOLEAN,
               NEW selector \in Selectors \cup {NoSelector},
               calls < MaxCalls, AddHandler(e, NewHandler(orig, selector, fn, one))
        PROVE  Grows
    <3>1. PICK h \in Handler : h = NewHandler(orig, selector, fn, one)
      BY <2>2, NewHandlerType DEF EventsInv
    <3>2. h.id = calls + 1
      BY <3>1 DEF NewHandler
    <3> QED
      BY <2>1, <2>2, <3>1, <3>2 DEF Grows
  <2> QED
    BY <2>1, <2>2, RemoveThins, CleanThins, UnchangedThins DEF RegistryStep, EventsInv
<1>2. CASE Dispatch
  <2>1. PICK e \in Elems, groups \in Seq(Seq(Handler)), next \in Seq(Seq(Handler)), h \in Handler :
           GoesOn(e, groups, next, h)
    BY <1>2, DispatchStep
  <2>2. CASE h.one
    BY <2>1, <2>2, RemoveThins DEF GoesOn, TakesOff, EventsInv
  <2>3. CASE ~h.one
    BY <2>1, <2>3, UnchangedThins DEF GoesOn, TakesOff
  <2> QED
    BY <2>2, <2>3
<1>3. Next => Page \/ Dispatch \/ UNCHANGED registry
  BY DEF Next, Native, Walk, Walked, Dispatched, Returns, Stops
<1> QED
  BY <1>1, <1>2, <1>3, UnchangedThins DEF vars

LEMMA HandlerTypes ==
    ASSUME RegistryInv, NEW e \in Elems, NEW t \in OrigTypes, NEW p \in DOMAIN handlers[e][t]
    PROVE  handlers[e][t][p] \in Handler /\ handlers[e][t][p].id \in 1 .. MaxCalls
<1>1. handlers[e][t] \in Seq(Handler)
  BY DEF RegistryInv
<1>2. handlers[e][t][p] \in Handler
  BY <1>1
<1> QED
  BY <1>2 DEF Handler

LEMMA ThinFrom ==
    ASSUME Thin, NEW e \in Elems, NEW t \in OrigTypes, NEW p \in DOMAIN handlers'[e][t]
    PROVE  \E q \in DOMAIN handlers[e][t] : handlers'[e][t][p] = handlers[e][t][q]
BY DEF Thin, Thinned

\* What was known of the handlers that are called stays known.
LEMMA ThinKeeps ==
    ASSUME EventsInv, EventsInv', ListedInv, Thin, calls' \in {calls, calls + 1}
    PROVE  /\ ListedInv'
           /\ \A e \in Elems, h \in Handler : KnownAt(e, h) => KnownAt(e, h)'
<1>1. calls \in Nat /\ \A k \in Nat : k <= calls => k <= calls'
  BY EventsAssumption DEF EventsInv
<1>2. ASSUME NEW e \in Elems, NEW t \in OrigTypes, NEW p \in DOMAIN handlers'[e][t]
      PROVE  /\ handlers'[e][t][p].id <= calls'
             /\ t = Kept(handlers'[e][t][p].orig, handlers'[e][t][p].selector)
  <2>1. PICK q \in DOMAIN handlers[e][t] : handlers'[e][t][p] = handlers[e][t][q]
    BY ThinFrom
  <2>2. /\ handlers[e][t][q].id <= calls /\ handlers[e][t][q].id \in Nat
        /\ t = Kept(handlers[e][t][q].orig, handlers[e][t][q].selector)
    BY HandlerTypes DEF ListedInv, EventsInv
  <2> QED
    BY <1>1, <2>1, <2>2
<1>3. ASSUME NEW e \in Elems, NEW f \in Elems, NEW t \in OrigTypes, NEW u \in OrigTypes,
             NEW p \in DOMAIN handlers'[e][t], NEW q \in DOMAIN handlers'[f][u],
             handlers'[e][t][p].id = handlers'[f][u][q].id
      PROVE  e = f /\ t = u /\ p = q
  <2>1. PICK p0 \in DOMAIN handlers[e][t] : handlers'[e][t][p] = handlers[e][t][p0]
    BY ThinFrom
  <2>2. PICK q0 \in DOMAIN handlers[f][u] : handlers'[f][u][q] = handlers[f][u][q0]
    BY ThinFrom
  <2>3. e = f /\ t = u
    BY <1>3, <2>1, <2>2 DEF ListedInv
  <2>4. PICK old, new : old = handlers[e][t] /\ new = handlers'[e][t]
    OBVIOUS
  <2>5. PICK s \in [DOMAIN new -> DOMAIN old] :
           /\ \A i \in DOMAIN new : new[i] = old[s[i]]
           /\ \A i, j \in DOMAIN new : i # j => s[i] # s[j]
    BY <2>4 DEF Thin, Thinned
  <2>6. \A i, j \in DOMAIN old : old[i].id = old[j].id => i = j
    BY <2>4 DEF ListedInv
  <2>7. p \in DOMAIN new /\ q \in DOMAIN new /\ new[p].id = new[q].id
    BY <1>3, <2>3, <2>4
  <2> QED
    BY <2>3, <2>5, <2>6, <2>7
<1>4. ASSUME NEW e \in Elems, NEW h \in Handler, KnownAt(e, h)
      PROVE  KnownAt(e, h)'
  <2>1. h.id <= calls'
    BY <1>1, <1>4 DEF KnownAt, Handler
  <2>2. ASSUME NEW f \in Elems, NEW u \in OrigTypes, NEW q \in DOMAIN handlers'[f][u],
               handlers'[f][u][q].id = h.id
        PROVE  f = e /\ handlers'[f][u][q] = h
    <3>1. PICK q0 \in DOMAIN handlers[f][u] : handlers'[f][u][q] = handlers[f][u][q0]
      BY ThinFrom
    <3> QED
      BY <1>4, <2>2, <3>1 DEF KnownAt
  <2> QED
    BY <2>1, <2>2 DEF KnownAt
<1> QED
  BY <1>2, <1>3, <1>4 DEF ListedInv

LEMMA GrownList ==
    ASSUME EventsInv, NEW e \in Elems, NEW h \in Handler, AddHandler(e, h)
    PROVE  \E t \in OrigTypes : \E n \in 0 .. Len(handlers[e][t]) :
              /\ t = Kept(h.orig, h.selector)
              /\ \A x \in Elems, u \in OrigTypes :
                    x # e \/ u # t => handlers'[x][u] = handlers[x][u]
              /\ Placed(handlers'[e][t], handlers[e][t], h, n)
<1>1. PICK t \in OrigTypes : t = Kept(h.orig, h.selector)
  BY KeptType DEF Handler
<1>2. PICK old \in Seq(Handler) : old = handlers[e][t] /\ InFront(old)
  BY DEF EventsInv, RegistryInv
<1>3. PICK new : new = Inserted(old, h)
  OBVIOUS
<1>4. PICK n \in 0 .. Len(old) : Placed(new, old, h, n)
  BY <1>2, <1>3, InsertedFacts
<1>5. handlers' = [handlers EXCEPT ![e][t] = new] /\ handlers \in [Elems -> [OrigTypes -> Seq(Handler)]]
  BY <1>1, <1>2, <1>3 DEF AddHandler, EventsInv, RegistryInv
<1>6. /\ handlers'[e][t] = new
      /\ \A x \in Elems, u \in OrigTypes : x # e \/ u # t => handlers'[x][u] = handlers[x][u]
  BY <1>5
<1>7. Placed(handlers'[e][t], handlers[e][t], h, n) /\ n \in 0 .. Len(handlers[e][t])
  BY <1>2, <1>4, <1>6
<1> QED
  BY <1>1, <1>6, <1>7

LEMMA GrowKeeps ==
    ASSUME EventsInv, ListedInv, NEW e \in Elems, NEW h \in Handler,
           h.id = calls + 1, calls' = calls + 1, AddHandler(e, h)
    PROVE  /\ ListedInv'
           /\ \A x \in Elems, g \in Handler : KnownAt(x, g) => KnownAt(x, g)'
           /\ \A f \in Elems, u \in OrigTypes : \A p \in DOMAIN handlers'[f][u] :
                 \/ handlers'[f][u][p] = h
                 \/ \E q \in DOMAIN handlers[f][u] : handlers'[f][u][p] = handlers[f][u][q]
<1>1. calls \in Nat /\ \A k \in Nat : k <= calls => k <= calls' /\ k # calls + 1
  BY EventsAssumption DEF EventsInv
<1>2. PICK t \in OrigTypes : \E n \in 0 .. Len(handlers[e][t]) :
              /\ t = Kept(h.orig, h.selector)
              /\ \A x \in Elems, u \in OrigTypes :
                    x # e \/ u # t => handlers'[x][u] = handlers[x][u]
              /\ Placed(handlers'[e][t], handlers[e][t], h, n)
  BY GrownList
<1>3. PICK n \in 0 .. Len(handlers[e][t]) :
              /\ t = Kept(h.orig, h.selector)
              /\ \A x \in Elems, u \in OrigTypes :
                    x # e \/ u # t => handlers'[x][u] = handlers[x][u]
              /\ Placed(handlers'[e][t], handlers[e][t], h, n)
  BY <1>2
<1>4. PICK old \in Seq(Handler) : old = handlers[e][t]
  BY DEF EventsInv, RegistryInv
<1>5. PICK new : new = handlers'[e][t]
  OBVIOUS
<1>6. /\ DOMAIN new = 1 .. Len(old) + 1 /\ DOMAIN old = 1 .. Len(old) /\ Len(old) \in Nat /\ n \in 0 .. Len(old)
      /\ \A i \in DOMAIN new : new[i] = IF i <= n THEN old[i] ELSE IF i = n + 1 THEN h ELSE old[i - 1]
  BY SMTT(60), <1>3, <1>4, <1>5, PlacedAt
<1> DEFINE from(i) == IF i <= n THEN i ELSE i - 1
<1>7. ASSUME NEW i \in DOMAIN new, i # n + 1
      PROVE  from(i) \in DOMAIN old /\ new[i] = old[from(i)]
  BY <1>6, <1>7
<1>8. ASSUME NEW i \in DOMAIN new, NEW j \in DOMAIN new, i # n + 1, j # n + 1, from(i) = from(j)
      PROVE  i = j
  BY <1>6, <1>8
<1>9. n + 1 \in DOMAIN new /\ new[n + 1] = h
  BY <1>6
<1> HIDE DEF from
\* A place of the lists holds the new handler, or what an old place held.
<1>10. ASSUME NEW f \in Elems, NEW u \in OrigTypes, NEW p \in DOMAIN handlers'[f][u]
       PROVE  \/ f = e /\ u = t /\ p = n + 1 /\ handlers'[f][u][p] = h
              \/ \E q \in DOMAIN handlers[f][u] : handlers'[f][u][p] = handlers[f][u][q]
  <2>1. CASE f = e /\ u = t
    BY <1>4, <1>5, <1>7, <1>9, <2>1
  <2>2. CASE ~(f = e /\ u = t)
    BY <1>3, <2>2
  <2> QED
    BY <2>1, <2>2
<1>11. ASSUME NEW f \in Elems, NEW u \in OrigTypes, NEW q \in DOMAIN handlers[f][u]
       PROVE  /\ handlers[f][u][q].id <= calls /\ handlers[f][u][q].id \in Nat
              /\ handlers[f][u][q].id # h.id
              /\ u = Kept(handlers[f][u][q].orig, handlers[f][u][q].selector)
  <2>1. handlers[f][u][q].id <= calls /\ handlers[f][u][q].id \in Nat
    BY HandlerTypes DEF ListedInv, EventsInv
  <2> QED
    BY <1>1, <2>1 DEF ListedInv
<1>12. ASSUME NEW f \in Elems, NEW u \in OrigTypes, NEW p \in DOMAIN handlers'[f][u]
       PROVE  /\ handlers'[f][u][p].id <= calls'
              /\ u = Kept(handlers'[f][u][p].orig, handlers'[f][u][p].selector)
  <2>1. CASE u = t /\ handlers'[f][u][p] = h
    <3>1. h.id <= calls'
      BY <1>1
    <3> QED
      BY <1>3, <2>1, <3>1
  <2>2. CASE \E q \in DOMAIN handlers[f][u] : handlers'[f][u][p] = handlers[f][u][q]
    BY <1>1, <1>11, <2>2
  <2> QED
    BY <1>10, <2>1, <2>2
<1>13. ASSUME NEW f \in Elems, NEW g \in Elems, NEW u \in OrigTypes, NEW v \in OrigTypes,
              NEW p \in DOMAIN handlers'[f][u], NEW q \in DOMAIN handlers'[g][v],
              handlers'[f][u][p].id = handlers'[g][v][q].id
       PROVE  f = g /\ u = v /\ p = q
  <2>1. CASE handlers'[f][u][p] = h \/ handlers'[g][v][q] = h
    <3>1. handlers'[f][u][p].id = h.id /\ handlers'[g][v][q].id = h.id
      BY <1>13, <2>1
    <3> QED
      BY <1>10, <1>11, <3>1
  <2>2. CASE handlers'[f][u][p] # h /\ handlers'[g][v][q] # h
    <3>1. PICK p0 \in DOMAIN handlers[f][u] : handlers'[f][u][p] = handlers[f][u][p0]
      BY <1>10, <2>2
    <3>2. PICK q0 \in DOMAIN handlers[g][v] : handlers'[g][v][q] = handlers[g][v][q0]
      BY <1>10, <2>2
    <3>3. f = g /\ u = v
      BY <1>13, <3>1, <3>2 DEF ListedInv
    <3>4. CASE f = e /\ u = t
      <4>1. p \in DOMAIN new /\ q \in DOMAIN new /\ new[p].id = new[q].id /\ p # n + 1 /\ q # n + 1
        BY <1>5, <1>9, <1>13, <2>2, <3>3, <3>4
      <4>2. \A i, j \in DOMAIN old : old[i].id = old[j].id => i = j
        BY <1>4 DEF ListedInv
      <4>3. from(p) = from(q)
        BY <1>7, <4>1, <4>2
      <4> QED
        BY <1>8, <3>3, <4>1, <4>3
    <3>5. CASE ~(f = e /\ u = t)
      <4>1. handlers'[f][u] = handlers[f][u]
        BY <1>3, <3>5
      <4> QED
        BY <1>13, <3>3, <4>1 DEF ListedInv
    <3> QED
      BY <3>4, <3>5
  <2> QED
    BY <2>1, <2>2
<1>14. ASSUME NEW x \in Elems, NEW g \in Handler, KnownAt(x, g)
       PROVE  KnownAt(x, g)'
  <2>1. g.id <= calls' /\ g.id # h.id
    BY <1>1, <1>14 DEF KnownAt, Handler
  <2>2. ASSUME NEW f \in Elems, NEW u \in OrigTypes, NEW q \in DOMAIN handlers'[f][u],
               handlers'[f][u][q].id = g.id
        PROVE  f = x /\ handlers'[f][u][q] = g
    <3>1. PICK q0 \in DOMAIN handlers[f][u] : handlers'[f][u][q] = handlers[f][u][q0]
      BY <1>10, <2>1, <2>2
    <3> QED
      BY <1>14, <2>2, <3>1 DEF KnownAt
  <2> QED
    BY <2>1, <2>2 DEF KnownAt
<1>15. ListedInv'
  BY <1>12, <1>13 DEF ListedInv
<1> QED
  BY <1>10, <1>14, <1>15

\* The handlers that are to be called.
Queued(groups) ==
    {h \in Handler : \E g \in DOMAIN groups : \E p \in DOMAIN groups[g] : h = groups[g][p]}

\* A handler stands once in a group, and in two groups only if that was noted.
Apart(groups) ==
    \A g, k \in DOMAIN groups : \A p \in DOMAIN groups[g], q \in DOMAIN groups[k] :
       groups[g][p].id = groups[k][q].id =>
          \/ g = k /\ p = q
          \/ g # k /\ groups[g][p].id \in queuedTwice

\* Each list of new is the end of a list of old, each of another.
Within(new, old) ==
    \E s \in [DOMAIN new -> DOMAIN old] : \E n \in [DOMAIN new -> Nat] :
       /\ \A g \in DOMAIN new : \A p \in DOMAIN new[g] :
             p + n[g] \in DOMAIN old[s[g]] /\ new[g][p] = old[s[g]][p + n[g]]
       /\ \A g, k \in DOMAIN new : g # k => s[g] # s[k]

LEMMA QueuedAt ==
    ASSUME NEW groups \in Seq(Seq(Handler)), NEW g \in DOMAIN groups, NEW p \in DOMAIN groups[g]
    PROVE  groups[g] \in Seq(Handler) /\ groups[g][p] \in Handler /\ groups[g][p] \in Queued(groups)
<1>1. groups[g] \in Seq(Handler)
  OBVIOUS
<1>2. groups[g][p] \in Handler
  BY <1>1
<1> QED
  BY <1>1, <1>2 DEF Queued

LEMMA IdsMean ==
    ASSUME NEW groups \in Seq(Seq(Handler))
    PROVE  \A id : id \in Ids(groups) <=> \E h \in Queued(groups) : id = h.id
<1>1. ASSUME NEW id \in Ids(groups) PROVE \E h \in Queued(groups) : id = h.id
  <2>1. PICK g \in DOMAIN groups : id \in IdsIn(groups[g])
    BY DEF Ids, Range
  <2>2. PICK p \in DOMAIN groups[g] : id = groups[g][p].id
    BY <2>1 DEF IdsIn, Range
  <2> QED
    BY <2>2, QueuedAt
<1>2. ASSUME NEW h \in Queued(groups) PROVE h.id \in Ids(groups)
  <2>1. PICK g \in DOMAIN groups : \E p \in DOMAIN groups[g] : h = groups[g][p]
    BY DEF Queued
  <2>2. h \in Range(groups[g]) /\ groups[g] \in Range(groups)
    BY <2>1 DEF Range
  <2>3. h.id \in IdsIn(groups[g])
    BY <2>2 DEF IdsIn
  <2> QED
    BY <2>2, <2>3 DEF Ids
<1> QED
  BY <1>1, <1>2

LEMMA WithinQueued ==
    ASSUME NEW new \in Seq(Seq(Handler)), NEW old \in Seq(Seq(Handler)), Within(new, old)
    PROVE  /\ Queued(new) \subseteq Queued(old)
           /\ Ids(new) \subseteq Ids(old)
           /\ Apart(old) => Apart(new)
<1>1. PICK s \in [DOMAIN new -> DOMAIN old] : \E n \in [DOMAIN new -> Nat] :
         /\ \A g \in DOMAIN new : \A p \in DOMAIN new[g] :
               p + n[g] \in DOMAIN old[s[g]] /\ new[g][p] = old[s[g]][p + n[g]]
         /\ \A g, k \in DOMAIN new : g # k => s[g] # s[k]
  BY DEF Within
<1>2. PICK n \in [DOMAIN new -> Nat] :
         /\ \A g \in DOMAIN new : \A p \in DOMAIN new[g] :
               p + n[g] \in DOMAIN old[s[g]] /\ new[g][p] = old[s[g]][p + n[g]]
         /\ \A g, k \in DOMAIN new : g # k => s[g] # s[k]
  BY <1>1
<1>3. Queued(new) \subseteq Queued(old)
  BY <1>2 DEF Queued
<1>4. Ids(new) \subseteq Ids(old)
  BY <1>3, IdsMean
<1>5. ASSUME Apart(old), NEW g \in DOMAIN new, NEW k \in DOMAIN new,
             NEW p \in DOMAIN new[g], NEW q \in DOMAIN new[k], new[g][p].id = new[k][q].id
      PROVE  \/ g = k /\ p = q
             \/ g # k /\ new[g][p].id \in queuedTwice
  <2>1. PICK p0 \in DOMAIN old[s[g]] : p0 = p + n[g] /\ new[g][p] = old[s[g]][p0]
    BY <1>2
  <2>2. PICK q0 \in DOMAIN old[s[k]] : q0 = q + n[k] /\ new[k][q] = old[s[k]][q0]
    BY <1>2
  <2>3. \/ s[g] = s[k] /\ p0 = q0
        \/ s[g] # s[k] /\ new[g][p].id \in queuedTwice
    <3>1. PICK g0 \in DOMAIN old : g0 = s[g]
      OBVIOUS
    <3>2. PICK k0 \in DOMAIN old : k0 = s[k]
      OBVIOUS
    <3>3. p0 \in DOMAIN old[g0] /\ q0 \in DOMAIN old[k0] /\ old[g0][p0].id = old[k0][q0].id
      BY <1>5, <2>1, <2>2, <3>1, <3>2
    <3>4. \/ g0 = k0 /\ p0 = q0
          \/ g0 # k0 /\ old[g0][p0].id \in queuedTwice
      BY <1>5, <3>3 DEF Apart
    <3> QED
      BY <2>1, <3>1, <3>2, <3>4
  <2>4. CASE s[g] = s[k] /\ p0 = q0
    <3>1. g = k
      BY <1>2, <2>4
    <3>2. p \in Nat /\ q \in Nat /\ n[g] \in Nat
      <4>1. new[g] \in Seq(Handler) /\ new[k] \in Seq(Handler)
        OBVIOUS
      <4> QED
        BY SMTT(60), <4>1
    <3> QED
      BY <2>1, <2>2, <2>4, <3>1, <3>2
  <2> QED
    BY <2>3, <2>4
<1> QED
  BY <1>3, <1>4, <1>5 DEF Apart

LEMMA WithinSame ==
    ASSUME NEW groups \in Seq(Seq(Handler))
    PROVE  Within(groups, groups)
<1>1. PICK s \in [DOMAIN groups -> DOMAIN groups] : s = [g \in DOMAIN groups |-> g]
  OBVIOUS
<1>2. PICK n \in [DOMAIN groups -> Nat] : n = [g \in DOMAIN groups |-> 0]
  OBVIOUS
<1>3. ASSUME NEW g \in DOMAIN groups, NEW p \in DOMAIN groups[g]
      PROVE  p + n[g] \in DOMAIN groups[s[g]] /\ groups[g][p] = groups[s[g]][p + n[g]]
  <2>1. groups[g] \in Seq(Handler) /\ n[g] = 0 /\ s[g] = g
    BY <1>1, <1>2
  <2>2. p + n[g] = p
    BY <2>1
  <2> QED
    BY <2>1, <2>2
<1> QED
  BY <1>1, <1>3 DEF Within

LEMMA WithinTrans ==
    ASSUME NEW a \in Seq(Seq(Handler)), NEW b \in Seq(Seq(Handler)), NEW c \in Seq(Seq(Handler)),
           Within(a, b), Within(b, c)
    PROVE  Within(a, c)
<1>1. PICK s \in [DOMAIN a -> DOMAIN b] : \E n \in [DOMAIN a -> Nat] :
         /\ \A g \in DOMAIN a : \A p \in DOMAIN a[g] :
               p + n[g] \in DOMAIN b[s[g]] /\ a[g][p] = b[s[g]][p + n[g]]
         /\ \A g, k \in DOMAIN a : g # k => s[g] # s[k]
  BY DEF Within
<1>2. PICK n \in [DOMAIN a -> Nat] :
         /\ \A g \in DOMAIN a : \A p \in DOMAIN a[g] :
               p + n[g] \in DOMAIN b[s[g]] /\ a[g][p] = b[s[g]][p + n[g]]
         /\ \A g, k \in DOMAIN a : g # k => s[g] # s[k]
  BY <1>1
<1>3. PICK t \in [DOMAIN b -> DOMAIN c] : \E m \in [DOMAIN b -> Nat] :
         /\ \A g \in DOMAIN b : \A p \in DOMAIN b[g] :
               p + m[g] \in DOMAIN c[t[g]] /\ b[g][p] = c[t[g]][p + m[g]]
         /\ \A g, k \in DOMAIN b : g # k => t[g] # t[k]
  BY DEF Within
<1>4. PICK m \in [DOMAIN b -> Nat] :
         /\ \A g \in DOMAIN b : \A p \in DOMAIN b[g] :
               p + m[g] \in DOMAIN c[t[g]] /\ b[g][p] = c[t[g]][p + m[g]]
         /\ \A g, k \in DOMAIN b : g # k => t[g] # t[k]
  BY <1>3
<1>5. PICK u \in [DOMAIN a -> DOMAIN c] : u = [g \in DOMAIN a |-> t[s[g]]]
  OBVIOUS
<1>6. PICK l : l = [g \in DOMAIN a |-> n[g] + m[s[g]]]
  OBVIOUS
<1>0. l \in [DOMAIN a -> Nat]
  <2>1. \A g \in DOMAIN a : n[g] \in Nat /\ m[s[g]] \in Nat
    OBVIOUS
  <2>2. \A g \in DOMAIN a : n[g] + m[s[g]] \in Nat
    BY SMTT(60), <2>1
  <2> QED
    BY <1>6, <2>2
<1>7. ASSUME NEW g \in DOMAIN a, NEW p \in DOMAIN a[g]
      PROVE  p + l[g] \in DOMAIN c[u[g]] /\ a[g][p] = c[u[g]][p + l[g]]
  <2>1. PICK q \in DOMAIN b[s[g]] : q = p + n[g] /\ a[g][p] = b[s[g]][q]
    BY <1>2
  <2>2. q + m[s[g]] \in DOMAIN c[t[s[g]]] /\ b[s[g]][q] = c[t[s[g]]][q + m[s[g]]]
    BY <1>4
  <2>3. q + m[s[g]] = p + l[g]
    <3>1. a[g] \in Seq(Handler)
      OBVIOUS
    <3>2. p \in Nat /\ n[g] \in Nat /\ s[g] \in DOMAIN b
      <4>1. PICK x \in Seq(Handler) : x = a[g]
        BY <3>1
      <4>2. p \in Nat
        BY SMTT(60), <4>1
      <4>3. n[g] \in Nat /\ s[g] \in DOMAIN b
        OBVIOUS
      <4> QED
        BY <4>2, <4>3
    <3>3. m[s[g]] \in Nat /\ l[g] = n[g] + m[s[g]]
      BY <1>6, <3>2
    <3> QED
      BY <2>1, <3>2, <3>3
  <2>4. u[g] = t[s[g]]
    BY <1>5
  <2> QED
    BY <2>1, <2>2, <2>3, <2>4
<1>8. \A g, k \in DOMAIN a : g # k => u[g] # u[k]
  BY <1>2, <1>4, <1>5
<1> QED
  BY <1>0, <1>7, <1>8 DEF Within

LEMMA WithinLeft ==
    ASSUME NEW groups \in Seq(Seq(Handler))
    PROVE  Left(groups) \in Seq(Seq(Handler)) /\ Within(Left(groups), groups)
<1>0. PICK T : T = Seq(Handler)
  OBVIOUS
<1>1. PICK left : left = Left(groups)
  OBVIOUS
<1>2. left \in Seq(Seq(Handler))
  BY <1>1, LeftFacts
<1>3. PICK s \in [DOMAIN left -> DOMAIN groups] :
         /\ \A i \in DOMAIN left : left[i] = groups[s[i]] /\ left[i] # <<>>
         /\ \A i, j \in DOMAIN left : i < j => s[i] < s[j]
  <2>1. groups \in Seq(T)
    BY <1>0
  <2> HIDE <1>0
  <2>2. \E s \in [DOMAIN Left(groups) -> DOMAIN groups] :
           /\ \A i \in DOMAIN Left(groups) : Left(groups)[i] = groups[s[i]] /\ Left(groups)[i] # <<>>
           /\ \A i, j \in DOMAIN Left(groups) : i < j => s[i] < s[j]
    BY <2>1, LeftFacts
  <2> QED
    BY <1>1, <2>2
<1>4. PICK n \in [DOMAIN left -> Nat] : n = [g \in DOMAIN left |-> 0]
  OBVIOUS
<1>5. ASSUME NEW g \in DOMAIN left, NEW p \in DOMAIN left[g]
      PROVE  p + n[g] \in DOMAIN groups[s[g]] /\ left[g][p] = groups[s[g]][p + n[g]]
  <2>1. left[g] \in Seq(Handler) /\ n[g] = 0 /\ left[g] = groups[s[g]]
    BY <1>2, <1>3, <1>4
  <2>2. p + n[g] = p
    BY <2>1
  <2> QED
    BY <2>1, <2>2
<1>6. ASSUME NEW g \in DOMAIN left, NEW k \in DOMAIN left, g # k
      PROVE  s[g] # s[k]
  <2>1. g \in Nat /\ k \in Nat /\ s[g] \in Nat /\ s[k] \in Nat
    <3>1. DOMAIN left = 1 .. Len(left) /\ DOMAIN groups = 1 .. Len(groups)
      BY <1>2
    <3> QED
      BY <1>3, <3>1
  <2>2. g < k \/ k < g
    BY <1>6, <2>1
  <2> QED
    BY <1>3, <2>1, <2>2
<1> QED
  BY <1>1, <1>2, <1>5, <1>6 DEF Within

LEMMA WithinFirst ==
    ASSUME NEW groups \in Seq(Seq(Handler)), NEW left \in Seq(Seq(Handler)),
           left = <<>> \/ (groups # <<>> /\ left = <<groups[1]>>)
    PROVE  Within(left, groups)
<1>1. DOMAIN left = {} \/ (DOMAIN left = {1} /\ 1 \in DOMAIN groups /\ left[1] = groups[1])
  OBVIOUS
<1>2. PICK s : s = [g \in DOMAIN left |-> 1]
  OBVIOUS
<1>3. PICK n \in [DOMAIN left -> Nat] : n = [g \in DOMAIN left |-> 0]
  OBVIOUS
<1>4. s \in [DOMAIN left -> DOMAIN groups]
  BY <1>1, <1>2
<1>5. ASSUME NEW g \in DOMAIN left, NEW p \in DOMAIN left[g]
      PROVE  p + n[g] \in DOMAIN groups[s[g]] /\ left[g][p] = groups[s[g]][p + n[g]]
  <2>1. left[g] \in Seq(Handler) /\ n[g] = 0 /\ s[g] = 1 /\ left[g] = groups[1]
    BY <1>1, <1>2, <1>3
  <2>2. p + n[g] = p
    BY <2>1
  <2> QED
    BY <2>1, <2>2
<1>6. \A g, k \in DOMAIN left : g # k => s[g] # s[k]
  BY <1>1
<1> QED
  BY <1>4, <1>5, <1>6 DEF Within

LEMMA OtherFirst ==
    ASSUME NEW T, NEW s \in Seq(T), s # <<>>, NEW x \in T
    PROVE  LET r == <<x>> \o Tail(s)
           IN  DOMAIN r = DOMAIN s /\ r[1] = x /\ \A i \in DOMAIN s : i # 1 => r[i] = s[i]
<1>1. PICK rest : rest = Tail(s)
  OBVIOUS
<1>2. /\ rest \in Seq(T) /\ Len(s) \in Nat \ {0} /\ DOMAIN s = 1 .. Len(s) /\ Len(rest) = Len(s) - 1
      /\ \A i \in 1 .. Len(s) - 1 : rest[i] = s[i + 1]
  BY <1>1, TailFacts
<1>3. PICK r : r = <<x>> \o rest
  OBVIOUS
<1>4. r \in Seq(T) /\ Len(r) = Len(rest) + 1 /\ r[1] = x /\ \A i \in DOMAIN rest : r[i + 1] = rest[i]
  <2>1. rest \in Seq(T)
    BY <1>2
  <2> QED
    BY <1>3, <2>1, OneOnTop
<1>5. DOMAIN r = DOMAIN s
  BY <1>2, <1>4
<1>6. ASSUME NEW i \in DOMAIN s, i # 1 PROVE r[i] = s[i]
  <2>1. PICK j : j = i - 1
    OBVIOUS
  <2>2. j \in 1 .. Len(s) - 1 /\ j + 1 = i /\ j \in DOMAIN rest
    BY <1>2, <1>6, <2>1
  <2> QED
    BY <1>2, <1>4, <2>2
<1> QED
  BY <1>1, <1>3, <1>4, <1>5, <1>6

\* What is left after the first handler are other places.
LEMMA WithinNext ==
    ASSUME NEW groups \in Seq(Seq(Handler)), groups # <<>>, groups[1] # <<>>,
           NEW next \in Seq(Seq(Handler)), next = <<Tail(groups[1])>> \o Tail(groups)
    PROVE  /\ Within(next, groups)
           /\ Apart(groups) /\ groups[1][1].id \in Ids(next) => groups[1][1].id \in queuedTwice
<1>1. 1 \in DOMAIN groups /\ groups[1] \in Seq(Handler)
  BY TailFacts
<1>2. PICK first \in Seq(Handler) : first = groups[1] /\ first # <<>>
  BY <1>1
<1>3. PICK short \in Seq(Handler) : short = Tail(first)
  BY <1>2, TailFacts
<1>4. /\ DOMAIN next = DOMAIN groups /\ next[1] = short
      /\ \A g \in DOMAIN groups : g # 1 => next[g] = groups[g]
  <2>1. next = <<short>> \o Tail(groups)
    BY <1>2, <1>3
  <2>2. PICK T : T = Seq(Handler)
    OBVIOUS
  <2>3. groups \in Seq(T) /\ short \in T
    BY <2>2
  <2> HIDE <2>2
  <2> QED
    BY <2>1, <2>3, OtherFirst
<1>5. ASSUME NEW p \in DOMAIN short
      PROVE  p \in Nat /\ p + 1 \in DOMAIN first /\ short[p] = first[p + 1] /\ p + 1 # 1
  BY <1>2, <1>3, TailFacts
<1>6. 1 \in DOMAIN first
  BY <1>2, TailFacts
<1>7. PICK s : s = [g \in DOMAIN next |-> g]
  OBVIOUS
<1>8. s \in [DOMAIN next -> DOMAIN groups]
  BY <1>4, <1>7
<1>9. PICK n : n = [g \in DOMAIN next |-> IF g = 1 THEN 1 ELSE 0]
  OBVIOUS
<1>10. n \in [DOMAIN next -> Nat]
  BY <1>9
<1>11. ASSUME NEW g \in DOMAIN next, NEW p \in DOMAIN next[g]
       PROVE  /\ p + n[g] \in DOMAIN groups[g] /\ next[g][p] = groups[g][p + n[g]]
              /\ g = 1 => p + n[g] # 1
  <2>1. CASE g = 1
    <3>1. n[g] = 1 /\ next[g] = short /\ p \in DOMAIN short
      BY <1>4, <1>9, <2>1
    <3>2. p + 1 \in DOMAIN first /\ short[p] = first[p + 1] /\ p + 1 # 1
      BY <1>5, <3>1
    <3>3. p + n[g] = p + 1 /\ groups[g] = first
      BY <1>2, <2>1, <3>1
    <3> QED
      BY <3>1, <3>2, <3>3
  <2>2. CASE g # 1
    <3>1. n[g] = 0 /\ next[g] = groups[g] /\ g \in DOMAIN groups
      BY <1>4, <1>9, <2>2
    <3>2. PICK group \in Seq(Handler) : group = groups[g]
      BY <3>1
    <3>3. p \in Nat
      <4>1. p \in DOMAIN group
        BY <3>1, <3>2
      <4> QED
        BY <4>1
    <3>4. p + n[g] = p
      BY <3>1, <3>3
    <3> QED
      BY <2>2, <3>1, <3>4
  <2> QED
    BY <2>1, <2>2
<1>12. Within(next, groups)
  <2>1. \A g \in DOMAIN next : s[g] = g
    BY <1>7
  <2>2. ASSUME NEW g \in DOMAIN next, NEW p \in DOMAIN next[g]
        PROVE  p + n[g] \in DOMAIN groups[s[g]] /\ next[g][p] = groups[s[g]][p + n[g]]
    BY ZenonT(60), <1>11, <2>1
  <2>3. \A g, k \in DOMAIN next : g # k => s[g] # s[k]
    BY <2>1
  <2> QED
    BY <1>8, <1>10, <2>2, <2>3 DEF Within
<1>13. ASSUME Apart(groups), groups[1][1].id \in Ids(next) PROVE groups[1][1].id \in queuedTwice
  <2>1. \E x \in Queued(next) : groups[1][1].id = x.id
    BY <1>13, IdsMean
  <2>2. PICK x \in Queued(next) : groups[1][1].id = x.id
    BY <2>1
  <2>3. PICK g \in DOMAIN next : \E p \in DOMAIN next[g] : x = next[g][p]
    BY DEF Queued
  <2>4. PICK p \in DOMAIN next[g] : x = next[g][p]
    BY <2>3
  <2>5. PICK q : q = p + n[g]
    OBVIOUS
  <2>6. q \in DOMAIN groups[g] /\ x = groups[g][q] /\ (g = 1 => q # 1)
    BY <1>11, <2>4, <2>5
  <2>7. g \in DOMAIN groups /\ 1 \in DOMAIN groups /\ 1 \in DOMAIN groups[1]
    BY <1>1, <1>2, <1>4, <1>6
  <2>8. groups[1][1].id = groups[g][q].id
    BY <2>2, <2>6
  <2> QED
    BY <1>13, <2>6, <2>7, <2>8 DEF Apart
<1> QED
  BY <1>12, <1>13

\* What is to be called for e: known there, and not yet run unless queued twice.
QueueInv(e, groups) ==
    /\ \A h \in Queued(groups) : KnownAt(e, h) /\ (ran[h.id] # 0 => h.id \in queuedTwice)
    /\ Apart(groups)

QueuesInv ==
    /\ \A i \in DOMAIN frames :
          frames[i].code = "dispatch" => QueueInv(frames[i].elem, frames[i].groups)
    /\ \A i, j \in DOMAIN frames :
          i # j /\ frames[i].code = "dispatch" /\ frames[j].code = "dispatch" =>
             Ids(frames[i].groups) \cap Ids(frames[j].groups) \subseteq queuedTwice

\* What is listed, or still to be made, has not run.
FreshInv ==
    /\ \A e \in Elems, t \in OrigTypes : \A p \in DOMAIN handlers[e][t] : ran[handlers[e][t][p].id] = 0
    /\ \A id \in 1 .. MaxCalls : id > calls => ran[id] = 0

RanInv == \A id \in 1 .. MaxCalls : ran[id] = 2 => id \in queuedTwice

OnceInv == ListedInv /\ QueuesInv /\ FreshInv /\ RanInv

LEMMA DispatchAt ==
    ASSUME NEW s \in Seq(Frames), NEW i \in DOMAIN s, s[i].code = "dispatch"
    PROVE  s[i].elem \in Elems /\ s[i].groups \in Seq(Seq(Handler))
<1>1. s[i] \in Frames
  OBVIOUS
<1>2. s[i] \in Dispatches
  BY <1>1, FrameKinds
<1> QED
  BY <1>2 DEF Dispatches

\* The dispatches on the stack, but a fresh one, are those of before, k places off,
\* with handlers less.
FramesShift(k, fresh) ==
    \A i \in DOMAIN frames' :
       i # fresh /\ frames'[i].code = "dispatch" =>
          /\ i + k \in DOMAIN frames
          /\ frames[i + k].code = "dispatch"
          /\ frames'[i].elem = frames[i + k].elem
          /\ Within(frames'[i].groups, frames[i + k].groups)

QueuesBut(fresh) ==
    /\ \A i \in DOMAIN frames :
          i # fresh /\ frames[i].code = "dispatch" => QueueInv(frames[i].elem, frames[i].groups)
    /\ \A i, j \in DOMAIN frames :
          i # j /\ i # fresh /\ j # fresh /\ frames[i].code = "dispatch" /\ frames[j].code = "dispatch" =>
             Ids(frames[i].groups) \cap Ids(frames[j].groups) \subseteq queuedTwice

LEMMA QueuesShift ==
    ASSUME EventsInv, EventsInv', QueuesInv, NEW k \in Int, NEW fresh, FramesShift(k, fresh),
           \A e \in Elems, h \in Handler : KnownAt(e, h) => KnownAt(e, h)',
           queuedTwice \subseteq queuedTwice',
           \A id \in 1 .. MaxCalls :
              \/ ran'[id] = ran[id]
              \/ id \in queuedTwice'
              \/ \A i \in DOMAIN frames' :
                    i # fresh /\ frames'[i].code = "dispatch" => id \notin Ids(frames'[i].groups)
    PROVE  QueuesBut(fresh)'
<1>1. frames \in Seq(Frames) /\ frames' \in Seq(Frames)
  BY DEF EventsInv, FramesInv
<1>2. ASSUME NEW i \in DOMAIN frames', i # fresh, frames'[i].code = "dispatch"
      PROVE  /\ i + k \in DOMAIN frames /\ frames[i + k].code = "dispatch"
             /\ frames[i + k].groups \in Seq(Seq(Handler)) /\ frames'[i].groups \in Seq(Seq(Handler))
             /\ frames'[i].elem = frames[i + k].elem /\ frames'[i].elem \in Elems
             /\ Within(frames'[i].groups, frames[i + k].groups)
             /\ QueueInv(frames[i + k].elem, frames[i + k].groups)
  <2>1. /\ i + k \in DOMAIN frames /\ frames[i + k].code = "dispatch"
        /\ frames'[i].elem = frames[i + k].elem
        /\ Within(frames'[i].groups, frames[i + k].groups)
    BY <1>2 DEF FramesShift
  <2>2. frames'[i].elem \in Elems /\ frames'[i].groups \in Seq(Seq(Handler))
    BY <1>1, <1>2, DispatchAt
  <2>3. frames[i + k].groups \in Seq(Seq(Handler))
    BY <1>1, <2>1, DispatchAt
  <2> QED
    BY <2>1, <2>2, <2>3 DEF QueuesInv
<1>3. ASSUME NEW i \in DOMAIN frames', i # fresh, frames'[i].code = "dispatch"
      PROVE  QueueInv(frames[i].elem, frames[i].groups)'
  <2>1. PICK e \in Elems : e = frames'[i].elem
    BY <1>2, <1>3
  <2>2. PICK new \in Seq(Seq(Handler)) : new = frames'[i].groups
    BY <1>2, <1>3
  <2>3. PICK old \in Seq(Seq(Handler)) : old = frames[i + k].groups
    BY <1>2, <1>3
  <2>4. Within(new, old) /\ QueueInv(e, old)
    BY <1>2, <1>3, <2>1, <2>2, <2>3
  <2>5. Queued(new) \subseteq Queued(old) /\ Apart(new)
    BY <2>4, WithinQueued DEF QueueInv
  <2>6. Apart(new)'
    BY <2>5 DEF Apart
  <2>7. ASSUME NEW h \in Queued(new)
        PROVE  KnownAt(e, h)' /\ (ran'[h.id] # 0 => h.id \in queuedTwice')
    <3>1. h \in Handler /\ h.id \in 1 .. MaxCalls
      BY DEF Queued, Handler
    <3>2. KnownAt(e, h) /\ (ran[h.id] # 0 => h.id \in queuedTwice)
      BY <2>4, <2>5 DEF QueueInv
    <3>3. h.id \in Ids(new)
      BY IdsMean
    <3>4. ran'[h.id] = ran[h.id] \/ h.id \in queuedTwice'
      BY <1>3, <2>2, <3>1, <3>3
    <3> QED
      BY <3>1, <3>2, <3>4
  <2>8. QueueInv(e, new)'
    BY <2>6, <2>7 DEF QueueInv
  <2> QED
    BY <2>1, <2>2, <2>8
<1>4. ASSUME NEW i \in DOMAIN frames', NEW j \in DOMAIN frames', i # j, i # fresh, j # fresh,
             frames'[i].code = "dispatch", frames'[j].code = "dispatch"
      PROVE  Ids(frames'[i].groups) \cap Ids(frames'[j].groups) \subseteq queuedTwice'
  <2>1. i + k \in DOMAIN frames /\ j + k \in DOMAIN frames /\ i + k # j + k
    <3>1. i \in Nat /\ j \in Nat
      BY <1>1
    <3> QED
      BY <1>2, <1>4, <3>1
  <2>2. Ids(frames[i + k].groups) \cap Ids(frames[j + k].groups) \subseteq queuedTwice
    BY <1>2, <1>4, <2>1 DEF QueuesInv
  <2>3. Ids(frames'[i].groups) \subseteq Ids(frames[i + k].groups)
    BY <1>2, <1>4, WithinQueued
  <2>4. Ids(frames'[j].groups) \subseteq Ids(frames[j + k].groups)
    BY <1>2, <1>4, WithinQueued
  <2> QED
    BY <2>2, <2>3, <2>4
<1> QED
  BY <1>3, <1>4 DEF QueuesBut

LEMMA ListsKeep ==
    ASSUME EventsInv, EventsInv', ListedInv, [Next]_vars
    PROVE  /\ ListedInv'
           /\ \A e \in Elems, h \in Handler : KnownAt(e, h) => KnownAt(e, h)'
<1>1. calls' \in {calls, calls + 1}
  BY DEF Next, vars, Page, PageCalls, Native, Walk, Walked, Dispatch, Dispatched, Returns, Stops
<1> QED
  BY <1>1, ListsStep, ThinKeeps, GrowKeeps DEF Grows

\* A handler of one that is called is listed no more.
LEMMA TakenOff ==
    ASSUME EventsInv, ListedInv, NEW e \in Elems, NEW h \in Handler, KnownAt(e, h),
           RemoveHandlers(e, h.orig, h.selector, h.fn),
           NEW f \in Elems, NEW u \in OrigTypes, NEW p \in DOMAIN handlers'[f][u]
    PROVE  handlers'[f][u][p].id # h.id
<1> SUFFICES ASSUME handlers'[f][u][p].id = h.id PROVE FALSE
  OBVIOUS
<1>1. Thin
  BY RemoveThins DEF EventsInv
<1>2. PICK q \in DOMAIN handlers[f][u] : handlers'[f][u][p] = handlers[f][u][q]
  BY <1>1, ThinFrom
<1>3. f = e /\ handlers[f][u][q] = h
  BY <1>2 DEF KnownAt
<1>4. u = Kept(h.orig, h.selector)
  BY <1>3 DEF ListedInv
<1>5. PICK hs \in Seq(Handler) : hs = handlers[e][u]
  BY DEF EventsInv, RegistryInv
<1>6. PICK D \in SUBSET (DOMAIN hs) : D = Stay(hs, h.orig, h.selector, h.fn)
  BY DEF Stay
<1>7. handlers'[e][u] = Only(hs, D)
  <2>1. handlers' = [handlers EXCEPT ![e] = Remaining(e, h.orig, h.selector, h.fn)]
    BY DEF RemoveHandlers
  <2>2. handlers'[e][u] = Remaining(e, h.orig, h.selector, h.fn)[u]
    BY <2>1 DEF EventsInv, RegistryInv
  <2> QED
    BY <1>4, <1>5, <1>6, <2>2 DEF Remaining
<1>8. PICK list : list = Only(hs, D)
  OBVIOUS
<1>9. PICK s \in [DOMAIN list -> D] : \A i \in DOMAIN list : list[i] = hs[s[i]]
  BY <1>8, StayFacts
<1>10. s[p] \in D /\ hs[s[p]] = h
  BY <1>2, <1>3, <1>7, <1>8, <1>9
<1>11. ~Removes(h, h.orig, h.selector, h.fn)
  BY <1>6, <1>10 DEF Stay
<1> QED
  BY <1>11 DEF Removes

LEMMA ShiftSame ==
    ASSUME EventsInv, UNCHANGED frames
    PROVE  FramesShift(0, 0)
<1>1. frames \in Seq(Frames)
  BY DEF EventsInv, FramesInv
<1>2. ASSUME NEW i \in DOMAIN frames, frames[i].code = "dispatch"
      PROVE  i + 0 = i /\ Within(frames[i].groups, frames[i].groups)
  <2>1. i \in Nat
    BY <1>1
  <2> QED
    BY <1>1, <1>2, <2>1, DispatchAt, WithinSame
<1> QED
  BY <1>2 DEF FramesShift

LEMMA ShiftUp ==
    ASSUME EventsInv, NEW f \in Frames, f.code = "walk", frames' = <<f>> \o frames
    PROVE  FramesShift(-1, 0)
<1>1. PICK old \in Seq(Frames) : old = frames
  BY DEF EventsInv, FramesInv
<1>2. PICK new : new = frames'
  OBVIOUS
<1>3. new \in Seq(Frames) /\ Len(new) = Len(old) + 1 /\ new[1] = f /\ \A i \in DOMAIN old : new[i + 1] = old[i]
  BY <1>1, <1>2, OneOnTop
<1>4. ASSUME NEW i \in DOMAIN new, new[i].code = "dispatch"
      PROVE  /\ i + (-1) \in DOMAIN old /\ old[i + (-1)] = new[i]
             /\ Within(new[i].groups, new[i].groups)
  <2>1. i # 1
    BY <1>3, <1>4
  <2>2. PICK j : j = i + (-1)
    OBVIOUS
  <2>3. j \in DOMAIN old /\ j + 1 = i
    BY <1>3, <2>1, <2>2
  <2>4. old[j] = new[i]
    BY <1>3, <2>3
  <2> QED
    BY <1>3, <1>4, <2>2, <2>3, <2>4, DispatchAt, WithinSame
<1> QED
  BY <1>1, <1>2, <1>4 DEF FramesShift

LEMMA ShiftDown ==
    ASSUME EventsInv, frames # <<>>, frames' = Below
    PROVE  FramesShift(1, 0)
<1>1. PICK old \in Seq(Frames) : old = frames
  BY DEF EventsInv, FramesInv
<1>2. PICK new : new = frames'
  OBVIOUS
<1>3. /\ new \in Seq(Frames) /\ Len(new) = Len(old) - 1 /\ \A i \in 1 .. Len(old) - 1 : new[i] = old[i + 1]
      /\ Len(old) \in Nat \ {0}
  BY <1>1, <1>2, TailFacts DEF Below
<1>4. ASSUME NEW i \in DOMAIN new, new[i].code = "dispatch"
      PROVE  /\ i + 1 \in DOMAIN old /\ old[i + 1] = new[i]
             /\ Within(new[i].groups, new[i].groups)
  <2>1. i + 1 \in DOMAIN old /\ old[i + 1] = new[i]
    BY <1>3
  <2> QED
    BY <1>3, <1>4, <2>1, DispatchAt, WithinSame
<1> QED
  BY <1>1, <1>2, <1>4 DEF FramesShift

\* Two frames take the place of the top; the dispatch among them, if it is not
\* fresh, is what was there, further on.
LEMMA ShiftOne ==
    ASSUME EventsInv, frames # <<>>, NEW f \in Frames, NEW g \in Frames,
           frames' = <<f, g>> \o Below, NEW fresh \in {0, 1},
           f.code # "dispatch" \/ fresh = 1,
           g.code = "dispatch" => /\ frames[1].code = "dispatch" /\ g.elem = frames[1].elem
                                  /\ Within(g.groups, frames[1].groups)
    PROVE  FramesShift(-1, fresh)
<1>1. PICK old \in Seq(Frames) : old = frames
  BY DEF EventsInv, FramesInv
<1>2. PICK new : new = frames'
  OBVIOUS
<1>3. PICK rest \in Seq(Frames) : /\ rest = Below
                                  /\ Len(rest) = Len(old) - 1
                                  /\ \A i \in 1 .. Len(old) - 1 : rest[i] = old[i + 1]
  BY <1>1, TopFacts DEF EventsInv
<1>4. new \in Seq(Frames) /\ Len(new) = Len(rest) + 2 /\ new[1] = f /\ new[2] = g /\ \A i \in DOMAIN rest : new[i + 2] = rest[i]
  BY <1>2, <1>3, TwoOnTop
<1>5. Len(old) \in Nat \ {0} /\ 1 \in DOMAIN old /\ DOMAIN old = 1 .. Len(old)
  BY <1>1
<1>6. ASSUME NEW i \in DOMAIN new, i # fresh, new[i].code = "dispatch"
      PROVE  /\ i + (-1) \in DOMAIN old /\ old[i + (-1)].code = "dispatch" /\ new[i].elem = old[i + (-1)].elem
             /\ Within(new[i].groups, old[i + (-1)].groups)
  <2>1. i # 1
    BY <1>4, <1>6
  <2>2. CASE i = 2
    <3>1. i + (-1) = 1 /\ new[i] = g
      BY <1>4, <2>2
    <3> QED
      BY <1>1, <1>5, <1>6, <3>1
  <2>3. CASE i # 2
    <3>1. PICK j : j = i + (-1)
      OBVIOUS
    <3>2. j \in DOMAIN old
      BY <1>3, <1>4, <1>5, <2>1, <2>3, <3>1
    <3>3. PICK l : l = i - 2
      OBVIOUS
    <3>4. l \in DOMAIN rest /\ l \in 1 .. Len(old) - 1 /\ l + 2 = i /\ l + 1 = j
      BY <1>3, <1>4, <1>5, <2>1, <2>3, <3>1, <3>3
    <3>5. new[i] = old[j]
      BY <1>3, <1>4, <3>4
    <3>6. Within(new[i].groups, new[i].groups)
      BY <1>4, <1>6, DispatchAt, WithinSame
    <3> QED
      BY <1>6, <3>1, <3>2, <3>5, <3>6
  <2> QED
    BY <2>2, <2>3
<1> QED
  BY <1>1, <1>2, <1>6 DEF FramesShift

LEMMA ShiftStops ==
    ASSUME EventsInv, NEW immediate \in BOOLEAN, Stops(immediate)
    PROVE  FramesShift(1, 0)
<1>1. PICK d \in Dispatches, left \in Seq(Seq(Handler)), rest \in Walks : StopsWith(d, left, rest)
  BY StopsStep
<1>2. 3 \in 1 .. Len(frames)
  BY StopsStep
<1>3. PICK old \in Seq(Frames) : old = frames
  BY DEF EventsInv, FramesInv
<1>4. PICK new : new = frames'
  OBVIOUS
<1>5. PICK s : s = SubSeq(old, 3 + 1, Len(old))
  OBVIOUS
<1>6. /\ s \in Seq(Frames) /\ Len(s) = Len(old) - 3 /\ \A i \in 1 .. Len(old) - 3 : s[i] = old[i + 3]
      /\ Len(old) \in Nat /\ Len(old) >= 3
  <2>1. Len(old) \in Nat /\ Len(old) >= 3 /\ 3 \in 0 .. Len(old)
    BY <1>2, <1>3
  <2>2. /\ SubSeq(old, 3 + 1, Len(old)) \in Seq(Frames)
        /\ Len(SubSeq(old, 3 + 1, Len(old))) = Len(old) - 3
        /\ \A i \in 1 .. Len(old) - 3 : SubSeq(old, 3 + 1, Len(old))[i] = old[i + 3]
    BY <2>1, BackFacts
  <2> QED
    BY <1>5, <2>1, <2>2
<1>7. PICK f \in Frames : f = DispatchFrame(d.elem, left) /\ f.code = "dispatch" /\ f.elem = d.elem /\ f.groups = left
  BY DispatchIsFrame DEF Dispatches
<1>8. rest \in Frames /\ rest.code = "walk"
  BY DEF Walks, Frames
<1>9. new = <<f, rest>> \o s
  BY <1>1, <1>3, <1>4, <1>5, <1>7 DEF StopsWith
<1>10. new \in Seq(Frames) /\ Len(new) = Len(s) + 2 /\ new[1] = f /\ new[2] = rest /\ \A i \in DOMAIN s : new[i + 2] = s[i]
  BY <1>6, <1>7, <1>8, <1>9, TwoOnTop
<1>11. ASSUME NEW i \in DOMAIN new, new[i].code = "dispatch"
       PROVE  /\ i + 1 \in DOMAIN old /\ old[i + 1].code = "dispatch" /\ new[i].elem = old[i + 1].elem
              /\ Within(new[i].groups, old[i + 1].groups)
  <2>1. i # 2
    BY <1>8, <1>10, <1>11
  <2>2. CASE i = 1
    <3>1. old[2] = d
      BY <1>1, <1>3 DEF StopsWith
    <3>4. i + 1 = 2 /\ 2 \in DOMAIN old /\ new[i] = f
      BY <1>6, <1>10, <2>2
    <3>2. d.code = "dispatch" /\ d.groups \in Seq(Seq(Handler))
      BY DEF Dispatches
    <3>3. Within(left, d.groups)
      BY <1>1, <3>2, WithinFirst DEF StopsWith
    <3> QED
      BY <1>7, <3>1, <3>2, <3>3, <3>4
  <2>3. CASE i # 1
    <3>1. PICK j : j = i + 1
      OBVIOUS
    <3>2. PICK l : l = i - 2
      OBVIOUS
    <3>3. l \in DOMAIN s /\ l \in 1 .. Len(old) - 3 /\ l + 2 = i /\ l + 3 = j /\ j \in DOMAIN old
      <4>1. PICK n \in Nat : n = Len(old) /\ n >= 3
        BY <1>6
      <4>2. DOMAIN old = 1 .. n /\ DOMAIN s = 1 .. n - 3 /\ DOMAIN new = 1 .. (n - 3) + 2
        BY <1>6, <1>10, <4>1
      <4>3. i \in 1 .. (n - 3) + 2
        BY <4>2
      <4>4. l \in 1 .. n - 3 /\ l + 2 = i /\ l + 3 = j /\ j \in 1 .. n
        BY SMTT(60), <2>1, <2>3, <3>1, <3>2, <4>1, <4>3
      <4> QED
        BY <4>1, <4>2, <4>4
    <3>4. new[i] = old[j]
      BY <1>6, <1>10, <3>3
    <3>5. Within(new[i].groups, new[i].groups)
      BY <1>10, <1>11, DispatchAt, WithinSame
    <3> QED
      BY <1>11, <3>1, <3>3, <3>4, <3>5
  <2> QED
    BY <2>2, <2>3
<1> QED
  BY <1>3, <1>4, <1>11 DEF FramesShift

LEMMA FreshKeeps ==
    ASSUME EventsInv, OnceInv, [Next]_vars, UNCHANGED ran
    PROVE  FreshInv'
<1>1. ASSUME NEW id \in 1 .. MaxCalls, id > calls' PROVE ran[id] = 0
  <2>1. calls' \in {calls, calls + 1}
    BY DEF Next, vars, Page, PageCalls, Native, Walk, Walked, Dispatch, Dispatched, Returns, Stops
  <2>2. calls \in Nat /\ id \in Nat
    BY EventsAssumption DEF EventsInv
  <2>3. id > calls
    BY <1>1, <2>1, <2>2
  <2> QED
    BY <2>3 DEF OnceInv, FreshInv
<1>2. CASE Thin
  <2>1. ASSUME NEW e \in Elems, NEW t \in OrigTypes, NEW p \in DOMAIN handlers'[e][t]
        PROVE  ran[handlers'[e][t][p].id] = 0
    BY <1>2, ThinFrom DEF OnceInv, FreshInv
  <2> QED
    BY <1>1, <2>1 DEF FreshInv
<1>3. CASE Grows
  <2>1. PICK x \in Elems, h \in Handler : h.id = calls + 1 /\ calls' = calls + 1 /\ AddHandler(x, h)
    BY <1>3 DEF Grows
  <2>2. \A f \in Elems, u \in OrigTypes : \A p \in DOMAIN handlers'[f][u] :
                 \/ handlers'[f][u][p] = h
                 \/ \E q \in DOMAIN handlers[f][u] : handlers'[f][u][p] = handlers[f][u][q]
    BY <2>1, GrowKeeps DEF OnceInv
  <2>3. ran[h.id] = 0
    <3>1. h.id \in 1 .. MaxCalls /\ h.id > calls
      BY <2>1, EventsAssumption DEF Handler, EventsInv
    <3> QED
      BY <3>1 DEF OnceInv, FreshInv
  <2>4. ASSUME NEW e \in Elems, NEW t \in OrigTypes, NEW p \in DOMAIN handlers'[e][t]
        PROVE  ran[handlers'[e][t][p].id] = 0
    BY <2>2, <2>3 DEF OnceInv, FreshInv
  <2> QED
    BY <1>1, <2>4 DEF FreshInv
<1> QED
  BY <1>2, <1>3, ListsStep

LEMMA QuietKeeps ==
    ASSUME EventsInv, EventsInv', OnceInv, [Next]_vars, UNCHANGED <<ran, queuedTwice>>,
           NEW k \in Int, FramesShift(k, 0)
    PROVE  OnceInv'
<1>1. ListedInv' /\ \A e \in Elems, h \in Handler : KnownAt(e, h) => KnownAt(e, h)'
  BY ListsKeep DEF OnceInv
<1>2. QueuesBut(0)'
  BY <1>1, QueuesShift DEF OnceInv
<1>3. QueuesInv'
  <2>1. \A i \in DOMAIN frames' : i # 0
    <3>1. frames' \in Seq(Frames)
      BY DEF EventsInv, FramesInv
    <3> QED
      BY <3>1
  <2> QED
    BY <1>2, <2>1 DEF QueuesBut, QueuesInv
<1>4. FreshInv'
  BY FreshKeeps
<1>5. RanInv'
  BY DEF OnceInv, RanInv
<1> QED
  BY <1>1, <1>3, <1>4, <1>5 DEF OnceInv

\* What a walk queues is listed, so it has not run; what is queued again is noted.
LEMMA FreshQueue ==
    ASSUME EventsInv, ListedInv, FreshInv, NEW e \in Elems, NEW t \in OrigTypes, NEW target \in Elems,
           NEW queue \in Seq(Seq(Handler)), queue = HandlerQueue(e, t, target)
    PROVE  /\ \A h \in Queued(queue) : KnownAt(e, h) /\ ran[h.id] = 0
           /\ \A g \in DOMAIN queue : \A p, q \in DOMAIN queue[g] :
                 queue[g][p].id = queue[g][q].id => p = q
<1>1. PICK hs \in Seq(Handler) : hs = handlers[e][t]
  BY DEF EventsInv, RegistryInv
<1>2. \A g \in DOMAIN queue : \E C \in SUBSET (DOMAIN hs) : queue[g] = Only(hs, C)
  <2>1. Path(target) \in Seq(Elems) /\ handlers[e][t] \in Seq(Handler)
    BY PathType DEF EventsInv, RegistryInv
  <2> QED
    BY <1>1, <2>1, QueueFacts
<1>3. ASSUME NEW g \in DOMAIN queue PROVE Thinned(queue[g], hs)
  BY <1>2, ThinnedOnly
<1>4. ASSUME NEW g \in DOMAIN queue, NEW p \in DOMAIN queue[g]
      PROVE  \E q \in DOMAIN hs : queue[g][p] = hs[q]
  BY <1>3 DEF Thinned
<1>5. ASSUME NEW q \in DOMAIN hs PROVE KnownAt(e, hs[q]) /\ ran[hs[q].id] = 0
  BY <1>1 DEF ListedInv, KnownAt, FreshInv
<1>6. ASSUME NEW h \in Queued(queue) PROVE KnownAt(e, h) /\ ran[h.id] = 0
  <2>1. PICK g \in DOMAIN queue : \E p \in DOMAIN queue[g] : h = queue[g][p]
    BY DEF Queued
  <2>2. PICK q \in DOMAIN hs : h = hs[q]
    BY <1>4, <2>1
  <2> QED
    BY <1>5, <2>2
<1>7. \A i, j \in DOMAIN hs : hs[i].id = hs[j].id => i = j
  BY <1>1 DEF ListedInv
<1>8. ASSUME NEW g \in DOMAIN queue, NEW p \in DOMAIN queue[g], NEW q \in DOMAIN queue[g],
             queue[g][p].id = queue[g][q].id
      PROVE  p = q
  <2>1. PICK s \in [DOMAIN queue[g] -> DOMAIN hs] :
           /\ \A i \in DOMAIN queue[g] : queue[g][i] = hs[s[i]]
           /\ \A i, j \in DOMAIN queue[g] : i # j => s[i] # s[j]
    BY <1>3 DEF Thinned
  <2> QED
    BY <1>7, <1>8, <2>1
<1> QED
  BY <1>6, <1>8

LEMMA InRepeated ==
    ASSUME NEW queue \in Seq(Seq(Handler)), NEW g \in DOMAIN queue, NEW k \in DOMAIN queue, g # k,
           NEW p \in DOMAIN queue[g], NEW q \in DOMAIN queue[k], queue[g][p].id = queue[k][q].id
    PROVE  queue[g][p].id \in Repeated(queue)
<1>1. PICK id : id = queue[g][p].id
  OBVIOUS
<1>2. id \in IdsIn(queue[g]) /\ id \in IdsIn(queue[k])
  <2>1. queue[g][p] \in Range(queue[g]) /\ queue[k][q] \in Range(queue[k])
    BY DEF Range
  <2> QED
    BY <1>1, <2>1 DEF IdsIn
<1>3. id \in Ids(queue)
  <2>1. queue[g] \in Range(queue)
    BY DEF Range
  <2> QED
    BY <1>2, <2>1 DEF Ids
<1>4. g < k \/ k < g
  OBVIOUS
<1> QED
  BY <1>1, <1>2, <1>3, <1>4 DEF Repeated

LEMMA WalkKeeps ==
    ASSUME EventsInv, EventsInv', OnceInv, [Next]_vars, Walk
    PROVE  OnceInv'
<1>1. PICK e \in Elems, t \in OrigTypes, target \in Elems, queue \in Seq(Seq(Handler)), rest \in Walks :
         WalksOn(e, t, target, queue, rest)
  BY WalkStep
<1>2. frames # <<>> /\ frames[1].code = "walk"
  BY WalkStep
<1>3. UNCHANGED <<handlers, calls, ran>>
  BY DEF Walk, registry
<1>4. PICK d \in Frames : /\ d = DispatchFrame(e, queue) /\ d.code = "dispatch"
                          /\ d.elem = e /\ d.groups = queue
  BY DispatchIsFrame
<1>5. rest \in Frames /\ rest.code = "walk"
  BY DEF Walks, Frames
<1>6. frames' = <<d, rest>> \o Below
  BY <1>1, <1>4 DEF WalksOn
<1>7. FramesShift(-1, 1)
  BY <1>2, <1>5, <1>6, ShiftOne
<1>8. queuedTwice \subseteq queuedTwice' /\ Pending \cap Ids(queue) \subseteq queuedTwice'
      /\ Repeated(queue) \subseteq queuedTwice'
  BY <1>1 DEF WalksOn
<1>9. ListedInv' /\ \A x \in Elems, h \in Handler : KnownAt(x, h) => KnownAt(x, h)'
  BY ListsKeep DEF OnceInv
<1>10. QueuesBut(1)'
  BY <1>3, <1>7, <1>8, <1>9, QueuesShift DEF OnceInv
<1>11. QueueInv(e, queue)'
  <2>1. /\ \A h \in Queued(queue) : KnownAt(e, h) /\ ran[h.id] = 0
        /\ \A g \in DOMAIN queue : \A p, q \in DOMAIN queue[g] :
              queue[g][p].id = queue[g][q].id => p = q
    BY <1>1, FreshQueue DEF OnceInv, WalksOn
  <2>2. Apart(queue)'
    <3>1. ASSUME NEW g \in DOMAIN queue, NEW k \in DOMAIN queue,
                 NEW p \in DOMAIN queue[g], NEW q \in DOMAIN queue[k], queue[g][p].id = queue[k][q].id
          PROVE  (g = k /\ p = q) \/ (g # k /\ queue[g][p].id \in queuedTwice')
      BY <1>8, <2>1, <3>1, InRepeated
    <3> QED
      BY <3>1 DEF Apart
  <2>3. ASSUME NEW h \in Queued(queue) PROVE KnownAt(e, h)' /\ ran'[h.id] = 0
    <3>1. h \in Handler
      BY DEF Queued
    <3> QED
      BY <1>3, <1>9, <2>1, <3>1
  <2> QED
    BY <2>2, <2>3 DEF QueueInv
<1>12. frames' \in Seq(Frames) /\ frames'[1] = d
  <2>1. Below \in Seq(Frames)
    BY <1>2, TopFacts DEF EventsInv
  <2> QED
    BY <1>5, <1>6, <2>1, TwoOnTop
<1>13. ASSUME NEW j \in DOMAIN frames', j # 1, frames'[j].code = "dispatch"
       PROVE  Ids(frames'[j].groups) \cap Ids(queue) \subseteq queuedTwice'
  <2>1. PICK i : i = j + (-1)
    OBVIOUS
  <2>2. i \in DOMAIN frames /\ frames[i].code = "dispatch" /\ Within(frames'[j].groups, frames[i].groups)
    BY <1>7, <1>13, <2>1 DEF FramesShift
  <2>3. frames[i].groups \in Seq(Seq(Handler)) /\ frames'[j].groups \in Seq(Seq(Handler))
    BY <1>12, <1>13, <2>2, DispatchAt DEF EventsInv, FramesInv
  <2>4. Ids(frames'[j].groups) \subseteq Ids(frames[i].groups)
    BY <2>2, <2>3, WithinQueued
  <2>5. Ids(frames[i].groups) \subseteq Pending
    BY <2>2 DEF Pending
  <2> QED
    BY <1>8, <2>4, <2>5
<1>14. QueuesInv'
  <2>1. ASSUME NEW i \in DOMAIN frames', frames'[i].code = "dispatch"
        PROVE  QueueInv(frames[i].elem, frames[i].groups)'
    <3>1. CASE i = 1
      BY <1>4, <1>11, <1>12, <3>1
    <3>2. CASE i # 1
      BY <1>10, <2>1, <3>2 DEF QueuesBut
    <3> QED
      BY <3>1, <3>2
  <2>2. ASSUME NEW i \in DOMAIN frames', NEW j \in DOMAIN frames', i # j,
               frames'[i].code = "dispatch", frames'[j].code = "dispatch"
        PROVE  Ids(frames'[i].groups) \cap Ids(frames'[j].groups) \subseteq queuedTwice'
    <3>1. CASE i # 1 /\ j # 1
      BY <1>10, <2>2, <3>1 DEF QueuesBut
    <3>2. CASE i = 1
      BY <1>4, <1>12, <1>13, <2>2, <3>2
    <3>3. CASE j = 1
      BY <1>4, <1>12, <1>13, <2>2, <3>3
    <3> QED
      BY <3>1, <3>2, <3>3
  <2> QED
    BY <2>1, <2>2 DEF QueuesInv
<1>15. FreshInv'
  BY <1>3, FreshKeeps
<1>16. RanInv'
  BY <1>3, <1>8 DEF OnceInv, RanInv
<1> QED
  BY <1>9, <1>14, <1>15, <1>16 DEF OnceInv

LEMMA DispatchKeeps ==
    ASSUME EventsInv, EventsInv', OnceInv, [Next]_vars, Dispatch
    PROVE  OnceInv'
<1>1. PICK e \in Elems, groups \in Seq(Seq(Handler)), next \in Seq(Seq(Handler)), h \in Handler :
         GoesOn(e, groups, next, h)
  BY DispatchStep
<1>2. UNCHANGED <<calls, queuedTwice>>
  BY DEF Dispatch
<1>3. PICK top \in Seq(Seq(Handler)) : top = frames[1].groups
  BY <1>1 DEF GoesOn, Dispatches
<1>4. /\ frames # <<>> /\ 1 \in DOMAIN frames /\ frames[1].code = "dispatch" /\ frames[1].elem = e
      /\ groups = Left(top) /\ groups # <<>> /\ groups[1] # <<>> /\ h = groups[1][1]
      /\ next = <<Tail(groups[1])>> \o Tail(groups)
  BY <1>1, <1>3, DispatchStep, TopFacts DEF GoesOn, EventsInv, Dispatches
<1>5. QueueInv(e, top)
  BY <1>3, <1>4 DEF OnceInv, QueuesInv
<1>6. Within(groups, top) /\ Queued(groups) \subseteq Queued(top) /\ Apart(groups)
  BY <1>4, <1>5, WithinLeft, WithinQueued DEF QueueInv
<1>7. Within(next, top)
  BY <1>4, <1>6, WithinNext, WithinTrans
<1>8. 1 \in DOMAIN groups /\ 1 \in DOMAIN groups[1]
  BY <1>4, TailFacts
<1>9. h \in Queued(groups) /\ h.id \in 1 .. MaxCalls
  BY <1>4, <1>8, QueuedAt DEF Handler
<1>10. KnownAt(e, h) /\ (ran[h.id] # 0 => h.id \in queuedTwice)
  BY <1>5, <1>6, <1>9 DEF QueueInv
<1>11. PICK d \in Frames : d = DispatchFrame(e, next) /\ d.code = "dispatch" /\ d.elem = e /\ d.groups = next
  BY DispatchIsFrame
<1>12. HandlerFrame \in Frames /\ HandlerFrame.code = "handler"
  BY DEF Frames, HandlerFrame
<1>13. frames' = <<HandlerFrame, d>> \o Below
  BY <1>1, <1>11 DEF GoesOn
<1>14. FramesShift(-1, 0)
  BY <1>3, <1>4, <1>7, <1>11, <1>12, <1>13, ShiftOne
<1>15. ListedInv' /\ \A x \in Elems, g \in Handler : KnownAt(x, g) => KnownAt(x, g)'
  BY ListsKeep DEF OnceInv
<1>16. /\ \A id \in 1 .. MaxCalls : id # h.id => ran'[id] = ran[id]
       /\ ran'[h.id] = IF ~h.one \/ ran[h.id] = 2 THEN ran[h.id] ELSE ran[h.id] + 1
  BY <1>1, <1>9 DEF GoesOn, EventsInv
<1>17. CASE ~h.one
  <2>1. ran' = ran
    <3>1. ran' = [ran EXCEPT ![h.id] = ran[h.id]]
      BY <1>1, <1>17 DEF GoesOn
    <3> QED
      BY <3>1 DEF EventsInv
  <2> QED
    BY <1>2, <1>14, <2>1, QuietKeeps
<1>18. CASE h.one
  <2>1. RemoveHandlers(e, h.orig, h.selector, h.fn)
    BY <1>1, <1>18 DEF GoesOn, TakesOff
  \* Elsewhere on the stack it is only if it was queued twice.
  <2>2. ASSUME h.id \notin queuedTwice, NEW i \in DOMAIN frames', frames'[i].code = "dispatch"
        PROVE  h.id \notin Ids(frames'[i].groups)
    <3>1. frames' \in Seq(Frames) /\ frames \in Seq(Frames)
      BY DEF EventsInv, FramesInv
    <3>2. PICK j : j = i + (-1)
      OBVIOUS
    <3>3. j \in DOMAIN frames /\ frames[j].code = "dispatch" /\ Within(frames'[i].groups, frames[j].groups)
      <4>1. i # 0
        BY <3>1
      <4> QED
        BY <1>14, <2>2, <3>2, <4>1 DEF FramesShift
    <3>4. CASE i = 2
      <4>1. frames'[2] = d
        <5>1. Below \in Seq(Frames)
          BY <1>4, TopFacts DEF EventsInv
        <5> QED
          BY <1>11, <1>12, <1>13, <5>1, TwoOnTop
      <4>2. h.id \notin Ids(next)
        BY <1>4, <1>6, <2>2, WithinNext
      <4> QED
        BY <1>11, <3>4, <4>1, <4>2
    <3>5. CASE i # 2
      <4>1. j # 1
        BY <3>1, <3>2, <3>5
      <4>2. Ids(frames[1].groups) \cap Ids(frames[j].groups) \subseteq queuedTwice
        BY <1>4, <3>3, <4>1 DEF OnceInv, QueuesInv
      <4>3. h.id \in Ids(frames[1].groups)
        BY <1>3, <1>6, <1>9, IdsMean
      <4>4. Ids(frames'[i].groups) \subseteq Ids(frames[j].groups)
        BY <2>2, <3>1, <3>3, DispatchAt, WithinQueued
      <4> QED
        BY <2>2, <4>2, <4>3, <4>4
    <3> QED
      BY <3>4, <3>5
  <2>3. QueuesBut(0)'
    <3>1. \A id \in 1 .. MaxCalls :
             \/ ran'[id] = ran[id]
             \/ id \in queuedTwice'
             \/ \A i \in DOMAIN frames' :
                   i # 0 /\ frames'[i].code = "dispatch" => id \notin Ids(frames'[i].groups)
      BY <1>2, <1>16, <2>2
    <3>2. queuedTwice \subseteq queuedTwice'
      BY <1>2
    <3> QED
      BY <1>14, <1>15, <3>1, <3>2, QueuesShift DEF OnceInv
  <2>4. QueuesInv'
    <3>1. \A i \in DOMAIN frames' : i # 0
      <4>1. frames' \in Seq(Frames)
        BY DEF EventsInv, FramesInv
      <4> QED
        BY <4>1
    <3> QED
      BY <2>3, <3>1 DEF QueuesBut, QueuesInv
  <2>5. FreshInv'
    <3>1. ASSUME NEW f \in Elems, NEW u \in OrigTypes, NEW p \in DOMAIN handlers'[f][u]
          PROVE  ran'[handlers'[f][u][p].id] = 0
      <4>1. handlers'[f][u][p].id # h.id
        BY <1>10, <2>1, TakenOff DEF OnceInv
      <4>2. PICK q \in DOMAIN handlers[f][u] : handlers'[f][u][p] = handlers[f][u][q]
        BY <2>1, RemoveThins, ThinFrom DEF EventsInv
      <4>3. handlers[f][u][q].id \in 1 .. MaxCalls
        BY HandlerTypes DEF EventsInv
      <4> QED
        BY <1>16, <4>1, <4>2, <4>3 DEF OnceInv, FreshInv
    <3>2. ASSUME NEW id \in 1 .. MaxCalls, id > calls' PROVE ran'[id] = 0
      <4>1. id # h.id
        <5>1. h.id <= calls /\ calls \in Nat /\ id > calls
          BY <1>2, <1>10, <3>2, EventsAssumption DEF KnownAt, EventsInv
        <5> QED
          BY <1>9, <5>1
      <4> QED
        BY <1>2, <1>16, <3>2, <4>1 DEF OnceInv, FreshInv
    <3> QED
      BY <3>1, <3>2 DEF FreshInv
  <2>6. ASSUME NEW id \in 1 .. MaxCalls, ran'[id] = 2 PROVE id \in queuedTwice'
    <3>1. CASE id = h.id
      <4>1. ran[h.id] # 0
        BY <1>16, <2>6, <3>1
      <4> QED
        BY <1>2, <1>10, <3>1, <4>1
    <3>2. CASE id # h.id
      BY <1>2, <1>16, <2>6, <3>2 DEF OnceInv, RanInv
    <3> QED
      BY <3>1, <3>2
  <2> QED
    BY <1>15, <2>4, <2>5, <2>6 DEF OnceInv, RanInv
<1> QED
  BY <1>17, <1>18

LEMMA OnTopShift ==
    ASSUME EventsInv, WalksOnTop
    PROVE  \E k \in Int : FramesShift(k, 0)
<1>1. CASE UNCHANGED frames
  <2>1. FramesShift(0, 0)
    BY <1>1, ShiftSame
  <2> QED
    BY <2>1
<1>2. ASSUME NEW f \in Frames, IsWalk(f), frames' = <<f>> \o frames
      PROVE  FramesShift(-1, 0)
  BY <1>2, ShiftUp DEF IsWalk
<1>3. ASSUME NEW f \in Frames, NEW g \in Frames, IsWalk(f), IsWalk(g),
             frames' = <<f>> \o (<<g>> \o frames)
      PROVE  FramesShift(-2, 0)
  <2>1. PICK old \in Seq(Frames) : old = frames
    BY DEF EventsInv, FramesInv
  <2>2. PICK mid \in Seq(Frames) : /\ mid = <<g>> \o old /\ Len(mid) = Len(old) + 1 /\ mid[1] = g
                                   /\ \A i \in DOMAIN old : mid[i + 1] = old[i]
    <3>1. PICK m : m = <<g>> \o old
      OBVIOUS
    <3>2. m \in Seq(Frames) /\ Len(m) = Len(old) + 1 /\ m[1] = g /\ \A i \in DOMAIN old : m[i + 1] = old[i]
      BY <3>1, OneOnTop
    <3> QED
      BY <3>1, <3>2
  <2>3. PICK new : new = frames'
    OBVIOUS
  <2>4. /\ new \in Seq(Frames) /\ Len(new) = Len(mid) + 1 /\ new[1] = f
        /\ \A i \in DOMAIN mid : new[i + 1] = mid[i]
    BY <1>3, <2>1, <2>2, <2>3, OneOnTop
  <2>5. ASSUME NEW i \in DOMAIN new, new[i].code = "dispatch"
        PROVE  /\ i + (-2) \in DOMAIN old /\ old[i + (-2)] = new[i]
               /\ Within(new[i].groups, new[i].groups)
    <3>1. 1 \in DOMAIN mid /\ new[1 + 1] = g
      BY <2>2, <2>4
    <3>2. i # 1 /\ i # 2
      BY <1>3, <2>4, <2>5, <3>1 DEF IsWalk
    <3>3. PICK j : j = i + (-2)
      OBVIOUS
    <3>4. j \in DOMAIN old /\ j + 1 \in DOMAIN mid /\ (j + 1) + 1 = i
      BY <2>2, <2>4, <3>2, <3>3
    <3>5. old[j] = new[i]
      BY <2>2, <2>4, <3>4
    <3> QED
      BY <2>4, <2>5, <3>3, <3>4, <3>5, DispatchAt, WithinSame
  <2> QED
    BY <2>1, <2>3, <2>5 DEF FramesShift
<1>4. CASE \E f \in Frames : IsWalk(f) /\ frames' = <<f>> \o frames
  <2>1. -1 \in Int /\ FramesShift(-1, 0)
    BY <1>2, <1>4
  <2> QED
    BY <2>1
<1>5. CASE \E f, g \in Frames : IsWalk(f) /\ IsWalk(g) /\ frames' = <<f>> \o (<<g>> \o frames)
  <2>1. PICK f \in Frames, g \in Frames : IsWalk(f) /\ IsWalk(g) /\ frames' = <<f>> \o (<<g>> \o frames)
    BY <1>5
  <2>2. FramesShift(-2, 0)
    BY <1>3, <2>1, Zenon
  <2>3. -2 \in Int
    OBVIOUS
  <2> QED
    BY <2>2, <2>3
<1> QED
  BY <1>1, <1>4, <1>5 DEF WalksOnTop

LEMMA OnceStep == EventsInv /\ EventsInv' /\ OnceInv /\ [Next]_vars => OnceInv'
<1> SUFFICES ASSUME EventsInv, EventsInv', OnceInv, [Next]_vars PROVE OnceInv'
  OBVIOUS
<1>1. CASE UNCHANGED <<frames, ran, queuedTwice>>
  BY <1>1, ShiftSame, QuietKeeps
<1>2. ASSUME NEW e \in Elems, NEW t \in OrigTypes, NEW only \in BOOLEAN, Trigger(e, t, only)
      PROVE  OnceInv'
  <2>1. PICK k \in Int : FramesShift(k, 0)
    BY <1>2, TriggerOnTop, OnTopShift
  <2>2. UNCHANGED <<ran, queuedTwice>>
    BY <1>2 DEF Trigger
  <2> QED
    BY <2>1, <2>2, QuietKeeps
<1>3. CASE Page
  BY <1>1, <1>2, <1>3 DEF Page, Bind, Off, RemoveElem, Empty, PutBack
<1>4. ASSUME NEW e \in Elems, NEW t \in OrigTypes, Native(e, t) PROVE OnceInv'
  <2>1. PICK k \in Int : FramesShift(k, 0)
    BY <1>4, SentOnTop, OnTopShift DEF Native
  <2>2. UNCHANGED <<ran, queuedTwice>>
    BY <1>4 DEF Native
  <2> QED
    BY <2>1, <2>2, QuietKeeps
<1>5. CASE Walked \/ Dispatched \/ Returns
  <2>1. frames # <<>> /\ frames' = Below /\ UNCHANGED <<ran, queuedTwice>>
    BY <1>5 DEF Walked, Dispatched, Returns, On
  <2> QED
    BY <2>1, ShiftDown, QuietKeeps
<1>6. ASSUME NEW immediate \in BOOLEAN, Stops(immediate) PROVE OnceInv'
  <2>1. FramesShift(1, 0)
    BY <1>6, ShiftStops
  <2>2. UNCHANGED <<ran, queuedTwice>>
    BY <1>6 DEF Stops
  <2> QED
    BY <2>1, <2>2, QuietKeeps
<1> QED
  BY <1>1, <1>3, <1>4, <1>5, <1>6, WalkKeeps, DispatchKeeps DEF Next, vars

LEMMA OnceStart == Init => OnceInv
<1> SUFFICES ASSUME Init PROVE OnceInv
  OBVIOUS
<1>1. /\ \A e \in Elems, t \in OrigTypes : handlers[e][t] = <<>>
      /\ frames = <<>>
      /\ \A id \in 1 .. MaxCalls : ran[id] = 0
  BY DEF Init
<1>2. DOMAIN <<>> = {}
  OBVIOUS
<1>3. ListedInv
  BY <1>1, <1>2 DEF ListedInv
<1>4. QueuesInv
  BY <1>1, <1>2 DEF QueuesInv
<1>5. FreshInv
  BY <1>1, <1>2 DEF FreshInv
<1>6. RanInv
  BY <1>1 DEF RanInv
<1> QED
  BY <1>3, <1>4, <1>5, <1>6 DEF OnceInv

\* A handler bound with one runs once, and is gone when it runs, however dispatches
\* nest and whatever is bound and removed meanwhile; twice at most where it was
\* queued again before it ran.
THEOREM OneAlwaysRunsOnce == Spec => []OneRunsOnce
<1>1. OnceInv => OneRunsOnce
  <2> SUFFICES ASSUME OnceInv PROVE OneRunsOnce
    OBVIOUS
  <2>1. ASSUME NEW e \in Elems, NEW t \in OrigTypes, NEW h \in Range(handlers[e][t])
        PROVE  ran[h.id] = 0
    <3>1. PICK p \in DOMAIN handlers[e][t] : h = handlers[e][t][p]
      BY DEF Range
    <3> QED
      BY <3>1 DEF OnceInv, FreshInv
  <2> QED
    BY <2>1 DEF OnceInv, RanInv, OneRunsOnce
<1> QED
  BY <1>1, OnceStart, OnceStep, EventsInvariance, PTL DEF Spec

=============================================================================
