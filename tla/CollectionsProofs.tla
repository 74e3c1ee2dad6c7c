------------------------- MODULE CollectionsProofs -------------------------
(***************************************************************************)
(* Proofs about Collections: a list is a sequence and a map a function for *)
(* every initial capacity, number of buckets and hash function, and every  *)
(* block of string data has one owner.                                     *)
(***************************************************************************)
EXTENDS Collections, FiniteSetTheorems, SequenceTheorems, TLAPS

(* What an element of an array or an entry holds: a number or a block. *)
Item == Numbers \cup Nat

BucketNumbers == 0..(BucketCount - 1)

Entry == [key : Nat, value : Item]

(* Finitely many blocks, each with a string. *)
HeapOK(h) ==
  /\ IsFiniteSet(DOMAIN h)
  /\ DOMAIN h \subseteq Nat
  /\ h \in [DOMAIN h -> Strings]

(* An array with room for one element at least, filled up to its size. *)
ListShape(d) ==
  /\ d \in [slots : Seq(Item), size : Nat]
  /\ d.size <= Len(d.slots)
  /\ Len(d.slots) # 0

(* Each element has a block of its own, and no other block is in use. *)
StringList(d, h) ==
  /\ \A i, j \in 1..d.size : d.slots[i] = d.slots[j] => i = j
  /\ DOMAIN h = {d.slots[i] : i \in 1..d.size}

NumberList(d, h) ==
  /\ \A i \in 1..d.size : d.slots[i] \in Numbers
  /\ DOMAIN h = {}

ListOK ==
  IsList /\ Live =>
    /\ ListShape(data)
    /\ OfStrings => StringList(data, heap)
    /\ ~OfStrings => NumberList(data, heap)

MapShape(d) == d \in [buckets : [BucketNumbers -> Seq(Entry)], size : Nat]

EntriesOf(d) == UNION {ToSet(d.buckets[n]) : n \in BucketNumbers}

Distinct(s) == \A i, j \in 1..Len(s) : s[i] = s[j] => i = j

(* Each chain has an entry once, and holds the keys that its hash leads    *)
(* to: what Find looks through is all there is of a key.                   *)
ChainsOK(d, h) ==
  \A n \in BucketNumbers :
    /\ Distinct(d.buckets[n])
    /\ \A x \in ToSet(d.buckets[n]) : hash[h[x.key]] = n

(* One entry for each key, as many as size says. *)
KeysOK(E, h, n) ==
  /\ IsFiniteSet(E) /\ Cardinality(E) = n
  /\ \A e, f \in E : h[e.key] = h[f.key] => e = f

(* Keys and values have blocks of their own, and no other is in use. *)
StringEntries(E, h) ==
  /\ \A e, f \in E : e.key # f.value /\ (e.value = f.value => e = f)
  /\ DOMAIN h = {e.key : e \in E} \cup {e.value : e \in E}

NumberEntries(E, h) ==
  /\ \A e \in E : e.value \in Numbers
  /\ DOMAIN h = {e.key : e \in E}

(* What a step leaves alone: the keys of the entries of E. *)
SameKeys(E, h, g) == \A x \in E : g[x.key] = h[x.key]

SameValues(E, h, g) == \A x \in E : g[x.value] = h[x.value]

NoKey(E, h, k) == \A x \in E : h[x.key] # k

HashedTo(E, h, n) == \A x \in E : hash[h[x.key]] = n

KeyHeld(f, x, k) == f[x.key] = k

ValueHeld(f, x, v) ==
  /\ OfStrings => x.value \in DOMAIN f /\ f[x.value] = Copied(v)
  /\ ~OfStrings => x.value = v

EntryOf(b, x) == [key |-> b, value |-> x]

Exchanged(S, out, in) == (S \ out) \cup in

EntriesOK(E, h, n) ==
  /\ KeysOK(E, h, n)
  /\ OfStrings => StringEntries(E, h)
  /\ ~OfStrings => NumberEntries(E, h)

MapAt(d, h) ==
  /\ MapShape(d) /\ HeapOK(h)
  /\ ChainsOK(d, h)
  /\ EntriesOK(EntriesOf(d), h, d.size)

MapOK == IsMap /\ Live => MapAt(data, heap)

IInv ==
  /\ class \in Classes
  /\ IsMap => hash \in [Strings -> BucketNumbers]
  /\ HeapOK(heap)
  /\ misuse = FALSE
  /\ ~Live => DOMAIN heap = {}
  /\ ListOK
  /\ MapOK
-----------------------------------------------------------------------------
(* The heap. *)

LEMMA FreshIsNew ==
  ASSUME NEW h, HeapOK(h)
  PROVE  Fresh(h) \in Nat /\ Fresh(h) \notin DOMAIN h
<1> DEFINE n == Cardinality(DOMAIN h)
<1>1. n \in Nat
  BY FS_CardinalityType DEF HeapOK
<1>2. IsFiniteSet(1..(n + 1)) /\ Cardinality(1..(n + 1)) = n + 1
  BY <1>1, FS_Interval
<1>3. ~(1..(n + 1) \subseteq DOMAIN h)
  BY <1>1, <1>2, FS_Subset DEF HeapOK
<1>4. \E b \in 1..(n + 1) : b \notin DOMAIN h
  BY <1>3
<1>5. Fresh(h) \in 1..(n + 1) /\ Fresh(h) \notin DOMAIN h
  BY <1>4 DEF Fresh
<1> QED  BY <1>1, <1>5

LEMMA HeapWith ==
  ASSUME NEW h, HeapOK(h), NEW b \in Nat, NEW s \in Strings
  PROVE  /\ HeapOK(With(h, b, s))
         /\ DOMAIN With(h, b, s) = DOMAIN h \cup {b}
         /\ With(h, b, s)[b] = s
         /\ \A c \in DOMAIN h \ {b} : With(h, b, s)[c] = h[c]
<1>1. IsFiniteSet(DOMAIN h \cup {b})
  BY FS_AddElement DEF HeapOK
<1> QED  BY <1>1 DEF With, HeapOK

LEMMA HeapWithIs ==
  ASSUME NEW h, HeapOK(h), NEW b \in Nat, NEW s \in Strings, NEW g, g = With(h, b, s)
  PROVE  /\ HeapOK(g) /\ DOMAIN g = DOMAIN h \cup {b}
         /\ g[b] = s
         /\ \A c \in DOMAIN h : c # b => g[c] = h[c]
<1>1. HeapOK(g)
  BY HeapWith
<1> QED  BY <1>1 DEF With

LEMMA HeapWithout ==
  ASSUME NEW h, HeapOK(h), NEW bs
  PROVE  /\ HeapOK(Without(h, bs))
         /\ DOMAIN Without(h, bs) = DOMAIN h \ bs
         /\ \A c \in DOMAIN h \ bs : Without(h, bs)[c] = h[c]
<1>1. IsFiniteSet(DOMAIN h \ bs)
  BY FS_Difference DEF HeapOK
<1> QED  BY <1>1 DEF Without, HeapOK

LEMMA CopiedIsString ==
  ASSUME OfStrings, NEW v \in Values
  PROVE  Copied(v) \in Strings
BY StringsAssumption DEF Copied, Values

LEMMA StoredString ==
  ASSUME OfStrings, NEW h, HeapOK(h), NEW v \in Values
  PROVE  /\ Stored(h, v) \in Nat
         /\ Stored(h, v) \notin DOMAIN h
         /\ StoredHeap(h, v) = With(h, Stored(h, v), Copied(v))
BY FreshIsNew DEF Stored, StoredHeap

LEMMA StoredNumber ==
  ASSUME ~OfStrings, NEW h, NEW v \in Values
  PROVE  Stored(h, v) = v /\ v \in Numbers /\ StoredHeap(h, v) = h
BY DEF Stored, StoredHeap, Values

(* Different places with different contents make a set as large as theirs. *)
LEMMA ImageCardinality ==
  ASSUME NEW S, IsFiniteSet(S), NEW T, NEW f,
         \A x \in S : f[x] \in T,
         \A y \in T : \E x \in S : f[x] = y,
         \A x, y \in S : f[x] = f[y] => x = y
  PROVE  IsFiniteSet(T) /\ Cardinality(T) = Cardinality(S)
<1> DEFINE g == [x \in S |-> f[x]]
<1>1. g \in Bijection(S, T)
  BY DEF Bijection, Injection, Surjection, IsInjective
<1>2. ExistsBijection(S, T)
  BY <1>1 DEF ExistsBijection
<1> QED  BY <1>2, FS_Bijection

-----------------------------------------------------------------------------
(* Lists. *)

LEMMA RoomShape ==
  ASSUME NEW d, ListShape(d)
  PROVE  /\ Room(d) \in Seq(Item)
         /\ d.size < Len(Room(d))
         /\ \A i \in 1..d.size : Room(d)[i] = d.slots[i]
<1> DEFINE s == d.slots
           more == [i \in 1..Len(s) |-> Junk]
<1>1. s \in Seq(Item) /\ Len(s) \in Nat /\ Len(s) # 0 /\ d.size \in Nat /\ d.size <= Len(s)
  BY DEF ListShape
<1>2. more \in Seq(Item) /\ Len(more) = Len(s)
  BY <1>1 DEF Item, Junk
<1>3. CASE d.size >= Len(s)
  <2>1. Room(d) = s \o more
    BY <1>3 DEF Room
  <2> HIDE DEF s, more
  <2>2. s \o more \in Seq(Item) /\ Len(s \o more) = Len(s) + Len(s)
        /\ \A i \in 1..Len(s) : (s \o more)[i] = s[i]
    BY <1>1, <1>2, ConcatProperties
  <2>3. Room(d)  \in Seq(Item) /\ d.size < Len(Room(d)) /\ \A i \in 1..d.size : Room(d)[i] = s[i]
    BY <1>1, <2>1, <2>2
  <2> QED  BY <2>3 DEF s
<1>4. CASE d.size < Len(s)
  BY <1>1, <1>4 DEF Room
<1> QED  BY <1>1, <1>3, <1>4

(* Add, in the array. *)
Added(d, x) == [slots |-> [Room(d) EXCEPT ![d.size + 1] = x], size |-> d.size + 1]

LEMMA AddShape ==
  ASSUME NEW d, ListShape(d), NEW x \in Item,
         NEW e, e = Added(d, x)
  PROVE  /\ ListShape(e)
         /\ e.size = d.size + 1
         /\ e.slots[d.size + 1] = x
         /\ \A i \in 1..d.size : e.slots[i] = d.slots[i]
<1>1. d.size \in Nat
  BY DEF ListShape
<1>2. PICK r \in Seq(Item) : r = Room(d) /\ d.size < Len(r) /\ \A i \in 1..d.size : r[i] = d.slots[i]
  BY RoomShape
<1>3. e.slots = [r EXCEPT ![d.size + 1] = x] /\ e.size = d.size + 1
  BY <1>2 DEF Added
<1>4. Len(r) \in Nat
  BY <1>2
<1>5. e = [slots |-> e.slots, size |-> e.size]
  BY DEF Added
<1> DEFINE t == [r EXCEPT ![d.size + 1] = x]
<1>6. /\ t \in Seq(Item) /\ Len(t) = Len(r) /\ t[d.size + 1] = x
      /\ \A i \in 1..d.size : t[i] = r[i]
  BY <1>1, <1>2, <1>4
<1>7. e.slots = t
  BY <1>3
<1> HIDE DEF t
<1> QED  BY <1>1, <1>2, <1>3, <1>4, <1>5, <1>6, <1>7 DEF ListShape

LEMMA AddString ==
  ASSUME NEW d, ListShape(d), NEW h, HeapOK(h), StringList(d, h),
         NEW b \in Nat, b \notin DOMAIN h, NEW s \in Strings,
         NEW e, e = Added(d, b)
  PROVE  ListShape(e) /\ StringList(e, With(h, b, s))
<1>1. /\ ListShape(e) /\ d.size \in Nat /\ e.size = d.size + 1 /\ e.slots[d.size + 1] = b
      /\ \A i \in 1..d.size : e.slots[i] = d.slots[i]
  <2>1. b \in Item
    BY DEF Item
  <2>2. d.size \in Nat
    BY DEF ListShape
  <2> QED  BY <2>1, <2>2, AddShape
<1>2. DOMAIN With(h, b, s) = DOMAIN h \cup {b}
  BY HeapWith
<1>3. \A i \in 1..d.size : d.slots[i] # b
  BY DEF StringList
<1>4. {e.slots[i] : i \in 1..e.size} = {d.slots[i] : i \in 1..d.size} \cup {b}
  BY <1>1
<1>5. \A i, j \in 1..e.size : e.slots[i] = e.slots[j] => i = j
  BY <1>1, <1>3 DEF StringList
<1> QED  BY <1>1, <1>2, <1>4, <1>5 DEF StringList

LEMMA AddNumber ==
  ASSUME NEW d, ListShape(d), NEW h, NumberList(d, h), NEW v \in Numbers,
         NEW e, e = Added(d, v)
  PROVE  ListShape(e) /\ NumberList(e, h)
<1>1. /\ ListShape(e) /\ d.size \in Nat /\ e.size = d.size + 1 /\ e.slots[d.size + 1] = v
      /\ \A i \in 1..d.size : e.slots[i] = d.slots[i]
  <2>1. v \in Item
    BY DEF Item
  <2>2. d.size \in Nat
    BY DEF ListShape
  <2> QED  BY <2>1, <2>2, AddShape
<1> QED  BY <1>1 DEF NumberList

(* Set, in the array. *)
SlotSet(d, k, x) == [d EXCEPT !.slots[k] = x]

LEMMA SetShape ==
  ASSUME NEW d, ListShape(d), NEW k \in 1..d.size, NEW x \in Item,
         NEW e, e = SlotSet(d, k, x)
  PROVE  /\ ListShape(e) /\ d.size \in Nat /\ e.size = d.size
         /\ e.slots[k] = x
         /\ \A i \in 1..d.size : i # k => e.slots[i] = d.slots[i]
<1>1. PICK s, n : s = d.slots /\ n = d.size
  OBVIOUS
<1>2. /\ s \in Seq(Item) /\ n \in Nat /\ n <= Len(s) /\ Len(s) # 0 /\ k \in 1..n
      /\ d = [slots |-> s, size |-> n]
  BY <1>1 DEF ListShape
<1>3. PICK t : t = [s EXCEPT ![k] = x]
  OBVIOUS
<1>4. e = [slots |-> t, size |-> n]
  BY <1>2, <1>3 DEF SlotSet
<1>5. t \in Seq(Item) /\ Len(t) = Len(s) /\ t[k] = x /\ \A i \in 1..n : i # k => t[i] = s[i]
  BY <1>2, <1>3
<1>6. e.slots = t /\ e.size = n /\ e \in [slots : Seq(Item), size : Nat]
  BY <1>2, <1>4, <1>5
<1>7. ListShape(e)
  BY <1>2, <1>5, <1>6 DEF ListShape
<1> QED  BY <1>1, <1>2, <1>5, <1>6, <1>7

LEMMA SetString ==
  ASSUME NEW d, ListShape(d), NEW h, HeapOK(h), StringList(d, h), NEW k \in 1..d.size,
         NEW s \in Strings, NEW f, f = Without(h, {d.slots[k]}),
         NEW b \in Nat, b \notin DOMAIN f,
         NEW e, e = SlotSet(d, k, b)
  PROVE  ListShape(e) /\ StringList(e, With(f, b, s))
<1>1. /\ ListShape(e) /\ d.size \in Nat /\ e.size = d.size /\ e.slots[k] = b
      /\ \A i \in 1..d.size : i # k => e.slots[i] = d.slots[i]
  <2>1. b \in Item
    BY DEF Item
  <2> QED  BY <2>1, SetShape
<1>2. HeapOK(f) /\ DOMAIN f = DOMAIN h \ {d.slots[k]}
  BY HeapWithout
<1>3. DOMAIN With(f, b, s) = DOMAIN f \cup {b}
  BY DEF With
<1>4. \A i \in 1..d.size : i # k => d.slots[i] \in DOMAIN f
  BY <1>2 DEF StringList
<1>5. DOMAIN f = {d.slots[i] : i \in (1..d.size) \ {k}}
  BY <1>2 DEF StringList
<1>6. {e.slots[i] : i \in 1..e.size} = DOMAIN f \cup {b}
  BY <1>1, <1>5
<1>7. \A i, j \in 1..e.size : e.slots[i] = e.slots[j] => i = j
  <2>1. \A i \in 1..d.size : i # k => e.slots[i] # b
    BY <1>1, <1>4
  <2>2. \A i, j \in 1..d.size : d.slots[i] = d.slots[j] => i = j
    BY DEF StringList
  <2> QED  BY <1>1, <2>1, <2>2
<1> QED  BY <1>1, <1>3, <1>6, <1>7 DEF StringList

LEMMA SetNumber ==
  ASSUME NEW d, ListShape(d), NEW h, NumberList(d, h), NEW k \in 1..d.size, NEW v \in Numbers,
         NEW e, e = SlotSet(d, k, v)
  PROVE  ListShape(e) /\ NumberList(e, h)
<1>1. /\ ListShape(e) /\ d.size \in Nat /\ e.size = d.size /\ e.slots[k] = v
      /\ \A i \in 1..d.size : i # k => e.slots[i] = d.slots[i]
  <2>1. v \in Item
    BY DEF Item
  <2> QED  BY <2>1, SetShape
<1> QED  BY <1>1 DEF NumberList

(* RemoveAt, in the array: what lies behind the gap moves up by one. *)
LEMMA CloseShape ==
  ASSUME NEW d, ListShape(d), NEW i \in 0..(d.size - 1), NEW e, e = Closed(d, i)
  PROVE  /\ ListShape(e) /\ e.size = d.size - 1
         /\ \A k \in 1..e.size : e.slots[k] = IF k <= i THEN d.slots[k] ELSE d.slots[k + 1]
<1> DEFINE s == [k \in 1..Len(d.slots) |->
                  IF k \in (i + 1)..(d.size - 1) THEN d.slots[k + 1] ELSE d.slots[k]]
<1>1. d.slots \in Seq(Item) /\ Len(d.slots) \in Nat /\ Len(d.slots) # 0
      /\ d.size \in Nat /\ d.size <= Len(d.slots)
  BY DEF ListShape
<1>2. s \in Seq(Item) /\ Len(s) = Len(d.slots)
  BY <1>1
<1>3. e = [d EXCEPT !.size = d.size - 1, !.slots = s]
  BY DEF Closed, ListShape
<1>4. e.size = d.size - 1 /\ e.slots = s /\ e \in [slots : Seq(Item), size : Nat]
  <2> HIDE DEF s
  <2>1. d = [slots |-> d.slots, size |-> d.size]
    BY DEF ListShape
  <2>2. e = [slots |-> s, size |-> d.size - 1]
    BY <1>3, <2>1
  <2> QED  BY <1>1, <1>2, <2>2
<1> QED  BY <1>1, <1>2, <1>4 DEF ListShape

LEMMA CloseString ==
  ASSUME NEW d, ListShape(d), NEW h, HeapOK(h), StringList(d, h),
         NEW i \in 0..(d.size - 1), NEW e, e = Closed(d, i)
  PROVE  ListShape(e) /\ StringList(e, Without(h, {d.slots[i + 1]}))
<1>1. /\ ListShape(e) /\ d.size \in Nat /\ e.size = d.size - 1
      /\ \A k \in 1..e.size : e.slots[k] = IF k <= i THEN d.slots[k] ELSE d.slots[k + 1]
  BY CloseShape DEF ListShape
<1>2. DOMAIN Without(h, {d.slots[i + 1]}) = DOMAIN h \ {d.slots[i + 1]}
  BY HeapWithout
<1>3. DOMAIN h \ {d.slots[i + 1]} = {d.slots[k] : k \in (1..d.size) \ {i + 1}}
  BY <1>1 DEF StringList
<1>4. {e.slots[k] : k \in 1..e.size} \subseteq {d.slots[k] : k \in (1..d.size) \ {i + 1}}
  BY <1>1
<1>5. ASSUME NEW k \in (1..d.size) \ {i + 1}
      PROVE  d.slots[k] \in {e.slots[j] : j \in 1..e.size}
  <2>1. CASE k <= i
    BY <1>1, <2>1
  <2>2. CASE k > i
    <3>1. k - 1 \in 1..e.size /\ ~(k - 1 <= i) /\ (k - 1) + 1 = k
      BY <1>1, <2>2
    <3> QED  BY <1>1, <3>1
  <2> QED  BY <1>1, <2>1, <2>2
<1>6. \A k, j \in 1..e.size : e.slots[k] = e.slots[j] => k = j
  BY <1>1 DEF StringList
<1>7. DOMAIN Without(h, {d.slots[i + 1]}) = {e.slots[k] : k \in 1..e.size}
  <2>1. {d.slots[k] : k \in (1..d.size) \ {i + 1}} \subseteq {e.slots[k] : k \in 1..e.size}
    BY <1>5
  <2> QED  BY <1>2, <1>3, <1>4, <2>1
<1> QED  BY <1>1, <1>6, <1>7 DEF StringList

LEMMA CloseNumber ==
  ASSUME NEW d, ListShape(d), NEW h, NumberList(d, h), NEW i \in 0..(d.size - 1), NEW e, e = Closed(d, i)
  PROVE  ListShape(e) /\ NumberList(e, h)
<1>1. /\ ListShape(e) /\ d.size \in Nat /\ e.size = d.size - 1
      /\ \A k \in 1..e.size : e.slots[k] = IF k <= i THEN d.slots[k] ELSE d.slots[k + 1]
  BY CloseShape DEF ListShape
<1> QED  BY <1>1 DEF NumberList
-----------------------------------------------------------------------------
(* Each operation of a list keeps the invariant. *)

LEMMA ListKeeps ==
  ASSUME IInv, IsList, SameObject, misuse' = FALSE, HeapOK(heap'), ListShape(data'),
         OfStrings => StringList(data', heap'), ~OfStrings => NumberList(data', heap')
  PROVE  IInv'
<1>1. Live'
  BY DEF ListShape, Live, Null
<1>2. /\ IsList' /\ ~IsMap' /\ (OfStrings' <=> OfStrings) /\ class' \in Classes
  BY DEF IInv, SameObject, IsList, IsMap, OfStrings
<1> QED  BY <1>1, <1>2 DEF IInv, ListOK, MapOK

LEMMA EmptyKeeps ==
  ASSUME IInv, SameObject, misuse' = FALSE, data' = Null, HeapOK(heap'), DOMAIN heap' = {}
  PROVE  IInv'
<1>1. ~Live' /\ (IsMap' <=> IsMap) /\ hash' = hash /\ class' = class
  BY DEF Live, SameObject, IsMap, IsList
<1> QED  BY <1>1 DEF IInv, ListOK, MapOK

LEMMA FreeOne ==
  ASSUME IInv, NEW x, OfStrings => x \in DOMAIN heap
  PROVE  Misused(Owned(x), ValueBlocks) = FALSE
<1>1. CASE OfStrings
  BY <1>1, FS_Singleton DEF IInv, Misused, Owned, ValueBlocks
<1>2. CASE ~OfStrings
  BY <1>2, FS_EmptySet DEF IInv, Misused, Owned, ValueBlocks
<1> QED  BY <1>1, <1>2

LEMMA WithoutNothing ==
  ASSUME NEW h, HeapOK(h)
  PROVE  Without(h, {}) = h
BY DEF Without, HeapOK

LEMMA ListInitKeeps == ASSUME IInv, ListInit PROVE IInv'
<1>1. /\ IsList /\ SameObject /\ misuse' = FALSE /\ heap' = heap /\ HeapOK(heap') /\ DOMAIN heap' = {}
  BY DEF IInv, ListInit, Live
<1>2. /\ ListShape(data') /\ data'.size = 0
  BY SizesAssumption DEF ListInit, ListShape, Item, Junk
<1>3. StringList(data', heap') /\ NumberList(data', heap')
  BY <1>1, <1>2 DEF StringList, NumberList
<1> QED  BY <1>1, <1>2, <1>3, ListKeeps

LEMMA ListAddKeeps == ASSUME IInv, NEW v \in Values, ListAdd(v) PROVE IInv'
<1>1. /\ IsList /\ SameObject /\ misuse' = FALSE /\ HeapOK(heap) /\ ListShape(data)
      /\ data' = Added(data, Stored(heap, v)) /\ heap' = StoredHeap(heap, v)
      /\ OfStrings => StringList(data, heap)
      /\ ~OfStrings => NumberList(data, heap)
  BY DEF IInv, ListOK, ListAdd, Added, Size
<1>2. CASE OfStrings
  <2>1. /\ Stored(heap, v) \in Nat /\ Stored(heap, v) \notin DOMAIN heap
        /\ heap' = With(heap, Stored(heap, v), Copied(v)) /\ Copied(v) \in Strings
    BY <1>1, <1>2, StoredString, CopiedIsString
  <2>2. ListShape(data') /\ StringList(data', With(heap, Stored(heap, v), Copied(v)))
    BY <1>1, <1>2, <2>1, AddString
  <2>3. HeapOK(With(heap, Stored(heap, v), Copied(v)))
    BY <1>1, <2>1, HeapWith
  <2> QED  BY <1>1, <1>2, <2>1, <2>2, <2>3, ListKeeps
<1>3. CASE ~OfStrings
  BY <1>1, <1>3, StoredNumber, AddNumber, ListKeeps
<1> QED  BY <1>2, <1>3

LEMMA ListSetKeeps == ASSUME IInv, NEW v \in Values, NEW i, ListSet(i, v) PROVE IInv'
<1> DEFINE freed == Without(heap, Owned(data.slots[i + 1]))
<1>1. /\ IsList /\ SameObject /\ HeapOK(heap) /\ ListShape(data) /\ i + 1 \in 1..data.size
      /\ misuse' = Misused(Owned(data.slots[i + 1]), ValueBlocks)
      /\ data' = SlotSet(data, i + 1, Stored(freed, v)) /\ heap' = StoredHeap(freed, v)
      /\ OfStrings => StringList(data, heap)
      /\ ~OfStrings => NumberList(data, heap)
  BY DEF IInv, ListOK, ListSet, InRange, Size, ListShape, SlotSet
<1>2. misuse' = FALSE
  BY <1>1, FreeOne DEF StringList
<1>3. HeapOK(freed)
  BY <1>1, HeapWithout
<1>4. CASE OfStrings
  <2>1. freed = Without(heap, {data.slots[i + 1]})
    BY <1>4 DEF Owned
  <2> HIDE DEF freed
  <2>2. /\ Stored(freed, v) \in Nat /\ Stored(freed, v) \notin DOMAIN freed
        /\ heap' = With(freed, Stored(freed, v), Copied(v)) /\ Copied(v) \in Strings
    BY <1>1, <1>3, <1>4, StoredString, CopiedIsString
  <2>3. ListShape(data') /\ StringList(data', With(freed, Stored(freed, v), Copied(v)))
    BY <1>1, <1>3, <1>4, <2>1, <2>2, SetString
  <2>4. HeapOK(With(freed, Stored(freed, v), Copied(v)))
    BY <1>3, <2>2, HeapWith
  <2> QED  BY <1>1, <1>2, <1>4, <2>2, <2>3, <2>4, ListKeeps
<1>5. CASE ~OfStrings
  <2>1. freed = heap
    BY <1>1, <1>5, WithoutNothing DEF Owned
  <2>2. heap' = heap /\ data' = SlotSet(data, i + 1, v) /\ v \in Numbers
    BY <1>1, <1>5, <2>1, StoredNumber
  <2>3. ListShape(data') /\ NumberList(data', heap')
    BY <1>1, <1>5, <2>2, SetNumber
  <2> QED  BY <1>1, <1>2, <1>5, <2>2, <2>3, ListKeeps
<1> QED  BY <1>4, <1>5

LEMMA ListRemoveAtKeeps == ASSUME IInv, NEW i, ListRemoveAt(i) PROVE IInv'
<1>1. /\ IsList /\ SameObject /\ HeapOK(heap) /\ ListShape(data)
      /\ i \in 0..(data.size - 1) /\ i + 1 \in 1..data.size
      /\ misuse' = Misused(Owned(data.slots[i + 1]), ValueBlocks)
      /\ data' = Closed(data, i) /\ heap' = Without(heap, Owned(data.slots[i + 1]))
      /\ OfStrings => StringList(data, heap)
      /\ ~OfStrings => NumberList(data, heap)
  BY DEF IInv, ListOK, ListRemoveAt, InRange, Size, ListShape
<1>2. misuse' = FALSE
  BY <1>1, FreeOne DEF StringList
<1>3. HeapOK(heap')
  BY <1>1, HeapWithout
<1>4. CASE OfStrings
  <2>1. heap' = Without(heap, {data.slots[i + 1]})
    BY <1>1, <1>4 DEF Owned
  <2>2. ListShape(data') /\ StringList(data', heap')
    BY <1>1, <1>4, <2>1, CloseString
  <2> QED  BY <1>1, <1>2, <1>3, <1>4, <2>2, ListKeeps
<1>5. CASE ~OfStrings
  <2>1. heap' = heap
    BY <1>1, <1>5, WithoutNothing DEF Owned
  <2>2. ListShape(data') /\ NumberList(data', heap')
    BY <1>1, <1>5, <2>1, CloseNumber
  <2> QED  BY <1>1, <1>2, <1>3, <1>5, <2>2, ListKeeps
<1> QED  BY <1>4, <1>5

(* The blocks of a list are those in use, one for each element. *)
LEMMA ListBlocksFacts ==
  ASSUME IInv, IsList, Live
  PROVE  ListBlocks = DOMAIN heap /\ Cardinality(ListBlocks) = Owners
<1>1. ListShape(data) /\ data.size \in Nat /\ data.slots \in Seq(Item) /\ data.size <= Len(data.slots)
  BY DEF IInv, ListOK, ListShape
<1>2. CASE OfStrings
  <2>1. StringList(data, heap)
    BY <1>2 DEF IInv, ListOK
  <2>2. ListBlocks = {data.slots[i] : i \in 1..data.size}
    BY <1>2 DEF ListBlocks, Owned, Size
  <2>3. IsFiniteSet(1..data.size) /\ Cardinality(1..data.size) = data.size
    BY <1>1, FS_Interval
  <2>4. /\ \A i \in 1..data.size : data.slots[i] \in ListBlocks
        /\ \A b \in ListBlocks : \E i \in 1..data.size : data.slots[i] = b
    BY <2>2
  <2>5. \A i, j \in 1..data.size : data.slots[i] = data.slots[j] => i = j
    BY <2>1 DEF StringList
  <2>6. Cardinality(ListBlocks) = Cardinality(1..data.size)
    <3> DEFINE f == data.slots
               S == 1..data.size
               T == ListBlocks
    <3>1. /\ IsFiniteSet(S) /\ \A i \in S : f[i] \in T
          /\ \A b \in T : \E i \in S : f[i] = b
          /\ \A i, j \in S : f[i] = f[j] => i = j
      BY <2>3, <2>4, <2>5
    <3> HIDE DEF f, S, T
    <3>2. Cardinality(T) = Cardinality(S)
      BY <3>1, ImageCardinality
    <3> QED  BY <3>2 DEF S, T
  <2>7. Owners = data.size
    BY <1>1, <1>2 DEF Owners, ValueBlocks, IsMap
  <2> QED  BY <2>1, <2>2, <2>3, <2>6, <2>7 DEF StringList
<1>3. CASE ~OfStrings
  <2>1. ListBlocks = {} /\ DOMAIN heap = {}
    BY <1>3 DEF ListBlocks, Owned, IInv, ListOK, NumberList
  <2>2. Owners = 0
    BY <1>1, <1>3 DEF Owners, ValueBlocks, IsMap
  <2> QED  BY <2>1, <2>2, FS_EmptySet
<1> QED  BY <1>2, <1>3

LEMMA ListDestroyKeeps == ASSUME IInv, ListDestroy PROVE IInv'
<1>1. /\ IsList /\ Live /\ SameObject /\ HeapOK(heap) /\ misuse = FALSE /\ data' = Null
      /\ misuse' = Misused(ListBlocks, Owners) /\ heap' = Without(heap, ListBlocks)
  BY DEF IInv, ListDestroy
<1>2. misuse' = FALSE
  BY <1>1, ListBlocksFacts DEF Misused
<1>3. HeapOK(heap') /\ DOMAIN heap' = {}
  <2>1. HeapOK(Without(heap, ListBlocks))
        /\ DOMAIN Without(heap, ListBlocks) = DOMAIN heap \ ListBlocks
    BY <1>1, HeapWithout
  <2> QED  BY <1>1, <2>1, ListBlocksFacts
<1> QED  BY <1>1, <1>2, <1>3, EmptyKeeps
-----------------------------------------------------------------------------
(* Sequences without an element twice. *)

LEMMA ElementsOf ==
  ASSUME NEW S, NEW s \in Seq(S)
  PROVE  /\ Len(s) \in Nat
         /\ \A x : x \in ToSet(s) <=> \E i \in 1..Len(s) : s[i] = x
         /\ ToSet(s) \subseteq S
<1>1. DOMAIN s = 1..Len(s) /\ Len(s) \in Nat /\ \A i \in 1..Len(s) : s[i] \in S
  BY LenProperties, ElementOfSeq
<1> QED  BY <1>1 DEF ToSet

Prepended(x, s) == <<x>> \o s

LEMMA DistinctPrepend ==
  ASSUME NEW S, NEW s \in Seq(S), Distinct(s), NEW x \in S, x \notin ToSet(s),
         NEW t, t = Prepended(x, s)
  PROVE  /\ t \in Seq(S) /\ Distinct(t) /\ Len(t) = Len(s) + 1
         /\ ToSet(t) = ToSet(s) \cup {x}
<1>1. /\ t \in Seq(S) /\ Len(s) \in Nat /\ Len(t) = Len(s) + 1 /\ t[1] = x
      /\ \A i \in 1..Len(s) : t[i + 1] = s[i]
  <2>1. <<x>> \in Seq(S) /\ Len(<<x>>) = 1 /\ <<x>>[1] = x
    OBVIOUS
  <2>2. /\ t \in Seq(S) /\ Len(t) = 1 + Len(s)
        /\ \A i \in 1..(1 + Len(s)) : t[i] = IF i <= 1 THEN <<x>>[i] ELSE s[i - 1]
    BY <2>1, ConcatProperties DEF Prepended
  <2>3. Len(s) \in Nat
    OBVIOUS
  <2>4. \A i \in 1..Len(s) : i + 1 \in 1..(1 + Len(s)) /\ ~(i + 1 <= 1) /\ (i + 1) - 1 = i
    BY <2>3
  <2>5. 1 \in 1..(1 + Len(s))
    BY <2>3
  <2> QED  BY <2>1, <2>2, <2>3, <2>4, <2>5
<1>2. ASSUME NEW i \in 1..Len(t), i # 1 PROVE i - 1 \in 1..Len(s) /\ t[i] = s[i - 1]
  <2>1. i - 1 \in 1..Len(s) /\ (i - 1) + 1 = i
    BY <1>1, <1>2
  <2> QED  BY <1>1, <2>1
<1>3. \A i \in 1..Len(s) : s[i] # x
  BY ElementsOf
<1>4. ASSUME NEW i \in 1..Len(t), NEW j \in 1..Len(t), t[i] = t[j] PROVE i = j
  <2>1. CASE i = 1 \/ j = 1
    <3>1. \A p \in 1..Len(t) : p # 1 => t[p] # x
      BY <1>2, <1>3
    <3> QED  BY <1>1, <1>4, <2>1, <3>1
  <2>2. CASE i # 1 /\ j # 1
    <3>1. i - 1 = j - 1
      BY <1>2, <1>4, <2>2 DEF Distinct
    <3> QED  BY <1>1, <3>1
  <2> QED  BY <2>1, <2>2
<1>5. \A i \in 1..Len(s) : i + 1 \in 1..Len(t)
  BY <1>1
<1>6. 1 \in 1..Len(t)
  BY <1>1
<1>7. \A y : y \in ToSet(t) <=> y \in ToSet(s) \cup {x}
  <2>1. \A y : y \in ToSet(s) <=> \E i \in 1..Len(s) : s[i] = y
    BY ElementsOf
  <2>2. \A y : y \in ToSet(t) <=> \E i \in 1..Len(t) : t[i] = y
    <3>1. t \in Seq(S)
      BY <1>1
    <3> QED  BY <3>1, ElementsOf
  <2>3. ASSUME NEW y \in ToSet(t) PROVE y \in ToSet(s) \cup {x}
    <3>1. PICK i \in 1..Len(t) : t[i] = y
      BY <2>2
    <3>2. CASE i # 1
      BY <1>2, <2>1, <3>1, <3>2
    <3> QED  BY <1>1, <3>1, <3>2
  <2>4. ASSUME NEW y \in ToSet(s) PROVE y \in ToSet(t)
    <3>1. PICK i \in 1..Len(s) : s[i] = y
      BY <2>1
    <3>2. i + 1 \in 1..Len(t) /\ t[i + 1] = y
      BY <1>1, <1>5, <3>1
    <3> QED  BY <2>2, <3>2
  <2>5. x \in ToSet(t)
    BY <1>1, <1>6, <2>2
  <2> QED  BY <2>3, <2>4, <2>5
<1> QED  BY <1>1, <1>4, <1>7 DEF Distinct

(* t is s with x instead of y at i. *)
Replaces(t, s, i, y, x) ==
  /\ i \in 1..Len(s) /\ s[i] = y /\ x \notin ToSet(s) \ {y}
  /\ Len(t) = Len(s) /\ t[i] = x /\ \A j \in 1..Len(s) : j # i => t[j] = s[j]

LEMMA DistinctReplace ==
  ASSUME NEW s \in Seq(Entry), Distinct(s), NEW t \in Seq(Entry), NEW i, NEW y, NEW x,
         Replaces(t, s, i, y, x)
  PROVE  Distinct(t) /\ ToSet(t) = Exchanged(ToSet(s), {y}, {x})
<1>r. /\ Len(t) = Len(s) /\ t[i] = x /\ \A j \in 1..Len(s) : j # i => t[j] = s[j]
      /\ i \in 1..Len(s) /\ s[i] = y /\ x \notin ToSet(s) \ {s[i]}
  BY DEF Replaces
<1>1. \A j \in 1..Len(s) : j # i => t[j] = s[j] /\ s[j] # s[i] /\ s[j] # x
  BY <1>r, ElementsOf DEF Distinct
<1>2. Distinct(t)
  BY <1>r, <1>1 DEF Distinct
<1>3. \A z : z \in ToSet(t) <=> z \in (ToSet(s) \ {s[i]}) \cup {x}
  <2>1. \A z : z \in ToSet(s) <=> \E j \in 1..Len(s) : s[j] = z
    BY ElementsOf
  <2>2. \A z : z \in ToSet(t) <=> \E j \in 1..Len(t) : t[j] = z
    BY ElementsOf
  <2>3. ASSUME NEW z \in ToSet(t) PROVE z \in (ToSet(s) \ {s[i]}) \cup {x}
    <3>1. PICK j \in 1..Len(t) : t[j] = z
      BY <2>2
    <3> QED  BY <1>r, <1>1, <2>1, <3>1
  <2>4. ASSUME NEW z \in ToSet(s), z # s[i] PROVE z \in ToSet(t)
    <3>1. PICK j \in 1..Len(s) : s[j] = z
      BY <2>1
    <3> QED  BY <1>r, <1>1, <2>2, <2>4, <3>1
  <2>5. x \in ToSet(t)
    BY <1>r, <1>1, <2>2
  <2> QED  BY <2>3, <2>4, <2>5
<1> QED  BY <1>r, <1>2, <1>3 DEF Exchanged

LEMMA RemoveAtFacts ==
  ASSUME NEW S, NEW s \in Seq(S), NEW i \in 1..Len(s)
  PROVE  /\ RemoveAt(s, i) \in Seq(S) /\ Len(RemoveAt(s, i)) = Len(s) - 1
         /\ \A j \in 1..(Len(s) - 1) : RemoveAt(s, i)[j] = IF j < i THEN s[j] ELSE s[j + 1]
<1> DEFINE a == SubSeq(s, 1, i - 1)
           b == SubSeq(s, i + 1, Len(s))
           n == Len(s)
<1>0. n \in Nat /\ i \in 1..n
  OBVIOUS
<1>1. a \in Seq(S) /\ Len(a) = i - 1 /\ \A j \in 1..(i - 1) : a[j] = s[j]
  BY <1>0
<1>2. b \in Seq(S) /\ Len(b) = n - i /\ \A j \in 1..(n - i) : b[j] = s[i + j]
  BY <1>0
<1>3. RemoveAt(s, i) = a \o b
  BY DEF RemoveAt
<1> HIDE DEF a, b, n
<1>4. /\ a \o b \in Seq(S) /\ Len(a \o b) = Len(a) + Len(b)
      /\ \A j \in 1..(Len(a) + Len(b)) : (a \o b)[j] = IF j <= Len(a) THEN a[j] ELSE b[j - Len(a)]
  BY <1>1, <1>2, ConcatProperties
<1>5. Len(a) + Len(b) = n - 1
  BY <1>0, <1>1, <1>2
<1>6. ASSUME NEW j \in 1..(n - 1) PROVE (a \o b)[j] = IF j < i THEN s[j] ELSE s[j + 1]
  <2>1. CASE j < i
    BY <1>0, <1>1, <1>4, <1>5, <2>1
  <2>2. CASE j >= i
    <3>1. j - (i - 1) \in 1..(n - i) /\ i + (j - (i - 1)) = j + 1 /\ ~(j <= i - 1) /\ ~(j < i)
      BY <1>0, <2>2
    <3>2. (a \o b)[j] = b[j - (i - 1)]
      BY <1>1, <1>4, <1>5, <3>1
    <3> QED  BY <1>2, <3>1, <3>2
  <2>3. j < i \/ j >= i
    BY <1>0
  <2> QED  BY <2>1, <2>2, <2>3
<1>7. /\ RemoveAt(s, i) \in Seq(S) /\ Len(RemoveAt(s, i)) = n - 1
      /\ \A j \in 1..(n - 1) : RemoveAt(s, i)[j] = IF j < i THEN s[j] ELSE s[j + 1]
  BY <1>3, <1>4, <1>5, <1>6
<1> QED  BY <1>7 DEF n

LEMMA DistinctRemove ==
  ASSUME NEW S, NEW s \in Seq(S), Distinct(s), NEW i \in 1..Len(s),
         NEW t, t = RemoveAt(s, i)
  PROVE  t \in Seq(S) /\ Distinct(t) /\ ToSet(t) = ToSet(s) \ {s[i]}
<1>1. /\ t \in Seq(S) /\ Len(s) \in Nat /\ Len(t) = Len(s) - 1
      /\ \A j \in 1..(Len(s) - 1) : t[j] = IF j < i THEN s[j] ELSE s[j + 1]
  <2>1. Len(s) \in Nat
    BY ElementsOf
  <2>2. /\ RemoveAt(s, i) \in Seq(S) /\ Len(RemoveAt(s, i)) = Len(s) - 1
        /\ \A j \in 1..(Len(s) - 1) : RemoveAt(s, i)[j] = IF j < i THEN s[j] ELSE s[j + 1]
    BY RemoveAtFacts
  <2> QED  BY <2>1, <2>2
(* Each place of t is one of s, another for each. *)
<1>2. \A j \in 1..Len(t) : \E k \in 1..Len(s) :
        k # i /\ t[j] = s[k] /\ k = IF j < i THEN j ELSE j + 1
  BY <1>1
<1>3. \A k \in 1..Len(s) : k # i => \E j \in 1..Len(t) : t[j] = s[k]
  <2> SUFFICES ASSUME NEW k \in 1..Len(s), k # i PROVE \E j \in 1..Len(t) : t[j] = s[k]
    OBVIOUS
  <2>1. CASE k < i
    BY <1>1, <2>1
  <2>2. CASE k > i
    <3>1. k - 1 \in 1..Len(t) /\ ~(k - 1 < i) /\ (k - 1) + 1 = k
      BY <1>1, <2>2
    <3> QED  BY <1>1, <3>1
  <2> QED  BY <1>1, <2>1, <2>2
<1>4. ASSUME NEW j \in 1..Len(t), NEW k \in 1..Len(t), t[j] = t[k] PROVE j = k
  <2>1. PICK p \in 1..Len(s) : t[j] = s[p] /\ p = IF j < i THEN j ELSE j + 1
    BY <1>2
  <2>2. PICK q \in 1..Len(s) : t[k] = s[q] /\ q = IF k < i THEN k ELSE k + 1
    BY <1>2
  <2>3. p = q
    BY <1>4, <2>1, <2>2 DEF Distinct
  <2> QED  BY <1>1, <2>1, <2>2, <2>3
<1>5. \A y : y \in ToSet(t) <=> y \in ToSet(s) \ {s[i]}
  <2>1. \A k \in 1..Len(s) : k # i => s[k] # s[i]
    BY DEF Distinct
  <2>2. \A y : y \in ToSet(s) <=> \E k \in 1..Len(s) : s[k] = y
    BY ElementsOf
  <2>3. \A y : y \in ToSet(t) <=> \E j \in 1..Len(t) : t[j] = y
    BY <1>1, ElementsOf
  <2>4. ASSUME NEW y \in ToSet(t) PROVE y \in ToSet(s) \ {s[i]}
    <3>1. PICK j \in 1..Len(t) : t[j] = y
      BY <2>3
    <3>2. PICK k \in 1..Len(s) : k # i /\ y = s[k]
      BY <1>2, <3>1
    <3> QED  BY <2>1, <2>2, <3>2
  <2>5. ASSUME NEW y \in ToSet(s), y # s[i] PROVE y \in ToSet(t)
    <3>1. PICK k \in 1..Len(s) : s[k] = y
      BY <2>2
    <3>2. \E j \in 1..Len(t) : t[j] = s[k]
      BY <1>3, <2>5, <3>1
    <3> QED  BY <2>3, <3>1, <3>2
  <2> QED  BY <2>4, <2>5
<1> QED  BY <1>1, <1>4, <1>5 DEF Distinct

-----------------------------------------------------------------------------
(* Chains. *)

(* A map with another chain in one of its buckets. *)
Rechained(d, n, c, m) == [buckets |-> [d.buckets EXCEPT ![n] = c], size |-> m]

LEMMA EntriesAreInChains ==
  ASSUME NEW d, MapShape(d)
  PROVE  /\ \A n \in BucketNumbers : d.buckets[n] \in Seq(Entry) /\ ToSet(d.buckets[n]) \subseteq EntriesOf(d)
         /\ \A x \in EntriesOf(d) : \E n \in BucketNumbers : x \in ToSet(d.buckets[n])
         /\ EntriesOf(d) \subseteq Entry
<1>1. \A n \in BucketNumbers : d.buckets[n] \in Seq(Entry)
  BY DEF MapShape
<1>2. \A n \in BucketNumbers : ToSet(d.buckets[n]) \subseteq Entry
  BY <1>1, ElementsOf
<1> QED  BY <1>1, <1>2 DEF EntriesOf

(* A chain changes: some entries go, others come; the rest keep their keys. *)
ChainChange(d, h, n, c, out, in, g, m, e) ==
  /\ MapShape(d) /\ ChainsOK(d, h) /\ n \in BucketNumbers
  /\ c \in Seq(Entry) /\ Distinct(c)
  /\ out \subseteq ToSet(d.buckets[n]) /\ ToSet(c) = Exchanged(ToSet(d.buckets[n]), out, in)
  /\ SameKeys(EntriesOf(d) \ out, h, g) /\ HashedTo(in, g, n)
  /\ m \in Nat /\ e = Rechained(d, n, c, m)

LEMMA ChainChanges ==
  ASSUME NEW d, NEW h, NEW n, NEW c, NEW out, NEW in, NEW g, NEW m, NEW e,
         ChainChange(d, h, n, c, out, in, g, m, e)
  PROVE  /\ MapShape(e) /\ e.size = m /\ ChainsOK(e, g)
         /\ EntriesOf(e) = Exchanged(EntriesOf(d), out, in)
<1>0. /\ MapShape(d) /\ ChainsOK(d, h) /\ n \in BucketNumbers
      /\ c \in Seq(Entry) /\ Distinct(c)
      /\ out \subseteq ToSet(d.buckets[n])
      /\ ToSet(c) = Exchanged(ToSet(d.buckets[n]), out, in)
      /\ SameKeys(EntriesOf(d) \ out, h, g) /\ HashedTo(in, g, n)
      /\ m \in Nat /\ e = Rechained(d, n, c, m)
  BY DEF ChainChange
<1> USE DEF Exchanged, SameKeys, HashedTo
<1>1. /\ MapShape(e) /\ e.size = m /\ e.buckets[n] = c
      /\ \A l \in BucketNumbers : l # n => e.buckets[l] = d.buckets[l]
  <2>1. d.buckets \in [BucketNumbers -> Seq(Entry)]
    BY <1>0 DEF MapShape
  <2> QED  BY <1>0, <2>1 DEF MapShape, Rechained
<1>2. \A l \in BucketNumbers : \A x \in ToSet(d.buckets[l]) : x \in EntriesOf(d) /\ (l # n => x \notin out)
  BY <1>0, EntriesAreInChains DEF ChainsOK
<1>3. \A l \in BucketNumbers : ToSet(e.buckets[l]) =
        IF l = n THEN (ToSet(d.buckets[n]) \ out) \cup in ELSE ToSet(d.buckets[l])
  BY <1>0, <1>1
<1>4. ChainsOK(e, g)
  <2> SUFFICES ASSUME NEW l \in BucketNumbers
               PROVE  Distinct(e.buckets[l]) /\ \A x \in ToSet(e.buckets[l]) : hash[g[x.key]] = l
    BY <1>0 DEF ChainsOK
  <2>1. Distinct(d.buckets[l]) /\ \A x \in ToSet(d.buckets[l]) : hash[h[x.key]] = l
    BY <1>0 DEF ChainsOK
  <2>2. CASE l # n
    <3>1. \A x \in ToSet(d.buckets[l]) : g[x.key] = h[x.key]
      BY <1>0, <1>2, <2>2
    <3> QED  BY <1>0, <1>1, <2>1, <2>2, <3>1
  <2>3. CASE l = n
    <3>1. \A x \in ToSet(d.buckets[l]) \ out : g[x.key] = h[x.key]
      BY <1>0, <1>2, <2>3
    <3>2. \A x \in ToSet(e.buckets[l]) : hash[g[x.key]] = l
      BY <1>0, <1>3, <2>1, <2>3, <3>1
    <3> QED  BY <1>0, <1>1, <2>3, <3>2
  <2> QED  BY <1>0, <2>2, <2>3
<1>5. EntriesOf(e) = (EntriesOf(d) \ out) \cup in
  <2>1. \A x \in EntriesOf(e) : x \in (EntriesOf(d) \ out) \cup in
    <3> TAKE x \in EntriesOf(e)
    <3>1. PICK l \in BucketNumbers : x \in ToSet(e.buckets[l])
      BY <1>0 DEF EntriesOf
    <3> QED  BY <1>0, <1>2, <1>3, <3>1
  <2>2. \A x \in EntriesOf(d) : x \notin out => x \in EntriesOf(e)
    <3> SUFFICES ASSUME NEW x \in EntriesOf(d), x \notin out PROVE x \in EntriesOf(e)
      BY <1>0
    <3>1. PICK l \in BucketNumbers : x \in ToSet(d.buckets[l])
      BY <1>0 DEF EntriesOf
    <3> QED  BY <1>0, <1>3, <3>1 DEF EntriesOf
  <2>3. \A x \in in : x \in EntriesOf(e)
    BY <1>0, <1>3 DEF EntriesOf
  <2> QED  BY <1>0, <2>1, <2>2, <2>3
<1> QED  BY <1>0, <1>1, <1>4, <1>5
-----------------------------------------------------------------------------
(* The entries of a map as a set, and their blocks. *)

LEMMA BlocksInUse ==
  ASSUME NEW E, NEW h, NEW n, EntriesOK(E, h, n)
  PROVE  /\ \A x \in E : x.key \in DOMAIN h
         /\ OfStrings => \A x \in E : x.value \in DOMAIN h
BY DEF EntriesOK, StringEntries, NumberEntries

LEMMA KeyBlock ==
  ASSUME NEW h, HeapOK(h), NEW k \in Strings, NEW g, g = With(h, Fresh(h), k)
  PROVE  /\ HeapOK(g) /\ DOMAIN g = DOMAIN h \cup {Fresh(h)} /\ g[Fresh(h)] = k
         /\ \A c \in DOMAIN h : g[c] = h[c]
<1>1. Fresh(h) \in Nat /\ Fresh(h) \notin DOMAIN h
  BY FreshIsNew
<1>2. HeapOK(g)
  BY <1>1, HeapWithIs
<1> QED  BY <1>1, <1>2 DEF With

Puts(E, h, n, k, v, g, f, new) ==
  /\ HeapOK(h) /\ E \subseteq Entry /\ n \in Nat /\ EntriesOK(E, h, n)
  /\ k \in Strings /\ NoKey(E, h, k) /\ v \in Values
  /\ g = With(h, Fresh(h), k) /\ f = StoredHeap(g, v)
  /\ new = EntryOf(Fresh(h), Stored(g, v))

LEMMA PutEntry ==
  ASSUME NEW E, NEW h, NEW n, NEW k, NEW v, NEW g, NEW f, NEW new, Puts(E, h, n, k, v, g, f, new)
  PROVE  /\ HeapOK(f) /\ new \in Entry /\ new \notin E
         /\ EntriesOK(E \cup {new}, f, n + 1)
         /\ SameKeys(E, h, f) /\ KeyHeld(f, new, k)
         /\ ValueHeld(f, new, v) /\ (OfStrings => SameValues(E, h, f))
<1>0. PICK b : b = Fresh(h)
  OBVIOUS
<1>p. /\ HeapOK(h) /\ E \subseteq Entry /\ n \in Nat /\ EntriesOK(E, h, n)
      /\ k \in Strings /\ NoKey(E, h, k) /\ v \in Values
      /\ g = With(h, Fresh(h), k) /\ f = StoredHeap(g, v)
      /\ new = EntryOf(Fresh(h), Stored(g, v))
  BY DEF Puts
<1>k. /\ HeapOK(g) /\ DOMAIN g = DOMAIN h \cup {Fresh(h)} /\ g[Fresh(h)] = k
      /\ \A c \in DOMAIN h : g[c] = h[c]
  BY <1>p, KeyBlock
<1> USE DEF NoKey, SameKeys, SameValues, EntryOf, KeyHeld, ValueHeld
<1> DEFINE F == E \cup {new}
<1>1. b \in Nat /\ b \notin DOMAIN h
  BY <1>p, <1>0, FreshIsNew
<1>2. /\ HeapOK(g) /\ DOMAIN g = DOMAIN h \cup {b} /\ g[b] = k
      /\ \A c \in DOMAIN h : g[c] = h[c]
  BY <1>p, <1>0, <1>k
<1>3. /\ \A x \in E : x.key \in DOMAIN h
      /\ OfStrings => \A x \in E : x.value \in DOMAIN h
  BY <1>p, BlocksInUse
<1>4. new.key = b /\ new.value = Stored(g, v)
  BY <1>p, <1>0
<1>5. new \notin E
  BY <1>p, <1>1, <1>3, <1>4
<1>6. IsFiniteSet(F) /\ Cardinality(F) = n + 1
  BY <1>p, <1>5, FS_AddElement DEF EntriesOK, KeysOK
<1>7. CASE OfStrings
  <2>1. /\ Stored(g, v) \in Nat /\ Stored(g, v) \notin DOMAIN g
        /\ f = With(g, Stored(g, v), Copied(v)) /\ Copied(v) \in Strings
    BY <1>p, <1>2, <1>7, StoredString, CopiedIsString
  <2>2. /\ HeapOK(f) /\ DOMAIN f = DOMAIN g \cup {new.value} /\ f[new.value] = Copied(v)
        /\ \A c \in DOMAIN g : f[c] = g[c]
    <3>p. PICK x, t : x = Stored(g, v) /\ t = Copied(v)
      OBVIOUS
    <3>0. new.value = x /\ HeapOK(g)
      BY <1>1, <1>2, <1>4, <3>p
    <3>h. HeapOK(g)
      BY <3>0
    <3>1. x \in Nat /\ x \notin DOMAIN g /\ f = With(g, x, t) /\ t \in Strings
      BY <3>p, <1>p, <1>4, <2>1
    <3>2. HeapOK(f)
      BY <3>h, <3>1, HeapWithIs
    <3>3. DOMAIN f = DOMAIN g \cup {x}
      BY <3>h, <3>1, HeapWithIs
    <3>4. f[x] = t /\ \A c \in DOMAIN g : c # x => f[c] = g[c]
      BY <3>1 DEF With
    <3> QED  BY <3>p, <3>0, <3>1, <3>2, <3>3, <3>4
  <2>3. new \in Entry
    BY <1>p, <1>0, <1>1, <2>1 DEF Entry, Item
  <2>4. /\ f[new.key] = k
        /\ \A x \in E : f[x.key] = h[x.key] /\ f[x.value] = h[x.value]
    BY <1>p, <1>2, <1>3, <1>4, <1>7, <2>2
  <2>5. KeysOK(F, f, n + 1)
    BY <1>p, <1>6, <2>4 DEF KeysOK, EntriesOK
  <2>6. StringEntries(E, h)
    BY <1>p, <1>7 DEF EntriesOK
  <2>7. DOMAIN f = {x.key : x \in F} \cup {x.value : x \in F}
    BY <1>p, <1>2, <1>4, <2>2, <2>6 DEF StringEntries
  <2>8. \A x, y \in F : x.key # y.value /\ (x.value = y.value => x = y)
    BY <1>p, <1>1, <1>2, <1>3, <1>4, <1>7, <2>1, <2>6 DEF StringEntries
  <2> HIDE DEF F
  <2>9. EntriesOK(F, f, n + 1)
    BY <1>p, <1>7, <2>5, <2>7, <2>8 DEF EntriesOK, StringEntries
  <2> QED  BY <1>p, <1>5, <1>7, <2>2, <2>3, <2>4, <2>9 DEF F
<1>8. CASE ~OfStrings
  <2>1. Stored(g, v) = v /\ v \in Numbers /\ f = g
    BY <1>p, <1>8, StoredNumber
  <2>2. new \in Entry
    BY <1>p, <1>0, <1>1, <2>1 DEF Entry, Item
  <2>3. f[new.key] = k /\ \A x \in E : f[x.key] = h[x.key]
    BY <1>p, <1>2, <1>3, <1>4, <2>1
  <2>4. KeysOK(F, f, n + 1)
    BY <1>p, <1>6, <2>3 DEF KeysOK, EntriesOK
  <2>5. NumberEntries(F, f)
    BY <1>p, <1>2, <1>4, <1>8, <2>1 DEF EntriesOK, NumberEntries
  <2> HIDE DEF F
  <2>6. EntriesOK(F, f, n + 1)
    BY <1>p, <1>8, <2>4, <2>5 DEF EntriesOK
  <2> QED  BY <1>p, <1>2, <1>4, <1>5, <1>8, <2>1, <2>2, <2>3, <2>6 DEF F
<1> QED  BY <1>p, <1>7, <1>8

Replacement(E, h, n, old, v, g, f, new) ==
  /\ HeapOK(h) /\ E \subseteq Entry /\ n \in Nat /\ EntriesOK(E, h, n)
  /\ old \in E /\ v \in Values
  /\ g = Without(h, Owned(old.value)) /\ f = StoredHeap(g, v)
  /\ new = EntryOf(old.key, Stored(g, v))

LEMMA ReplaceValue ==
  ASSUME NEW E, NEW h, NEW n, NEW old, NEW v, NEW g, NEW f, NEW new,
         Replacement(E, h, n, old, v, g, f, new)
  PROVE  /\ HeapOK(f) /\ new \in Entry /\ new \notin E \ {old} /\ new.key = old.key
         /\ EntriesOK(Exchanged(E, {old}, {new}), f, n)
         /\ SameKeys(E, h, f)
         /\ ValueHeld(f, new, v) /\ (OfStrings => SameValues(E \ {old}, h, f))
<1> USE DEF Exchanged, SameKeys, SameValues, EntryOf, ValueHeld
<1>p. /\ HeapOK(h) /\ E \subseteq Entry /\ n \in Nat /\ EntriesOK(E, h, n)
      /\ old \in E /\ v \in Values
      /\ g = Without(h, Owned(old.value)) /\ f = StoredHeap(g, v)
      /\ new = EntryOf(old.key, Stored(g, v))
  BY DEF Replacement
<1> DEFINE D == E \ {old}
           F == D \cup {new}
<1>1. HeapOK(g) /\ DOMAIN g = DOMAIN h \ Owned(old.value) /\ \A c \in DOMAIN g : g[c] = h[c]
  <2> DEFINE bs == Owned(old.value)
  <2> HIDE DEF bs
  <2>1. /\ HeapOK(Without(h, bs)) /\ DOMAIN Without(h, bs) = DOMAIN h \ bs
        /\ \A c \in DOMAIN h \ bs : Without(h, bs)[c] = h[c]
    BY <1>p, HeapWithout
  <2> QED  BY <1>p, <2>1 DEF bs
<1>2. /\ \A x \in E : x.key \in DOMAIN h /\ x \in Entry
      /\ OfStrings => \A x \in E : x.value \in DOMAIN h
  BY <1>p, BlocksInUse
<1>3. \A x, y \in E : h[x.key] = h[y.key] => x = y
  BY <1>p DEF EntriesOK, KeysOK
<1>4. new.key = old.key /\ new.value = Stored(g, v) /\ new \notin D
  BY <1>p, <1>3
<1>5. IsFiniteSet(F) /\ Cardinality(F) = n
  <2>1. IsFiniteSet(E) /\ Cardinality(E) = n
    BY <1>p DEF EntriesOK, KeysOK
  <2>2. IsFiniteSet(D) /\ Cardinality(D) = n - 1
    BY <1>p, <2>1, FS_RemoveElement
  <2>3. IsFiniteSet(F) /\ Cardinality(F) = Cardinality(D) + 1
    BY <1>p, <1>4, <2>2, FS_AddElement
  <2> QED  BY <1>p, <2>2, <2>3
<1>6. CASE OfStrings
  <2>0. Owned(old.value) = {old.value}
    BY <1>p, <1>6 DEF Owned
  <2>1. /\ Stored(g, v) \in Nat /\ Stored(g, v) \notin DOMAIN g
        /\ f = With(g, Stored(g, v), Copied(v)) /\ Copied(v) \in Strings
    BY <1>p, <1>1, <1>6, StoredString, CopiedIsString
  <2>2. /\ HeapOK(f) /\ DOMAIN f = DOMAIN g \cup {new.value} /\ f[new.value] = Copied(v)
        /\ \A c \in DOMAIN g : f[c] = g[c]
    <3>p. PICK x, t : x = Stored(g, v) /\ t = Copied(v)
      OBVIOUS
    <3>0. new.value = x /\ HeapOK(g)
      BY <1>1, <1>2, <1>4, <3>p
    <3>h. HeapOK(g)
      BY <3>0
    <3>1. x \in Nat /\ x \notin DOMAIN g /\ f = With(g, x, t) /\ t \in Strings
      BY <3>p, <1>p, <1>4, <2>1
    <3>2. HeapOK(f)
      BY <3>h, <3>1, HeapWithIs
    <3>3. DOMAIN f = DOMAIN g \cup {x}
      BY <3>h, <3>1, HeapWithIs
    <3>4. f[x] = t /\ \A c \in DOMAIN g : c # x => f[c] = g[c]
      BY <3>1 DEF With
    <3> QED  BY <3>p, <3>0, <3>1, <3>2, <3>3, <3>4
  <2>3. new \in Entry
    BY <1>p, <1>2, <2>1 DEF Entry, Item
  <2>4. StringEntries(E, h)
    BY <1>p, <1>6 DEF EntriesOK
  <2>5. \A x \in E : x.key \in DOMAIN g /\ (x # old => x.value \in DOMAIN g)
    BY <1>p, <1>1, <1>2, <1>6, <2>0, <2>4 DEF StringEntries
  <2>6. \A x \in E : f[x.key] = h[x.key] /\ (x # old => f[x.value] = h[x.value])
    BY <1>p, <1>1, <2>2, <2>5
  <2>7. KeysOK(F, f, n)
    BY <1>p, <1>3, <1>4, <1>5, <2>6 DEF KeysOK
  <2>8. DOMAIN g = {x.key : x \in E} \cup {x.value : x \in D}
    BY <1>p, <1>1, <2>0, <2>4 DEF StringEntries
  <2>9. {x.key : x \in E} = {x.key : x \in F}
    BY <1>p, <1>4
  <2>10. {x.value : x \in F} = {x.value : x \in D} \cup {new.value}
    OBVIOUS
  <2>11. \A x, y \in F : x.key # y.value /\ (x.value = y.value => x = y)
    BY <1>p, <1>4, <2>1, <2>4, <2>5 DEF StringEntries
  <2> HIDE DEF D, F
  <2>12. EntriesOK(F, f, n)
    BY <1>p, <1>6, <2>2, <2>7, <2>8, <2>9, <2>10, <2>11 DEF EntriesOK, StringEntries
  <2> QED  BY <1>p, <1>4, <1>6, <2>2, <2>3, <2>6, <2>12 DEF D, F
<1>7. CASE ~OfStrings
  <2>1. Owned(old.value) = {} /\ g = h
    BY <1>p, <1>7, WithoutNothing DEF Owned
  <2>2. Stored(g, v) = v /\ v \in Numbers /\ f = h
    BY <1>p, <1>7, <2>1, StoredNumber
  <2>3. new \in Entry
    BY <1>p, <1>2, <2>2 DEF Entry, Item
  <2>4. KeysOK(F, f, n)
    BY <1>p, <1>3, <1>4, <1>5, <2>2 DEF KeysOK
  <2>5. {x.key : x \in E} = {x.key : x \in F}
    BY <1>p, <1>4
  <2>6. NumberEntries(F, f)
    BY <1>p, <1>4, <1>7, <2>2, <2>5 DEF EntriesOK, NumberEntries
  <2> HIDE DEF D, F
  <2>7. EntriesOK(F, f, n)
    BY <1>p, <1>7, <2>4, <2>6 DEF EntriesOK
  <2> QED  BY <1>p, <1>4, <1>7, <2>2, <2>3, <2>7 DEF D, F
<1> QED  BY <1>p, <1>6, <1>7

LEMMA RemoveEntry ==
  ASSUME NEW h, HeapOK(h), NEW E, NEW n \in Nat, EntriesOK(E, h, n),
         NEW old \in E, NEW f, f = Without(h, EntryBlocks(old))
  PROVE  /\ HeapOK(f) /\ EntriesOK(E \ {old}, f, n - 1) /\ n - 1 \in Nat
         /\ SameKeys(E \ {old}, h, f)
         /\ OfStrings => SameValues(E \ {old}, h, f)
<1> USE DEF SameKeys, SameValues
<1> DEFINE D == E \ {old}
<1>1. HeapOK(f) /\ DOMAIN f = DOMAIN h \ EntryBlocks(old) /\ \A c \in DOMAIN f : f[c] = h[c]
  <2>1. HeapOK(f)
    BY HeapWithout
  <2> QED  BY <2>1 DEF Without
<1>2. /\ \A x \in E : x.key \in DOMAIN h
      /\ OfStrings => \A x \in E : x.value \in DOMAIN h
  BY BlocksInUse
<1>3. \A x, y \in E : h[x.key] = h[y.key] => x = y
  BY DEF EntriesOK, KeysOK
<1>4. IsFiniteSet(D) /\ Cardinality(D) = n - 1 /\ n - 1 \in Nat
  <2>1. IsFiniteSet(E) /\ Cardinality(E) = n
    BY DEF EntriesOK, KeysOK
  <2>2. IsFiniteSet(D) /\ Cardinality(D) = n - 1
    BY <2>1, FS_RemoveElement
  <2> QED  BY <2>2, FS_CardinalityType
<1>5. CASE OfStrings
  <2>1. EntryBlocks(old) = {old.key, old.value}
    BY <1>5 DEF EntryBlocks, Owned
  <2>2. StringEntries(E, h)
    BY <1>5 DEF EntriesOK
  <2>3. \A x \in D : x.key \in DOMAIN f /\ x.value \in DOMAIN f
    BY <1>1, <1>2, <1>3, <1>5, <2>1, <2>2 DEF StringEntries
  <2>4. DOMAIN f = {x.key : x \in D} \cup {x.value : x \in D}
    BY <1>1, <2>1, <2>2, <2>3 DEF StringEntries
  <2>5. KeysOK(D, f, n - 1)
    BY <1>1, <1>3, <1>4, <2>3 DEF KeysOK
  <2>6. StringEntries(D, f)
    BY <2>2, <2>4 DEF StringEntries
  <2> QED  BY <1>1, <1>4, <1>5, <2>3, <2>5, <2>6 DEF EntriesOK
<1>6. CASE ~OfStrings
  <2>1. EntryBlocks(old) = {old.key}
    BY <1>6 DEF EntryBlocks, Owned
  <2>2. NumberEntries(E, h)
    BY <1>6 DEF EntriesOK
  <2>3. \A x \in D : x.key \in DOMAIN f
    BY <1>1, <1>2, <1>3, <2>1
  <2>4. DOMAIN f = {x.key : x \in D}
    BY <1>1, <2>1, <2>2, <2>3 DEF NumberEntries
  <2>5. KeysOK(D, f, n - 1)
    BY <1>1, <1>3, <1>4, <2>3 DEF KeysOK
  <2>6. NumberEntries(D, f)
    BY <2>2, <2>4 DEF NumberEntries
  <2> QED  BY <1>1, <1>4, <1>6, <2>3, <2>5, <2>6 DEF EntriesOK
<1> QED  BY <1>5, <1>6
-----------------------------------------------------------------------------
(* Each operation of a map keeps the invariant. *)

LEMMA MapFacts ==
  ASSUME IInv, IsMap, Live
  PROVE  /\ MapShape(data) /\ ChainsOK(data, heap) /\ EntriesOK(EntriesOf(data), heap, data.size)
         /\ MapAt(data, heap)
         /\ HeapOK(heap) /\ misuse = FALSE /\ hash \in [Strings -> BucketNumbers]
         /\ data.size \in Nat /\ EntriesOf(data) \subseteq Entry
         /\ Entries = EntriesOf(data)
<1>1. MapAt(data, heap)
  BY DEF IInv, MapOK
<1>2. MapShape(data) /\ ChainsOK(data, heap) /\ EntriesOK(EntriesOf(data), heap, data.size)
  BY <1>1 DEF MapAt
<1>3. DOMAIN data.buckets = BucketNumbers /\ data.size \in Nat
  BY <1>2 DEF MapShape
<1>4. Entries = EntriesOf(data)
  BY <1>3 DEF Entries, EntriesOf
<1> QED  BY <1>1, <1>2, <1>3, <1>4, EntriesAreInChains DEF IInv

LEMMA MapKeeps ==
  ASSUME IInv, IsMap, SameObject, misuse' = FALSE, MapAt(data', heap')
  PROVE  IInv' /\ Live'
<1>1. Live' /\ HeapOK(heap')
  BY DEF MapAt, MapShape, Live, Null
<1>2. /\ ~IsList' /\ IsMap' /\ (OfStrings' <=> OfStrings) /\ class' \in Classes /\ hash' = hash
  BY DEF IInv, SameObject, IsList, IsMap, OfStrings
<1>3. ChainsOK(data, heap)'
  BY <1>2 DEF ChainsOK, MapAt
<1>4. EntriesOK(EntriesOf(data), heap, data.size)'
  BY <1>2 DEF EntriesOK, MapAt
<1>5. MapOK' /\ ListOK'
  BY <1>2, <1>3, <1>4 DEF MapOK, ListOK, MapAt
<1> QED  BY <1>1, <1>2, <1>5 DEF IInv

LEMMA MapInitKeeps == ASSUME IInv, MapInit PROVE IInv'
<1>1. /\ IsMap /\ SameObject /\ misuse' = FALSE /\ heap' = heap /\ HeapOK(heap') /\ DOMAIN heap' = {}
  BY DEF IInv, MapInit, Live
<1>2. data' = [buckets |-> [n \in BucketNumbers |-> <<>>], size |-> 0]
  BY DEF MapInit, BucketNumbers
<1>3. /\ MapShape(data') /\ data'.size = 0
      /\ \A n \in BucketNumbers : data'.buckets[n] = <<>>
  BY <1>2 DEF MapShape
<1>4. ToSet(<<>>) = {} /\ Distinct(<<>>)
  BY DEF ToSet, Distinct
<1>5. EntriesOf(data') = {} /\ ChainsOK(data', heap')
  BY <1>3, <1>4 DEF EntriesOf, ChainsOK
<1>6. EntriesOK({}, heap', 0)
  BY <1>1, FS_EmptySet DEF EntriesOK, KeysOK, StringEntries, NumberEntries
<1>7. MapAt(data', heap')
  BY <1>1, <1>3, <1>5, <1>6 DEF MapAt
<1> QED  BY <1>1, <1>7, MapKeeps

(* Find finds the one entry of a key, wherever it is in its chain. *)
LEMMA FindFacts ==
  ASSUME IInv, IsMap, Live, NEW k \in Strings
  PROVE  /\ hash[k] \in BucketNumbers
         /\ \A i \in Find(k) : /\ i \in 1..Len(data.buckets[hash[k]])
                                /\ data.buckets[hash[k]][i] \in EntriesOf(data)
                                /\ heap[data.buckets[hash[k]][i].key] = k
         /\ \A x \in EntriesOf(data) : heap[x.key] = k =>
               \E i \in Find(k) : data.buckets[hash[k]][i] = x
<1> DEFINE c == data.buckets[hash[k]]
<1>1. hash[k] \in BucketNumbers
  BY MapFacts
<1>2. c \in Seq(Entry) /\ ToSet(c) \subseteq EntriesOf(data)
  BY <1>1, MapFacts, EntriesAreInChains
<1>3. /\ Len(c) \in Nat /\ \A i \in 1..Len(c) : c[i] \in ToSet(c)
      /\ \A x \in ToSet(c) : \E i \in 1..Len(c) : c[i] = x
  <2> HIDE DEF c
  <2> QED  BY <1>2, ElementsOf
<1>4. ASSUME NEW x \in EntriesOf(data), heap[x.key] = k
      PROVE  \E i \in Find(k) : c[i] = x
  <2>1. x \in ToSet(c)
    <3>1. PICK n \in BucketNumbers : x \in ToSet(data.buckets[n])
      BY MapFacts, EntriesAreInChains
    <3>2. hash[heap[x.key]] = n
      BY <3>1, MapFacts DEF ChainsOK
    <3> QED  BY <1>4, <3>1, <3>2
  <2>2. PICK i \in 1..Len(c) : c[i] = x
    BY <1>3, <2>1
  <2>3. ASSUME NEW j \in 1..(i - 1) PROVE heap[c[j].key] # k
    <3>1. j \in 1..Len(c) /\ j # i
      BY <1>3
    <3>2. c[j] # x
      BY <1>1, <2>2, <3>1, MapFacts DEF ChainsOK, Distinct
    <3>3. c[j] \in EntriesOf(data)
      BY <1>2, <1>3, <3>1
    <3> QED  BY <1>4, <3>2, <3>3, MapFacts DEF EntriesOK, KeysOK
  <2> QED  BY <1>4, <2>2, <2>3 DEF Find, Chain
<1>5. \A i \in Find(k) : i \in 1..Len(c) /\ heap[c[i].key] = k
  BY DEF Find, Chain
<1> QED  BY <1>1, <1>2, <1>3, <1>4, <1>5

LEMMA ChainFacts ==
  ASSUME NEW d, NEW h, MapAt(d, h), NEW n \in BucketNumbers, NEW b, b = d.buckets[n]
  PROVE  /\ MapShape(d) /\ HeapOK(h) /\ ChainsOK(d, h) /\ EntriesOK(EntriesOf(d), h, d.size)
         /\ d.size \in Nat /\ EntriesOf(d) \subseteq Entry
         /\ b \in Seq(Entry) /\ Distinct(b) /\ Len(b) \in Nat
         /\ ToSet(b) \subseteq EntriesOf(d)
         /\ \A i \in 1..Len(b) : b[i] \in ToSet(b) /\ b[i] \in EntriesOf(d)
<1>1. /\ MapShape(d) /\ HeapOK(h) /\ ChainsOK(d, h) /\ EntriesOK(EntriesOf(d), h, d.size)
      /\ d.size \in Nat
  BY DEF MapAt, MapShape
<1>2. EntriesOf(d) \subseteq Entry /\ b \in Seq(Entry) /\ ToSet(b) \subseteq EntriesOf(d)
  BY <1>1, EntriesAreInChains
<1>3. Distinct(b)
  BY <1>1 DEF ChainsOK
<1>4. Len(b) \in Nat /\ \A i \in 1..Len(b) : b[i] \in ToSet(b)
  BY <1>2, ElementsOf
<1> QED  BY <1>1, <1>2, <1>3, <1>4

(* Some entries of a map have gone and others come. *)
Turned(d, e, out, in) == EntriesOf(e) = Exchanged(EntriesOf(d), out, in)

LEMMA Replaced ==
  ASSUME NEW d, NEW h, MapAt(d, h), NEW n \in BucketNumbers, NEW v \in Values,
         NEW b, b = d.buckets[n], NEW i \in 1..Len(b), NEW old, old = b[i], hash[h[old.key]] = n,
         NEW g, NEW f, NEW new, Replacement(EntriesOf(d), h, d.size, old, v, g, f, new),
         NEW c, c = [b EXCEPT ![i] = new],
         NEW e, e = Rechained(d, n, c, d.size)
  PROVE  MapAt(e, f) /\ Turned(d, e, {old}, {new})
<1>1. PICK E : E = EntriesOf(d)
  OBVIOUS
<1>2. PICK m : m = d.size
  OBVIOUS
<1>3. /\ MapShape(d) /\ HeapOK(h) /\ ChainsOK(d, h) /\ EntriesOK(E, h, m)
      /\ m \in Nat /\ E \subseteq Entry
      /\ b \in Seq(Entry) /\ Distinct(b) /\ Len(b) \in Nat
      /\ ToSet(b) \subseteq E
      /\ old \in E /\ old \in ToSet(b)
  BY <1>1, <1>2, ChainFacts
<1>4. /\ HeapOK(f) /\ new \in Entry /\ new \notin E \ {old} /\ new.key = old.key
      /\ EntriesOK(Exchanged(E, {old}, {new}), f, m)
      /\ SameKeys(E, h, f)
  <2>1. Replacement(E, h, m, old, v, g, f, new)
    BY <1>1, <1>2
  <2>2. /\ HeapOK(f) /\ new \in Entry /\ new \notin E \ {old}
        /\ EntriesOK(Exchanged(E, {old}, {new}), f, m)
        /\ SameKeys(E, h, f)
    BY <2>1, ReplaceValue
  <2>3. new.key = old.key
    <3>1. new = EntryOf(old.key, Stored(g, v))
      BY <2>1 DEF Replacement
    <3> QED  BY <3>1 DEF EntryOf
  <2> QED  BY <2>2, <2>3
<1>5. c \in Seq(Entry) /\ Len(c) = Len(b) /\ c[i] = new /\ \A j \in 1..Len(b) : j # i => c[j] = b[j]
  <2>1. PICK w \in Entry : w = new
    BY <1>4
  <2>2. c = [b EXCEPT ![i] = w]
    BY <2>1
  <2>3. c \in Seq(Entry) /\ Len(c) = Len(b) /\ c[i] = w /\ \A j \in 1..Len(b) : j # i => c[j] = b[j]
    BY <1>3, <2>2
  <2> QED  BY <2>1, <2>3
<1>6. Distinct(c) /\ ToSet(c) = Exchanged(ToSet(b), {old}, {new})
  <2>1. new \notin ToSet(b) \ {b[i]}
    BY <1>3, <1>4
  <2>2. Replaces(c, b, i, old, new)
    BY <1>5, <2>1 DEF Replaces
  <2>3. Distinct(c)
    BY <1>3, <1>5, <2>2, DistinctReplace
  <2>4. ToSet(c) = Exchanged(ToSet(b), {old}, {new})
    BY <1>3, <1>5, <2>2, DistinctReplace
  <2> QED  BY <2>3, <2>4
<1>7. /\ {old} \subseteq ToSet(b) /\ HashedTo({new}, f, n) /\ SameKeys(E \ {old}, h, f)
  BY <1>3, <1>4 DEF HashedTo, SameKeys
<1>8. MapShape(e) /\ e.size = m /\ ChainsOK(e, f) /\ EntriesOf(e) = Exchanged(EntriesOf(d), {old}, {new})
  <2>1. /\ {old} \subseteq ToSet(d.buckets[n]) /\ SameKeys(EntriesOf(d) \ {old}, h, f)
        /\ ToSet(c) = Exchanged(ToSet(d.buckets[n]), {old}, {new}) /\ e = Rechained(d, n, c, m)
    BY <1>1, <1>2, <1>6, <1>7
  <2>2. ChainChange(d, h, n, c, {old}, {new}, f, m, e)
    BY <1>3, <1>5, <1>6, <1>7, <2>1 DEF ChainChange
  <2> QED  BY <2>2, ChainChanges
<1> QED  BY <1>1, <1>4, <1>8 DEF MapAt, Turned

LEMMA PutNew ==
  ASSUME NEW d, NEW h, MapAt(d, h), NEW n \in BucketNumbers, NEW v \in Values,
         NEW k \in Strings, n = hash[k], NoKey(EntriesOf(d), h, k),
         NEW b, b = d.buckets[n],
         NEW g, g = With(h, Fresh(h), k), NEW f, f = StoredHeap(g, v),
         NEW new, new = EntryOf(Fresh(h), Stored(g, v)),
         NEW c, c = Prepended(new, b),
         NEW e, e = Rechained(d, n, c, d.size + 1)
  PROVE  MapAt(e, f) /\ EntriesOf(e) = Exchanged(EntriesOf(d), {}, {new})
<1>1. PICK E : E = EntriesOf(d)
  OBVIOUS
<1>2. PICK m : m = d.size
  OBVIOUS
<1>3. /\ MapShape(d) /\ HeapOK(h) /\ ChainsOK(d, h) /\ EntriesOK(E, h, m)
      /\ m \in Nat /\ E \subseteq Entry /\ NoKey(E, h, k)
      /\ b \in Seq(Entry) /\ Distinct(b) /\ Len(b) \in Nat
      /\ ToSet(b) \subseteq E
  BY <1>1, <1>2, ChainFacts
<1>4. /\ HeapOK(f) /\ new \in Entry /\ new \notin E
      /\ EntriesOK(E \cup {new}, f, m + 1)
      /\ SameKeys(E, h, f) /\ KeyHeld(f, new, k)
  <2>1. Puts(E, h, m, k, v, g, f, new)
    BY <1>3 DEF Puts
  <2> QED  BY <2>1, PutEntry
<1>5. c \in Seq(Entry) /\ Distinct(c) /\ ToSet(c) = ToSet(b) \cup {new}
  <2>1. new \notin ToSet(b)
    BY <1>3, <1>4
  <2> QED  BY <1>3, <1>4, <2>1, DistinctPrepend
<1>6. HashedTo({new}, f, n) /\ {} \subseteq ToSet(b) /\ m + 1 \in Nat
  BY <1>3, <1>4 DEF HashedTo, KeyHeld
<1>7. /\ SameKeys(E \ {}, h, f) /\ ToSet(c) = Exchanged(ToSet(b), {}, {new})
      /\ E \cup {new} = Exchanged(E, {}, {new})
  BY <1>4, <1>5 DEF Exchanged, SameKeys
<1>8. MapShape(e) /\ e.size = m + 1 /\ ChainsOK(e, f) /\ EntriesOf(e) = Exchanged(EntriesOf(d), {}, {new})
  <2>1. /\ {} \subseteq ToSet(d.buckets[n]) /\ SameKeys(EntriesOf(d) \ {}, h, f)
        /\ ToSet(c) = Exchanged(ToSet(d.buckets[n]), {}, {new}) /\ e = Rechained(d, n, c, m + 1)
    BY <1>1, <1>2, <1>6, <1>7
  <2>2. ChainChange(d, h, n, c, {}, {new}, f, m + 1, e)
    BY <1>3, <1>5, <1>6, <2>1 DEF ChainChange
  <2> QED  BY <2>2, ChainChanges
<1>9. EntriesOK(EntriesOf(e), f, e.size)
  BY <1>1, <1>4, <1>7, <1>8
<1> QED  BY <1>4, <1>8, <1>9 DEF MapAt

LEMMA Removed ==
  ASSUME NEW d, NEW h, MapAt(d, h), NEW n \in BucketNumbers,
         NEW b, b = d.buckets[n], NEW i \in 1..Len(b), NEW old, old = b[i],
         NEW f, f = Without(h, EntryBlocks(old)),
         NEW c, c = RemoveAt(b, i),
         NEW e, e = Rechained(d, n, c, d.size - 1)
  PROVE  MapAt(e, f) /\ EntriesOf(e) = Exchanged(EntriesOf(d), {old}, {})
<1>1. PICK E : E = EntriesOf(d)
  OBVIOUS
<1>2. PICK m : m = d.size
  OBVIOUS
<1>3. /\ MapShape(d) /\ HeapOK(h) /\ ChainsOK(d, h) /\ EntriesOK(E, h, m)
      /\ m \in Nat /\ E \subseteq Entry
      /\ b \in Seq(Entry) /\ Distinct(b) /\ Len(b) \in Nat
      /\ ToSet(b) \subseteq E
      /\ old \in E /\ old \in ToSet(b)
  BY <1>1, <1>2, ChainFacts
<1>4. /\ HeapOK(f) /\ EntriesOK(E \ {old}, f, m - 1) /\ m - 1 \in Nat
      /\ SameKeys(E \ {old}, h, f)
  BY <1>3, RemoveEntry
<1>5. c \in Seq(Entry) /\ Distinct(c) /\ ToSet(c) = ToSet(b) \ {b[i]}
  BY <1>3, DistinctRemove
<1>6. /\ HashedTo({}, f, n) /\ {old} \subseteq ToSet(b)
      /\ ToSet(c) = Exchanged(ToSet(b), {old}, {}) /\ E \ {old} = Exchanged(E, {old}, {})
  BY <1>3, <1>5 DEF HashedTo, Exchanged
<1>7. MapShape(e) /\ e.size = m - 1 /\ ChainsOK(e, f) /\ EntriesOf(e) = Exchanged(EntriesOf(d), {old}, {})
  <2>1. /\ {old} \subseteq ToSet(d.buckets[n]) /\ SameKeys(EntriesOf(d) \ {old}, h, f)
        /\ ToSet(c) = Exchanged(ToSet(d.buckets[n]), {old}, {}) /\ e = Rechained(d, n, c, m - 1)
    BY <1>1, <1>2, <1>4, <1>6
  <2>2. ChainChange(d, h, n, c, {old}, {}, f, m - 1, e)
    BY <1>3, <1>4, <1>5, <1>6, <2>1 DEF ChainChange
  <2> QED  BY <2>2, ChainChanges
<1>8. EntriesOK(EntriesOf(e), f, e.size)
  BY <1>1, <1>4, <1>6, <1>7
<1> QED  BY <1>4, <1>7, <1>8 DEF MapAt

(* What a put and a remove do to the entries. *)
PutReplaces(d, h, e, f, k, v) ==
  \E old, g, new :
    /\ old \in EntriesOf(d) /\ h[old.key] = k
    /\ Replacement(EntriesOf(d), h, d.size, old, v, g, f, new)
    /\ EntriesOf(e) = Exchanged(EntriesOf(d), {old}, {new})

PutAdds(d, h, e, f, k, v) ==
  \E g, new :
    /\ Puts(EntriesOf(d), h, d.size, k, v, g, f, new)
    /\ EntriesOf(e) = Exchanged(EntriesOf(d), {}, {new})

Removes(d, h, e, f, k) ==
  \E old \in EntriesOf(d) :
    /\ h[old.key] = k
    /\ f = Without(h, EntryBlocks(old))
    /\ EntriesOf(e) = Exchanged(EntriesOf(d), {old}, {})

LEMMA MapPutKeeps ==
  ASSUME IInv, NEW k, k \in Strings \cup {NullString}, NEW v \in Values, MapPut(k, v)
  PROVE  /\ IInv' /\ Live' /\ k \in Strings
         /\ PutReplaces(data, heap, data', heap', k, v) \/ PutAdds(data, heap, data', heap', k, v)
<1>1. /\ IsMap /\ Live /\ SameObject /\ k \in Strings
      /\ MapAt(data, heap) /\ HeapOK(heap) /\ misuse = FALSE /\ data.size \in Nat
      /\ EntriesOK(EntriesOf(data), heap, data.size) /\ EntriesOf(data) \subseteq Entry
  BY MapFacts DEF MapPut, Usable
<1>2. PICK n : n = hash[k]
  OBVIOUS
<1>3. PICK b : b = data.buckets[n]
  OBVIOUS
<1>4. Chain(k) = b /\ n \in BucketNumbers
  BY <1>1, <1>2, <1>3, FindFacts DEF Chain
<1>5. ASSUME NEW i \in Find(k),
             misuse' = Misused(Owned(b[i].value), ValueBlocks),
             heap' = StoredHeap(Without(heap, Owned(b[i].value)), v),
             data' = [data EXCEPT !.buckets[n][i].value = Stored(Without(heap, Owned(b[i].value)), v)]
      PROVE  IInv' /\ Live' /\ PutReplaces(data, heap, data', heap', k, v)
  <2>1. PICK old : old = b[i]
    OBVIOUS
  <2>2. i \in 1..Len(b) /\ old \in EntriesOf(data) /\ hash[heap[old.key]] = n
    BY <1>1, <1>2, <1>3, <2>1, FindFacts
  <2>k. heap[old.key] = k
    BY <1>1, <1>2, <1>3, <2>1, FindFacts
  <2>3. misuse' = FALSE
    <3>1. OfStrings => old.value \in DOMAIN heap
      BY <1>1, <2>2, BlocksInUse
    <3> QED  BY <1>5, <2>1, <3>1, FreeOne
  <2>4. PICK g, new : g = Without(heap, Owned(old.value)) /\ new = EntryOf(old.key, Stored(g, v))
    OBVIOUS
  <2>5. PICK f : f = heap'
    OBVIOUS
  <2>6. PICK e : e = data'
    OBVIOUS
  <2>7. PICK c : c = [b EXCEPT ![i] = new]
    OBVIOUS
  <2>8. PICK x : x = Stored(g, v)
    OBVIOUS
  <2>9. Replacement(EntriesOf(data), heap, data.size, old, v, g, f, new)
    BY <1>1, <1>5, <2>1, <2>2, <2>4, <2>5 DEF Replacement
  <2>10. e = Rechained(data, n, c, data.size)
    <3>1. e = [data EXCEPT !.buckets[n][i].value = x]
      BY <1>5, <2>1, <2>4, <2>6, <2>8
    <3>2. PICK d : d = data
      OBVIOUS
    <3>3. MapShape(d) /\ e = [d EXCEPT !.buckets[n][i].value = x] /\ b = d.buckets[n]
      BY <1>1, <1>3, <3>1, <3>2 DEF MapAt
    <3>4. d = [buckets |-> d.buckets, size |-> d.size]
      BY <3>3 DEF MapShape
    <3>5. old \in Entry
      BY <1>1, <2>2
    <3>6. [old EXCEPT !.value = x] = new
      BY <2>4, <2>8, <3>5 DEF Entry, EntryOf
    <3>7. e = [d EXCEPT !.buckets = [d.buckets EXCEPT ![n] = [b EXCEPT ![i] = [old EXCEPT !.value = x]]]]
      BY <2>1, <3>3
    <3>8. e = [d EXCEPT !.buckets = [d.buckets EXCEPT ![n] = c]]
      BY <2>7, <3>6, <3>7
    <3>9. e = Rechained(d, n, c, d.size)
      BY <3>4, <3>8 DEF Rechained
    <3> QED  BY <3>2, <3>9
  <2>a. MapAt(e, f)
    BY <1>1, <1>3, <1>4, <2>1, <2>2, <2>7, <2>9, <2>10, Replaced
  <2>b. Turned(data, e, {old}, {new})
    BY <1>1, <1>3, <1>4, <2>1, <2>2, <2>7, <2>9, <2>10, Replaced
  <2>11. MapAt(e, f) /\ EntriesOf(e) = Exchanged(EntriesOf(data), {old}, {new})
    BY <2>a, <2>b DEF Turned
  <2>12. PutReplaces(data, heap, e, f, k, v)
    BY <2>2, <2>k, <2>9, <2>11 DEF PutReplaces
  <2>13. IInv' /\ Live'
    BY <1>1, <2>3, <2>5, <2>6, <2>11, MapKeeps
  <2> QED  BY <2>5, <2>6, <2>12, <2>13
<1>6. ASSUME Find(k) = {}, misuse' = misuse,
             heap' = StoredHeap(With(heap, Fresh(heap), k), v),
             data' = Rechained(data, n, Prepended(EntryOf(Fresh(heap), Stored(With(heap, Fresh(heap), k), v)), b), Size + 1)
      PROVE  IInv' /\ Live' /\ PutAdds(data, heap, data', heap', k, v)
  <2>1. NoKey(EntriesOf(data), heap, k)
    BY <1>1, <1>6, FindFacts DEF NoKey
  <2>2. PICK g : g = With(heap, Fresh(heap), k)
    OBVIOUS
  <2>3. PICK new : new = EntryOf(Fresh(heap), Stored(g, v))
    OBVIOUS
  <2>4. PICK c : c = Prepended(new, b)
    OBVIOUS
  <2>5. PICK f : f = heap'
    OBVIOUS
  <2>6. PICK e : e = data'
    OBVIOUS
  <2>7. f = StoredHeap(g, v) /\ e = Rechained(data, n, c, data.size + 1)
    BY <1>6, <2>2, <2>3, <2>4, <2>5, <2>6 DEF Size
  <2>8. MapAt(e, f) /\ EntriesOf(e) = Exchanged(EntriesOf(data), {}, {new})
    BY <1>1, <1>2, <1>3, <1>4, <2>1, <2>2, <2>3, <2>4, <2>7, PutNew
  <2>9. Puts(EntriesOf(data), heap, data.size, k, v, g, f, new)
    BY <1>1, <2>1, <2>2, <2>3, <2>7 DEF Puts
  <2>10. PutAdds(data, heap, e, f, k, v)
    BY <2>8, <2>9 DEF PutAdds
  <2>11. IInv' /\ Live'
    BY <1>1, <1>6, <2>5, <2>6, <2>8, MapKeeps
  <2> QED  BY <2>5, <2>6, <2>10, <2>11
<1> QED  BY <1>1, <1>2, <1>3, <1>4, <1>5, <1>6 DEF MapPut, Rechained, Prepended, EntryOf

LEMMA MapRemoveKeeps ==
  ASSUME IInv, NEW k, k \in Strings \cup {NullString}, MapRemove(k)
  PROVE  IInv' /\ Live' /\ k \in Strings /\ Removes(data, heap, data', heap', k)
<1>1. /\ IsMap /\ Live /\ SameObject /\ k \in Strings
      /\ MapAt(data, heap) /\ HeapOK(heap) /\ misuse = FALSE /\ data.size \in Nat
      /\ EntriesOK(EntriesOf(data), heap, data.size)
  BY MapFacts DEF MapRemove, Usable
<1>2. PICK n : n = hash[k]
  OBVIOUS
<1>3. PICK b : b = data.buckets[n]
  OBVIOUS
<1>4. Chain(k) = b /\ n \in BucketNumbers
  BY <1>1, <1>2, <1>3, FindFacts DEF Chain
<1>5. PICK i \in Find(k) :
        /\ misuse' = Misused(EntryBlocks(b[i]), 1 + ValueBlocks)
        /\ heap' = Without(heap, EntryBlocks(b[i]))
        /\ data' = Rechained(data, n, RemoveAt(b, i), data.size - 1)
  BY <1>2, <1>3, <1>4 DEF MapRemove, Rechained, Size
<1>6. PICK old : old = b[i]
  OBVIOUS
<1>k. heap[old.key] = k
  BY <1>1, <1>2, <1>3, <1>6, FindFacts
<1>7. i \in 1..Len(b) /\ old \in EntriesOf(data)
  BY <1>1, <1>2, <1>3, <1>6, FindFacts
<1>8. misuse' = FALSE
  <2>1. old.key \in DOMAIN heap /\ (OfStrings => old.value \in DOMAIN heap)
    BY <1>1, <1>7, BlocksInUse
  <2>2. CASE OfStrings
    <3>1. EntryBlocks(old) = {old.key} \cup {old.value} /\ 1 + ValueBlocks = 2
      BY <2>2 DEF EntryBlocks, Owned, ValueBlocks
    <3>2. old.key # old.value
      BY <1>1, <1>7, <2>2 DEF EntriesOK, StringEntries
    <3>3. Cardinality({old.key} \cup {old.value}) = 2
      <4>1. PICK p, q : p = old.key /\ q = old.value
        OBVIOUS
      <4>2. IsFiniteSet({p}) /\ Cardinality({p}) = 1 /\ q \notin {p}
        BY <3>2, <4>1, FS_Singleton
      <4>3. Cardinality({p} \cup {q}) = 1 + 1
        BY <4>2, FS_AddElement
      <4> QED  BY <4>1, <4>3
    <3> QED  BY <1>1, <1>5, <1>6, <2>1, <2>2, <3>1, <3>3 DEF Misused
  <2>3. CASE ~OfStrings
    <3>1. EntryBlocks(old) = {old.key} /\ 1 + ValueBlocks = 1
      BY <2>3 DEF EntryBlocks, Owned, ValueBlocks
    <3> QED  BY <1>1, <1>5, <1>6, <2>1, <3>1, FS_Singleton DEF Misused
  <2> QED  BY <2>2, <2>3
<1>9. PICK c : c = RemoveAt(b, i)
  OBVIOUS
<1>10. PICK f : f = heap'
  OBVIOUS
<1>11. PICK e : e = data'
  OBVIOUS
<1>12. f = Without(heap, EntryBlocks(old)) /\ e = Rechained(data, n, c, data.size - 1)
  BY <1>5, <1>6, <1>9, <1>10, <1>11
<1>a. MapAt(e, f)
  BY <1>1, <1>3, <1>4, <1>6, <1>7, <1>9, <1>12, Removed
<1>b. EntriesOf(e) = Exchanged(EntriesOf(data), {old}, {})
  BY <1>1, <1>3, <1>4, <1>6, <1>7, <1>9, <1>12, Removed
<1>13. MapAt(e, f) /\ EntriesOf(e) = Exchanged(EntriesOf(data), {old}, {})
  BY <1>a, <1>b
<1>14. Removes(data, heap, e, f, k)
  BY <1>k, <1>7, <1>12, <1>13 DEF Removes
<1>15. IInv' /\ Live'
  BY <1>1, <1>8, <1>10, <1>11, <1>13, MapKeeps
<1> QED  BY <1>1, <1>10, <1>11, <1>14, <1>15

(* The blocks of a map are those in use: a key for each entry, and a value *)
(* if the values are strings.                                              *)
LEMMA MapBlocksFacts ==
  ASSUME IInv, IsMap, Live
  PROVE  MapBlocks = DOMAIN heap /\ Cardinality(MapBlocks) = Owners
<1> DEFINE E == EntriesOf(data)
           K == {x.key : x \in E}
           V == {x.value : x \in E}
<1>1. /\ Entries = E /\ EntriesOK(E, heap, data.size) /\ data.size \in Nat
  BY MapFacts
<1>2. IsFiniteSet(E) /\ Cardinality(E) = data.size /\ \A x, y \in E : heap[x.key] = heap[y.key] => x = y
  BY <1>1 DEF EntriesOK, KeysOK
<1>3. IsFiniteSet(K) /\ Cardinality(K) = data.size
  <2> DEFINE p == [x \in E |-> x.key]
  <2>1. /\ \A x \in E : p[x] \in K
        /\ \A y \in K : \E x \in E : p[x] = y
        /\ \A x, y \in E : p[x] = p[y] => x = y
    BY <1>2
  <2> HIDE DEF E, K, p
  <2>2. IsFiniteSet(K) /\ Cardinality(K) = Cardinality(E)
    BY <1>2, <2>1, ImageCardinality
  <2> QED  BY <1>2, <2>2
<1>4. CASE OfStrings
  <2>1. StringEntries(E, heap)
    BY <1>1, <1>4 DEF EntriesOK
  <2>2. IsFiniteSet(V) /\ Cardinality(V) = data.size
    <3> DEFINE p == [x \in E |-> x.value]
    <3>1. /\ \A x \in E : p[x] \in V
          /\ \A y \in V : \E x \in E : p[x] = y
          /\ \A x, y \in E : p[x] = p[y] => x = y
      BY <2>1 DEF StringEntries
    <3> HIDE DEF E, V, p
    <3>2. IsFiniteSet(V) /\ Cardinality(V) = Cardinality(E)
      BY <1>2, <3>1, ImageCardinality
    <3> QED  BY <1>2, <3>2
  <2>3. K \cap V = {}
    BY <2>1 DEF StringEntries
  <2>4. MapBlocks = K \cup V
    BY <1>1, <1>4 DEF MapBlocks, EntryBlocks, Owned
  <2>5. K \cup V = DOMAIN heap
    BY <2>1 DEF StringEntries
  <2>6. Owners = data.size + data.size
    BY <1>1, <1>4 DEF Owners, ValueBlocks
  <2> HIDE DEF K, V
  <2>7. Cardinality(K \cup V) = data.size + data.size
    <3>1. Cardinality(K \cup V) = Cardinality(K) + Cardinality(V) - Cardinality(K \cap V)
      BY <1>3, <2>2, FS_Union
    <3> QED  BY <1>1, <1>3, <2>2, <2>3, <3>1, FS_EmptySet
  <2> QED  BY <2>4, <2>5, <2>6, <2>7
<1>5. CASE ~OfStrings
  <2>1. MapBlocks = K
    BY <1>1, <1>5 DEF MapBlocks, EntryBlocks, Owned
  <2>2. K = DOMAIN heap
    BY <1>1, <1>5 DEF EntriesOK, NumberEntries
  <2>3. Owners = data.size
    BY <1>1, <1>5 DEF Owners, ValueBlocks
  <2> QED  BY <1>3, <2>1, <2>2, <2>3
<1> QED  BY <1>4, <1>5

LEMMA MapDestroyKeeps == ASSUME IInv, MapDestroy PROVE IInv'
<1>1. /\ IsMap /\ Live /\ SameObject /\ HeapOK(heap) /\ misuse = FALSE /\ data' = Null
      /\ misuse' = Misused(MapBlocks, Owners) /\ heap' = Without(heap, MapBlocks)
  BY DEF IInv, MapDestroy
<1>2. misuse' = FALSE
  BY <1>1, MapBlocksFacts DEF Misused
<1>3. HeapOK(heap') /\ DOMAIN heap' = {}
  <2>1. HeapOK(Without(heap, MapBlocks))
        /\ DOMAIN Without(heap, MapBlocks) = DOMAIN heap \ MapBlocks
    BY <1>1, HeapWithout
  <2> QED  BY <1>1, <2>1, MapBlocksFacts
<1> QED  BY <1>1, <1>2, <1>3, EmptyKeeps
-----------------------------------------------------------------------------

LEMMA InitInv == Init => IInv
<1> SUFFICES ASSUME Init PROVE IInv
  OBVIOUS
<1>1. HeapOK(heap) /\ DOMAIN heap = {} /\ ~Live
  BY FS_EmptySet DEF Init, HeapOK, Live
<1>2. class \in Classes /\ misuse = FALSE /\ (IsMap => hash \in [Strings -> BucketNumbers])
  BY DEF Init, IsMap, BucketNumbers
<1> QED  BY <1>1, <1>2 DEF IInv, ListOK, MapOK

LEMMA StutterKeeps == ASSUME IInv, UNCHANGED vars PROVE IInv'
BY DEF IInv, vars, ListOK, MapOK, IsList, IsMap, Live, OfStrings, MapAt, ChainsOK, EntriesOK

LEMMA NextInv == ASSUME IInv, [Next]_vars PROVE IInv'
<1>1. CASE ListInit \/ ListDestroy
  BY <1>1, ListInitKeeps, ListDestroyKeeps
<1>2. CASE MapInit \/ MapDestroy
  BY <1>2, MapInitKeeps, MapDestroyKeeps
<1>3. ASSUME NEW v \in Values, ListAdd(v) PROVE IInv'
  BY <1>3, ListAddKeeps
<1>4. ASSUME NEW v \in Values, NEW i \in Indices, ListSet(i, v) PROVE IInv'
  BY <1>4, ListSetKeeps
<1>5. ASSUME NEW v \in Values, NEW k \in Strings \cup {NullString}, MapPut(k, v) PROVE IInv'
  BY <1>5, MapPutKeeps
<1>6. ASSUME NEW i \in Indices, ListRemoveAt(i) PROVE IInv'
  BY <1>6, ListRemoveAtKeeps
<1>7. ASSUME NEW k \in Strings \cup {NullString}, MapRemove(k) PROVE IInv'
  BY <1>7, MapRemoveKeeps
<1>8. CASE UNCHANGED vars
  BY <1>8, StutterKeeps
<1> QED  BY <1>1, <1>2, <1>3, <1>4, <1>5, <1>6, <1>7, <1>8 DEF Next

LEMMA InvTypeOK == ASSUME IInv PROVE TypeOK
<1>1. class \in Classes /\ misuse \in BOOLEAN /\ \A b \in DOMAIN heap : heap[b] \in Strings
  BY DEF IInv, HeapOK
<1>2. ASSUME Live, IsList PROVE Size \in Nat /\ Size <= Len(data.slots)
  BY <1>2 DEF IInv, ListOK, ListShape, Size
<1>3. ASSUME Live, IsMap
      PROVE  Size \in Nat /\ \A n \in DOMAIN data.buckets : Len(data.buckets[n]) <= Size
  <2>1. MapShape(data) /\ MapAt(data, heap) /\ EntriesOK(EntriesOf(data), heap, data.size)
    BY <1>3, MapFacts
  <2>2. DOMAIN data.buckets = BucketNumbers /\ Size \in Nat
    BY <2>1 DEF MapShape, Size
  <2>3. ASSUME NEW n \in BucketNumbers PROVE Len(data.buckets[n]) <= Size
    <3>1. PICK b : b = data.buckets[n]
      OBVIOUS
    <3>2. PICK E : E = EntriesOf(data)
      OBVIOUS
    <3>3. /\ Len(b) \in Nat /\ \A i \in 1..Len(b) : b[i] \in E
          /\ \A i, j \in 1..Len(b) : b[i] = b[j] => i = j
      BY <2>1, <3>1, <3>2, ChainFacts DEF Distinct
    <3>4. IsFiniteSet(E) /\ Cardinality(E) = Size
      BY <2>1, <3>2 DEF EntriesOK, KeysOK, Size
    <3>5. IsFiniteSet(1..Len(b)) /\ Cardinality(1..Len(b)) = Len(b)
      <4>1. PICK p \in Nat : p = Len(b)
        BY <3>3
      <4>2. IsFiniteSet(1..p) /\ Cardinality(1..p) = p
        BY FS_Interval
      <4> QED  BY <4>1, <4>2
    <3>6. Cardinality(1..Len(b)) <= Cardinality(E)
      <4> DEFINE f == [i \in 1..Len(b) |-> b[i]]
                 S == 1..Len(b)
      <4>1. f \in Injection(S, E)
        BY <3>3 DEF Injection, IsInjective
      <4>2. IsFiniteSet(E)
        BY <3>4
      <4> HIDE DEF S, f
      <4>3. Cardinality(S) <= Cardinality(E)
        BY <4>1, <4>2, FS_Injection
      <4> QED  BY <4>3 DEF S
    <3> QED  BY <3>1, <3>4, <3>5, <3>6
  <2> QED  BY <2>2, <2>3
<1> QED  BY <1>1, <1>2, <1>3 DEF TypeOK, Live, IsMap

LEMMA InvBlocksOwnedOnce == ASSUME IInv PROVE BlocksOwnedOnce
<1>1. CASE ~Live
  BY <1>1 DEF IInv, BlocksOwnedOnce, Blocks
<1>2. CASE Live /\ IsList
  BY <1>2, ListBlocksFacts DEF IInv, BlocksOwnedOnce, Blocks
<1>3. CASE Live /\ IsMap
  BY <1>3, MapBlocksFacts DEF IInv, BlocksOwnedOnce, Blocks, IsMap
<1> QED  BY <1>1, <1>2, <1>3 DEF IsMap

(* The size counts elements that are there: the array has room for those   *)
(* of a list, no chain is longer than its map has entries.                 *)
THEOREM TypeCorrect == Spec => []TypeOK
<1>1. Init => IInv
  BY InitInv
<1>2. IInv /\ [Next]_vars => IInv'
  BY NextInv
<1>3. IInv => TypeOK
  BY InvTypeOK
<1> QED  BY <1>1, <1>2, <1>3, PTL DEF Spec

(* Every block of string data in use belongs to exactly one key or element *)
(* of the container and none is freed twice, whatever is put, replaced and *)
(* removed, and destroy leaves nothing in use.                             *)
THEOREM EveryBlockOwnedOnce == Spec => []BlocksOwnedOnce
<1>1. Init => IInv
  BY InitInv
<1>2. IInv /\ [Next]_vars => IInv'
  BY NextInv
<1>3. IInv => BlocksOwnedOnce
  BY InvBlocksOwnedOnce
<1> QED  BY <1>1, <1>2, <1>3, PTL DEF Spec

-----------------------------------------------------------------------------
(* Collections implements Containers: what the calls return is what the    *)
(* sequence or function would, and each call changes the one as the other. *)

(* What an element x is the value of, when h is the heap. *)
Held(h, x) == IF OfStrings THEN (IF x \in DOMAIN h THEN h[x] ELSE Empty) ELSE x

(* What a get returns for a value that was put. *)
Kept(v) == IF OfStrings THEN Copied(v) ELSE v

Value == Strings \cup Item

ListContent(d, h) == [i \in 1..d.size |-> Held(h, d.slots[i])]

MapContent(E, h) ==
  [k \in {h[x.key] : x \in E} |-> Held(h, (CHOOSE x \in E : h[x.key] = k).value)]

WithKey(c, k, w) == [l \in DOMAIN c \cup {k} |-> IF l = k THEN w ELSE c[l]]

WithoutKey(c, k) == [l \in DOMAIN c \ {k} |-> c[l]]

LEMMA HeldIsValue ==
  ASSUME NEW h, HeapOK(h), NEW x \in Item
  PROVE  Held(h, x) \in Value
BY StringsAssumption DEF Held, HeapOK, Value
-----------------------------------------------------------------------------
(* Lists. *)

LEMMA ListContentFacts ==
  ASSUME NEW d, ListShape(d), NEW h, HeapOK(h), NEW c, c = ListContent(d, h)
  PROVE  /\ d.size \in Nat /\ c \in Seq(Value) /\ Len(c) = d.size
         /\ \A i \in 1..d.size : c[i] = Held(h, d.slots[i])
<1>1. d.size \in Nat /\ \A i \in 1..d.size : d.slots[i] \in Item
  BY DEF ListShape
<1>2. PICK n \in Nat : n = d.size
  BY <1>1
<1>3. \A i \in 1..n : Held(h, d.slots[i]) \in Value
  BY <1>1, <1>2, HeldIsValue
<1>4. c = [i \in 1..n |-> Held(h, d.slots[i])]
  BY <1>2 DEF ListContent
<1>5. c \in Seq(Value) /\ Len(c) = n /\ \A i \in 1..n : c[i] = Held(h, d.slots[i])
  BY <1>3, <1>4
<1> QED  BY <1>2, <1>5

LEMMA ContentOfList ==
  ASSUME IsList, Live
  PROVE  AbstractContent = ListContent(data, heap)
BY DEF AbstractContent, ListContent, Content, Held, Size

LEMMA ContentOfListThen ==
  ASSUME IsList, SameObject, Live'
  PROVE  AbstractContent' = ListContent(data', heap')
BY DEF AbstractContent, ListContent, Content, Held, Size, SameObject, IsList, OfStrings

(* e holds what d does, and then w. *)
OneMore(e, f, d, h, w) ==
  /\ e.size = d.size + 1 /\ Held(f, e.slots[d.size + 1]) = w
  /\ \A i \in 1..d.size : Held(f, e.slots[i]) = Held(h, d.slots[i])

LEMMA AddContent ==
  ASSUME NEW d, ListShape(d), NEW h, HeapOK(h), NEW e, ListShape(e), NEW f, HeapOK(f),
         NEW w \in Value, OneMore(e, f, d, h, w)
  PROVE  ListContent(e, f) = Append(ListContent(d, h), w)
<1>0. /\ e.size = d.size + 1 /\ Held(f, e.slots[d.size + 1]) = w
      /\ \A i \in 1..d.size : Held(f, e.slots[i]) = Held(h, d.slots[i])
  BY DEF OneMore
<1>1. PICK c : c = ListContent(d, h)
  OBVIOUS
<1>2. PICK b : b = ListContent(e, f)
  OBVIOUS
<1>3. PICK n \in Nat : n = d.size
  BY DEF ListShape
<1>4. /\ c \in Seq(Value) /\ Len(c) = n /\ b \in Seq(Value) /\ Len(b) = n + 1
      /\ \A i \in 1..n : b[i] = c[i]
      /\ b[n + 1] = w
  <2>1. /\ c \in Seq(Value) /\ Len(c) = n
        /\ \A i \in 1..n : c[i] = Held(h, d.slots[i])
    BY <1>1, <1>3, ListContentFacts
  <2>2. /\ b \in Seq(Value) /\ Len(b) = n + 1
        /\ \A i \in 1..(n + 1) : b[i] = Held(f, e.slots[i])
    BY <1>0, <1>2, <1>3, ListContentFacts
  <2>3. \A i \in 1..n : b[i] = c[i]
    <3> SUFFICES ASSUME NEW i \in 1..n  PROVE  b[i] = c[i]
      OBVIOUS
    <3>1. i \in 1..(n + 1)
      BY SMTT(30)
    <3>2. i \in 1..d.size
      BY <1>3
    <3> QED  BY <1>0, <2>1, <2>2, <3>1, <3>2, ZenonT(30)
  <2>4. b[n + 1] = w
    <3>1. n + 1 \in 1..(n + 1)
      BY SMTT(30)
    <3> QED  BY <1>0, <1>3, <2>2, <3>1, ZenonT(30)
  <2> QED  BY <2>1, <2>2, <2>3, <2>4
<1>5. b = Append(c, w)
  <2>1. PICK a : a = Append(c, w)
    OBVIOUS
  <2>2. /\ a \in Seq(Value) /\ Len(a) = n + 1 /\ a[n + 1] = w
        /\ \A i \in 1..n : a[i] = c[i]
    BY <1>4, <2>1, AppendProperties
  <2>3. \A i \in 1..(n + 1) : b[i] = a[i]
    BY <1>4, <2>2
  <2>4. b = a
    BY <1>4, <2>2, <2>3, SeqEqual
  <2> QED  BY <2>1, <2>4
<1> QED  BY <1>1, <1>2, <1>5

LEMMA KeptIsValue ==
  ASSUME NEW v \in Values
  PROVE  Kept(v) \in Value /\ Kept(v) \in Texts \cup Numbers \cup {Empty}
BY StringsAssumption DEF Kept, Value, Values, Copied, Item

(* What a list owns is not touched when a block is added to the heap. *)
LEMMA HeldWith ==
  ASSUME OfStrings, NEW h, NEW b, NEW s, NEW f, f = With(h, b, s)
  PROVE  /\ Held(f, b) = s
         /\ \A x \in DOMAIN h : x # b => Held(f, x) = Held(h, x)
BY DEF Held, With

LEMMA HeldWithout ==
  ASSUME OfStrings, NEW h, NEW bs, NEW f, f = Without(h, bs)
  PROVE  \A x \in DOMAIN h : x \notin bs => Held(f, x) = Held(h, x)
BY DEF Held, Without

LEMMA ListAddContent ==
  ASSUME IInv, NEW v \in Values, ListAdd(v)
  PROVE  AbstractContent' = Append(AbstractContent, Kept(v))
<1>1. /\ IsList /\ Live /\ SameObject /\ HeapOK(heap) /\ ListShape(data)
      /\ data' = Added(data, Stored(heap, v)) /\ heap' = StoredHeap(heap, v)
      /\ OfStrings => StringList(data, heap)
  BY DEF IInv, ListOK, ListAdd, Added, Size
<1>2. IInv'
  BY ListAddKeeps
<1>3. /\ IsList' /\ Live'
  BY <1>1 DEF SameObject, IsList, Added, Live, Null
<1>4. HeapOK(heap') /\ ListShape(data')
  BY <1>2, <1>3 DEF IInv, ListOK
<1>5. PICK d, h, e, f, x : d = data /\ h = heap /\ e = data' /\ f = heap' /\ x = Stored(heap, v)
  OBVIOUS
<1>6. /\ HeapOK(h) /\ ListShape(d) /\ HeapOK(f) /\ ListShape(e) /\ e = Added(d, x)
      /\ f = StoredHeap(h, v) /\ x = Stored(h, v)
      /\ OfStrings => StringList(d, h)
  BY <1>1, <1>4, <1>5
<1>7. x \in Item
  BY <1>6, StoredString, StoredNumber DEF Item
<1>8. /\ d.size \in Nat /\ e.size = d.size + 1 /\ e.slots[d.size + 1] = x
      /\ \A i \in 1..d.size : e.slots[i] = d.slots[i]
  <2>1. d.size \in Nat
    BY <1>6 DEF ListShape
  <2> QED  BY <1>6, <1>7, <2>1, AddShape
<1>9. Held(f, x) = Kept(v) /\ \A i \in 1..d.size : Held(f, d.slots[i]) = Held(h, d.slots[i])
  <2>1. CASE OfStrings
    <3>1. x \notin DOMAIN h /\ f = With(h, x, Copied(v))
      BY <1>6, <2>1, StoredString
    <3>2. \A i \in 1..d.size : d.slots[i] \in DOMAIN h
      BY <1>6, <2>1 DEF StringList
    <3> QED  BY <2>1, <3>1, <3>2, HeldWith DEF Kept
  <2>2. CASE ~OfStrings
    BY <1>6, <2>2, StoredNumber DEF Held, Kept
  <2> QED  BY <2>1, <2>2
<1>10. ListContent(e, f) = Append(ListContent(d, h), Kept(v))
  <2>1. OneMore(e, f, d, h, Kept(v))
    BY <1>8, <1>9 DEF OneMore
  <2> QED  BY <1>6, <2>1, KeptIsValue, AddContent
<1> QED  BY <1>1, <1>3, <1>5, <1>10, ContentOfList, ContentOfListThen

LEMMA SetContent ==
  ASSUME NEW d, ListShape(d), NEW h, HeapOK(h), NEW e, ListShape(e), NEW f, HeapOK(f),
         NEW w \in Value, NEW k \in 1..d.size,
         e.size = d.size, Held(f, e.slots[k]) = w,
         \A i \in 1..d.size : i # k => Held(f, e.slots[i]) = Held(h, d.slots[i])
  PROVE  ListContent(e, f) = [ListContent(d, h) EXCEPT ![k] = w]
<1>1. PICK n, c, b : n = d.size /\ c = ListContent(d, h) /\ b = ListContent(e, f)
  OBVIOUS
<1>2. b = [i \in 1..n |-> Held(f, e.slots[i])]
  BY <1>1 DEF ListContent
<1>3. c = [i \in 1..n |-> Held(h, d.slots[i])]
  BY <1>1 DEF ListContent
<1>4. \A i \in 1..n : b[i] = IF i = k THEN w ELSE c[i]
  BY <1>1, <1>2, <1>3
<1>5. b = [c EXCEPT ![k] = w]
  BY <1>2, <1>3, <1>4
<1> QED  BY <1>1, <1>5

LEMMA ListSetContent ==
  ASSUME IInv, NEW v \in Values, NEW i, ListSet(i, v)
  PROVE  /\ i \in 0..(Len(AbstractContent) - 1)
         /\ AbstractContent' = [AbstractContent EXCEPT ![i + 1] = Kept(v)]
<1>1. /\ IsList /\ Live /\ SameObject /\ HeapOK(heap) /\ ListShape(data) /\ i \in 0..(data.size - 1)
      /\ OfStrings => StringList(data, heap)
  BY DEF IInv, ListOK, ListSet, InRange, Size
<1>2. PICK d, h, e, f, k : d = data /\ h = heap /\ e = data' /\ f = heap' /\ k = i + 1
  OBVIOUS
<1>3. PICK g : g = Without(h, Owned(d.slots[k]))
  OBVIOUS
<1>4. PICK x : x = Stored(g, v)
  OBVIOUS
<1>5. e = SlotSet(d, k, x) /\ f = StoredHeap(g, v)
  BY <1>2, <1>3, <1>4 DEF ListSet, SlotSet
<1>6. IInv'
  BY ListSetKeeps
<1>7. /\ ListShape(d) /\ HeapOK(h) /\ k \in 1..d.size /\ d.size \in Nat
      /\ OfStrings => StringList(d, h)
  BY <1>1, <1>2 DEF ListShape
<1>8. HeapOK(g)
  BY <1>3, <1>7, HeapWithout
<1>9. x \in Item
  BY <1>4, <1>8, StoredString, StoredNumber DEF Item
<1>10. /\ ListShape(e) /\ e.size = d.size /\ e.slots[k] = x
       /\ \A j \in 1..d.size : j # k => e.slots[j] = d.slots[j]
  <2>1. e = SlotSet(d, k, x) /\ ListShape(d) /\ k \in 1..d.size
    BY <1>5, <1>7
  <2> QED  BY <1>9, <2>1, SetShape
<1>11. IsList' /\ Live'
  BY <1>1, <1>2, <1>10 DEF SameObject, IsList, ListShape, Live, Null
<1>12. HeapOK(f)
  BY <1>2, <1>6 DEF IInv
<1>13. Held(f, x) = Kept(v) /\ \A j \in 1..d.size : j # k => Held(f, d.slots[j]) = Held(h, d.slots[j])
  <2>1. CASE OfStrings
    <3>1. x \notin DOMAIN g /\ f = With(g, x, Copied(v))
      BY <1>4, <1>5, <1>8, <2>1, StoredString
    <3>2. g = Without(h, {d.slots[k]})
      BY <1>3, <2>1 DEF Owned
    <3>3. \A j \in 1..d.size : d.slots[j] \in DOMAIN h /\ (j # k => d.slots[j] # d.slots[k])
      BY <1>7, <2>1 DEF StringList
    <3>4. DOMAIN g = DOMAIN h \ {d.slots[k]}
      BY <3>2 DEF Without
    <3>5. \A j \in 1..d.size : j # k => d.slots[j] \in DOMAIN g /\ Held(g, d.slots[j]) = Held(h, d.slots[j])
      BY <2>1, <3>2, <3>3, <3>4 DEF Held, Without
    <3>6. /\ Held(f, x) = Copied(v)
          /\ \A y \in DOMAIN g : y # x => Held(f, y) = Held(g, y)
      BY <2>1, <3>1, HeldWith
    <3> QED  BY <2>1, <3>1, <3>5, <3>6 DEF Kept
  <2>2. CASE ~OfStrings
    BY <1>4, <2>2, StoredNumber DEF Held, Kept
  <2> QED  BY <2>1, <2>2
<1>14. ListContent(e, f) = [ListContent(d, h) EXCEPT ![k] = Kept(v)]
  BY <1>7, <1>10, <1>12, <1>13, KeptIsValue, SetContent
<1>15. Len(ListContent(d, h)) = d.size
  BY <1>7, ListContentFacts
<1> QED  BY <1>1, <1>2, <1>11, <1>14, <1>15, ContentOfList, ContentOfListThen

(* What is in e behind the place i comes from one place further in d. *)
MovedUp(e, f, d, h, i) ==
  \A k \in 1..e.size :
    Held(f, e.slots[k]) = IF k <= i THEN Held(h, d.slots[k]) ELSE Held(h, d.slots[k + 1])

CutAt(c, i) == SubSeq(c, 1, i) \o SubSeq(c, i + 2, Len(c))

LEMMA CloseContent ==
  ASSUME NEW d, ListShape(d), NEW h, HeapOK(h), NEW e, ListShape(e), NEW f, HeapOK(f),
         NEW i \in 0..(d.size - 1), e.size = d.size - 1, MovedUp(e, f, d, h, i)
  PROVE  ListContent(e, f) = CutAt(ListContent(d, h), i)
<1>1. PICK c : c = ListContent(d, h)
  OBVIOUS
<1>2. PICK b : b = ListContent(e, f)
  OBVIOUS
<1>3. PICK n \in Nat : n = d.size
  BY DEF ListShape
<1>4. /\ c \in Seq(Value) /\ Len(c) = n /\ b \in Seq(Value) /\ Len(b) = n - 1 /\ i \in 0..(n - 1)
      /\ \A k \in 1..(n - 1) : b[k] = IF k <= i THEN c[k] ELSE c[k + 1]
  <2>1. /\ c \in Seq(Value) /\ Len(c) = n
        /\ \A k \in 1..n : c[k] = Held(h, d.slots[k])
    BY <1>1, <1>3, ListContentFacts
  <2>2. /\ b \in Seq(Value) /\ Len(b) = n - 1
        /\ \A k \in 1..(n - 1) : b[k] = Held(f, e.slots[k])
    BY <1>2, <1>3, ListContentFacts
  <2>3. \A k \in 1..(n - 1) : k \in 1..n /\ k + 1 \in 1..n
    OBVIOUS
  <2>4. \A k \in 1..(n - 1) :
          Held(f, e.slots[k]) = IF k <= i THEN Held(h, d.slots[k]) ELSE Held(h, d.slots[k + 1])
    BY <1>3 DEF MovedUp
  <2> QED  BY <1>3, <2>1, <2>2, <2>3, <2>4
<1>5. PICK p, q : p = SubSeq(c, 1, i) /\ q = SubSeq(c, i + 2, n)
  OBVIOUS
<1>6. p \in Seq(Value) /\ Len(p) = i /\ \A k \in 1..i : p[k] = c[k]
  BY <1>4, <1>5
<1>7. q \in Seq(Value) /\ Len(q) = n - i - 1 /\ \A k \in 1..(n - i - 1) : q[k] = c[k + i + 1]
  <2>1. \A k \in (i + 2)..n : c[k] \in Value
    BY <1>4
  <2>2. i + 2 \in Int /\ n \in Int /\ i \in Int
    OBVIOUS
  <2>3. /\ q \in Seq(Value)
        /\ Len(q) = IF i + 2 <= n THEN n - (i + 2) + 1 ELSE 0
        /\ \A k \in 1..(n - (i + 2) + 1) : q[k] = c[(i + 2) + k - 1]
    BY <1>5, <2>1, <2>2, SubSeqProperties
  <2>4. \A k \in 1..(n - i - 1) : k \in 1..(n - (i + 2) + 1) /\ (i + 2) + k - 1 = k + i + 1
    OBVIOUS
  <2>5. (IF i + 2 <= n THEN n - (i + 2) + 1 ELSE 0) = n - i - 1
    BY <1>4
  <2> QED  BY <2>3, <2>4, <2>5
<1>8. PICK a : a = p \o q
  OBVIOUS
<1>9. /\ a \in Seq(Value) /\ Len(a) = n - 1
      /\ \A k \in 1..(n - 1) : a[k] = IF k <= i THEN p[k] ELSE q[k - i]
  <2>1. /\ a \in Seq(Value) /\ Len(a) = Len(p) + Len(q)
        /\ \A k \in 1..(Len(p) + Len(q)) : a[k] = IF k <= Len(p) THEN p[k] ELSE q[k - Len(p)]
    <3>1. p \in Seq(Value) /\ q \in Seq(Value)
      BY <1>6, <1>7
    <3> QED  BY <1>8, <3>1, ConcatProperties
  <2>2. Len(p) + Len(q) = n - 1
    BY <1>4, <1>6, <1>7
  <2> QED  BY <1>6, <2>1, <2>2
<1>10. ASSUME NEW k \in 1..(n - 1) PROVE b[k] = a[k]
  <2>1. CASE k <= i
    BY <1>4, <1>6, <1>9, <2>1
  <2>2. CASE ~(k <= i)
    <3>1. k - i \in 1..(n - i - 1) /\ (k - i) + i + 1 = k + 1
      BY <1>4, <2>2
    <3>2. q[k - i] = c[k + 1]
      BY <1>7, <3>1
    <3> QED  BY <1>4, <1>9, <2>2, <3>2
  <2> QED  BY <2>1, <2>2
<1>11. b = a
  BY <1>4, <1>9, <1>10, SeqEqual
<1> QED  BY <1>1, <1>2, <1>4, <1>5, <1>8, <1>11 DEF CutAt

LEMMA ListRemoveAtContent ==
  ASSUME IInv, NEW i, ListRemoveAt(i)
  PROVE  /\ i \in 0..(Len(AbstractContent) - 1)
         /\ AbstractContent' = CutAt(AbstractContent, i)
<1>1. /\ IsList /\ Live /\ SameObject /\ HeapOK(heap) /\ ListShape(data) /\ i \in 0..(data.size - 1)
      /\ OfStrings => StringList(data, heap)
  BY DEF IInv, ListOK, ListRemoveAt, InRange, Size
<1>2. PICK d, h, e, f : d = data /\ h = heap /\ e = data' /\ f = heap'
  OBVIOUS
<1>3. e = Closed(d, i) /\ f = Without(h, Owned(d.slots[i + 1]))
  BY <1>2 DEF ListRemoveAt
<1>4. IInv'
  BY ListRemoveAtKeeps
<1>5. /\ ListShape(d) /\ HeapOK(h) /\ i \in 0..(d.size - 1) /\ d.size \in Nat
      /\ OfStrings => StringList(d, h)
  BY <1>1, <1>2 DEF ListShape
<1>6. /\ ListShape(e) /\ e.size = d.size - 1
      /\ \A k \in 1..e.size : e.slots[k] = IF k <= i THEN d.slots[k] ELSE d.slots[k + 1]
  BY <1>3, <1>5, CloseShape
<1>7. IsList' /\ Live'
  BY <1>1, <1>2, <1>6 DEF SameObject, IsList, ListShape, Live, Null
<1>8. HeapOK(f)
  BY <1>2, <1>4 DEF IInv
<1>9. \A k \in 1..d.size : k # i + 1 => Held(f, d.slots[k]) = Held(h, d.slots[k])
  <2>1. CASE OfStrings
    <3>1. \A k \in 1..d.size : d.slots[k] \in DOMAIN h /\ (k # i + 1 => d.slots[k] # d.slots[i + 1])
      BY <1>5, <2>1 DEF StringList
    <3>2. f = Without(h, {d.slots[i + 1]})
      BY <1>3, <2>1 DEF Owned
    <3> QED  BY <2>1, <3>1, <3>2 DEF Held, Without
  <2>2. CASE ~OfStrings
    BY <2>2 DEF Held
  <2> QED  BY <2>1, <2>2
<1>10. MovedUp(e, f, d, h, i)
  BY <1>5, <1>6, <1>9 DEF MovedUp
<1>11. ListContent(e, f) = CutAt(ListContent(d, h), i)
  BY <1>5, <1>6, <1>8, <1>10, CloseContent
<1>12. Len(ListContent(d, h)) = d.size
  BY <1>5, ListContentFacts
<1> QED  BY <1>1, <1>2, <1>5, <1>7, <1>11, <1>12, ContentOfList, ContentOfListThen
-----------------------------------------------------------------------------
(* Maps. *)

(* No two entries of E for one key. *)
Single(E, h) == \A x, y \in E : h[x.key] = h[y.key] => x = y

SameHeld(E, h, f) == \A x \in E : Held(f, x.value) = Held(h, x.value)

IsContent(c, E, h) ==
  /\ DOMAIN c = {h[x.key] : x \in E}
  /\ \A x \in E : c[h[x.key]] = Held(h, x.value)

LEMMA MapContentFacts ==
  ASSUME NEW E, NEW h, Single(E, h), NEW c, c = MapContent(E, h)
  PROVE  IsContent(c, E, h)
<1>1. ASSUME NEW x \in E PROVE (CHOOSE y \in E : h[y.key] = h[x.key]) = x
  BY DEF Single
<1> QED  BY <1>1 DEF MapContent, IsContent

LEMMA ContentOfMap ==
  ASSUME IInv, IsMap, Live
  PROVE  AbstractContent = MapContent(EntriesOf(data), heap)
<1>1. Entries = EntriesOf(data)
  BY MapFacts
<1>2. AbstractContent = [k \in {heap[e.key] : e \in Entries} |->
                           Content((CHOOSE e \in Entries : heap[e.key] = k).value)]
  BY DEF AbstractContent, IsMap
<1> QED  BY <1>1, <1>2 DEF MapContent, Content, Held

LEMMA ContentOfMapThen ==
  ASSUME IInv', IsMap, SameObject, Live'
  PROVE  AbstractContent' = MapContent(EntriesOf(data'), heap')
<1>1. IsMap' /\ (OfStrings' <=> OfStrings)
  BY DEF SameObject, IsMap, IsList, OfStrings
<1>2. (AbstractContent = MapContent(EntriesOf(data), heap))'
  BY <1>1, ContentOfMap, PTL
<1> QED  BY <1>1, <1>2 DEF MapContent, Held

(* The entries of a key go, if there are any, and another comes. *)
PutsKey(E, h, F, f, out, new, k, w) ==
  /\ Single(E, h) /\ Single(F, f)
  /\ F = Exchanged(E, out, {new})
  /\ \A x \in E : x \in out <=> h[x.key] = k
  /\ f[new.key] = k /\ Held(f, new.value) = w
  /\ SameKeys(E \ out, h, f) /\ SameHeld(E \ out, h, f)

LEMMA PutContent ==
  ASSUME NEW E, NEW h, NEW F, NEW f, NEW out, NEW new, NEW k, NEW w,
         PutsKey(E, h, F, f, out, new, k, w)
  PROVE  MapContent(F, f) = WithKey(MapContent(E, h), k, w)
<1>1. /\ Single(E, h) /\ Single(F, f)
      /\ F = (E \ out) \cup {new}
      /\ \A x \in E : x \in out <=> h[x.key] = k
      /\ f[new.key] = k /\ Held(f, new.value) = w
      /\ \A x \in E \ out : f[x.key] = h[x.key] /\ Held(f, x.value) = Held(h, x.value)
  BY DEF PutsKey, Exchanged, SameKeys, SameHeld
<1>2. PICK c, b : c = MapContent(E, h) /\ b = MapContent(F, f)
  OBVIOUS
<1>3. DOMAIN c = {h[x.key] : x \in E} /\ \A x \in E : c[h[x.key]] = Held(h, x.value)
  <2>1. Single(E, h)
    BY <1>1
  <2>2. IsContent(c, E, h)
    BY <1>2, <2>1, MapContentFacts
  <2> QED  BY <2>2 DEF IsContent
<1>4. DOMAIN b = {f[x.key] : x \in F} /\ \A x \in F : b[f[x.key]] = Held(f, x.value)
  <2>1. Single(F, f)
    BY <1>1
  <2>2. IsContent(b, F, f)
    BY <1>2, <2>1, MapContentFacts
  <2> QED  BY <2>2 DEF IsContent
<1>5. DOMAIN b = DOMAIN c \cup {k}
  <2>1. ASSUME NEW l \in DOMAIN b PROVE l \in DOMAIN c \cup {k}
    <3>1. PICK x \in F : l = f[x.key]
      BY <1>4
    <3> QED  BY <1>1, <1>3, <3>1
  <2>2. ASSUME NEW l \in DOMAIN c PROVE l \in DOMAIN b
    <3>1. PICK x \in E : l = h[x.key]
      BY <1>3
    <3>2. CASE x \in out
      BY <1>1, <1>4, <3>1, <3>2
    <3>3. CASE x \notin out
      BY <1>1, <1>4, <3>1, <3>3
    <3> QED  BY <3>2, <3>3
  <2>3. k \in DOMAIN b
    BY <1>1, <1>4
  <2> QED  BY <2>1, <2>2, <2>3
<1>6. ASSUME NEW l \in DOMAIN b PROVE b[l] = IF l = k THEN w ELSE c[l]
  <2>1. PICK x \in F : l = f[x.key]
    BY <1>4
  <2>2. CASE l = k
    <3>1. b[f[new.key]] = Held(f, new.value)
      BY <1>1, <1>4
    <3> QED  BY <1>1, <2>2, <3>1
  <2>3. CASE l # k
    <3>1. x \in E \ out
      BY <1>1, <2>1, <2>3
    <3>2. b[l] = Held(f, x.value) /\ c[l] = Held(h, x.value)
      BY <1>1, <1>3, <1>4, <2>1, <3>1
    <3> QED  BY <1>1, <2>3, <3>1, <3>2
  <2> QED  BY <2>2, <2>3
<1>7. b = [l \in DOMAIN b |-> b[l]]
  BY <1>2 DEF MapContent
<1>8. b = [l \in DOMAIN c \cup {k} |-> IF l = k THEN w ELSE c[l]]
  BY <1>5, <1>6, <1>7
<1> QED  BY <1>2, <1>8 DEF WithKey

(* The entries of a key go. *)
LosesKey(E, h, F, f, old, k) ==
  /\ Single(E, h) /\ Single(F, f)
  /\ F = E \ {old} /\ old \in E /\ h[old.key] = k
  /\ SameKeys(F, h, f) /\ SameHeld(F, h, f)

LEMMA RemoveContent ==
  ASSUME NEW E, NEW h, NEW F, NEW f, NEW old, NEW k, LosesKey(E, h, F, f, old, k)
  PROVE  /\ MapContent(F, f) = WithoutKey(MapContent(E, h), k)
         /\ k \in DOMAIN MapContent(E, h)
<1>1. /\ Single(E, h) /\ Single(F, f)
      /\ F = E \ {old} /\ old \in E /\ h[old.key] = k
      /\ \A x \in F : f[x.key] = h[x.key] /\ Held(f, x.value) = Held(h, x.value)
  BY DEF LosesKey, SameKeys, SameHeld
<1>2. PICK c, b : c = MapContent(E, h) /\ b = MapContent(F, f)
  OBVIOUS
<1>3. DOMAIN c = {h[x.key] : x \in E} /\ \A x \in E : c[h[x.key]] = Held(h, x.value)
  <2>1. Single(E, h)
    BY <1>1
  <2>2. IsContent(c, E, h)
    BY <1>2, <2>1, MapContentFacts
  <2> QED  BY <2>2 DEF IsContent
<1>4. DOMAIN b = {f[x.key] : x \in F} /\ \A x \in F : b[f[x.key]] = Held(f, x.value)
  <2>1. Single(F, f)
    BY <1>1
  <2>2. IsContent(b, F, f)
    BY <1>2, <2>1, MapContentFacts
  <2> QED  BY <2>2 DEF IsContent
<1>5. DOMAIN b = DOMAIN c \ {k}
  <2>1. \A x \in E : h[x.key] = k => x = old
    BY <1>1 DEF Single
  <2>2. ASSUME NEW l \in DOMAIN b PROVE l \in DOMAIN c \ {k}
    <3>1. PICK x \in F : l = f[x.key]
      BY <1>4
    <3> QED  BY <1>1, <1>3, <2>1, <3>1
  <2>3. ASSUME NEW l \in DOMAIN c, l # k PROVE l \in DOMAIN b
    <3>1. PICK x \in E : l = h[x.key]
      BY <1>3
    <3> QED  BY <1>1, <1>4, <2>3, <3>1
  <2> QED  BY <2>2, <2>3
<1>6. ASSUME NEW l \in DOMAIN b PROVE b[l] = c[l]
  <2>1. PICK x \in F : l = f[x.key]
    BY <1>4
  <2> QED  BY <1>1, <1>3, <1>4, <2>1
<1>7. b = [l \in DOMAIN b |-> b[l]]
  BY <1>2 DEF MapContent
<1>8. b = [l \in DOMAIN c \ {k} |-> c[l]]
  BY <1>5, <1>6, <1>7
<1>9. k \in DOMAIN c
  BY <1>1, <1>3
<1> QED  BY <1>2, <1>8, <1>9 DEF WithoutKey

LEMMA SingleEntries ==
  ASSUME NEW E, NEW h, NEW n, EntriesOK(E, h, n)
  PROVE  Single(E, h)
BY DEF EntriesOK, KeysOK, Single

(* Values whose blocks stay keep what they hold. *)
LEMMA SameHeldIf ==
  ASSUME NEW E, NEW h, NEW f,
         OfStrings => \A x \in E : x.value \in DOMAIN h /\ x.value \in DOMAIN f,
         OfStrings => SameValues(E, h, f)
  PROVE  SameHeld(E, h, f)
BY DEF SameHeld, SameValues, Held

LEMMA AddsContent ==
  ASSUME NEW E, NEW h, NEW n, NEW k, NEW v, NEW g, NEW f, NEW new, NEW F,
         Puts(E, h, n, k, v, g, f, new), F = Exchanged(E, {}, {new})
  PROVE  MapContent(F, f) = WithKey(MapContent(E, h), k, Kept(v))
<1>1. /\ EntriesOK(E \cup {new}, f, n + 1)
      /\ SameKeys(E, h, f)
  BY PutEntry
<1>2. KeyHeld(f, new, k) /\ ValueHeld(f, new, v)
  BY PutEntry
<1>3. OfStrings => SameValues(E, h, f)
  BY PutEntry
<1>5. EntriesOK(E, h, n) /\ NoKey(E, h, k)
  BY DEF Puts
<1>6. F = E \cup {new}
  BY DEF Exchanged
<1>7. Single(E, h) /\ Single(F, f)
  BY <1>1, <1>5, <1>6, SingleEntries
<1>8. Held(f, new.value) = Kept(v)
  BY <1>2 DEF Held, Kept, ValueHeld
<1>9. SameHeld(E \ {}, h, f) /\ SameKeys(E \ {}, h, f)
  <2>1. OfStrings => \A x \in E : x.value \in DOMAIN h
    BY <1>5, BlocksInUse
  <2>2. OfStrings => \A x \in E \cup {new} : x.value \in DOMAIN f
    BY <1>1, BlocksInUse
  <2>3. SameHeld(E, h, f)
    BY <1>3, <2>1, <2>2, SameHeldIf
  <2> QED  BY <1>1, <2>3 DEF SameHeld, SameKeys
<1>10. \A x \in E : x \in {} <=> h[x.key] = k
  BY <1>5 DEF NoKey
<1>11. PutsKey(E, h, F, f, {}, new, k, Kept(v))
  BY <1>2, <1>7, <1>8, <1>9, <1>10 DEF PutsKey, KeyHeld
<1> QED  BY <1>11, PutContent

LEMMA ReplacesContent ==
  ASSUME NEW E, NEW h, NEW n, NEW k, NEW v, NEW old, NEW g, NEW f, NEW new, NEW F,
         h[old.key] = k,
         Replacement(E, h, n, old, v, g, f, new), F = Exchanged(E, {old}, {new})
  PROVE  MapContent(F, f) = WithKey(MapContent(E, h), k, Kept(v))
<1>1. /\ EntriesOK(Exchanged(E, {old}, {new}), f, n)
      /\ SameKeys(E, h, f)
  BY ReplaceValue
<1>2. new.key = old.key
  BY DEF Replacement, EntryOf
<1>3. OfStrings => SameValues(E \ {old}, h, f)
  BY ReplaceValue
<1>4. ValueHeld(f, new, v)
  BY ReplaceValue
<1>5. EntriesOK(E, h, n) /\ old \in E
  BY DEF Replacement
<1>6. F = (E \ {old}) \cup {new} /\ EntriesOK(F, f, n)
  BY <1>1 DEF Exchanged
<1>7. Single(E, h) /\ Single(F, f)
  BY <1>5, <1>6, SingleEntries
<1>8. Held(f, new.value) = Kept(v)
  BY <1>4 DEF Held, Kept, ValueHeld
<1>9. SameHeld(E \ {old}, h, f) /\ SameKeys(E \ {old}, h, f)
  <2>1. OfStrings => \A x \in E : x.value \in DOMAIN h
    BY <1>5, BlocksInUse
  <2>2. OfStrings => \A x \in F : x.value \in DOMAIN f
    BY <1>6, BlocksInUse
  <2>3. SameHeld(E \ {old}, h, f)
    BY <1>3, <1>6, <2>1, <2>2, SameHeldIf
  <2> QED  BY <1>1, <2>3 DEF SameKeys
<1>10. \A x \in E : x \in {old} <=> h[x.key] = k
  BY <1>5, <1>7 DEF Single
<1>11. f[new.key] = k
  BY <1>1, <1>2, <1>5 DEF SameKeys
<1>12. PutsKey(E, h, F, f, {old}, new, k, Kept(v))
  BY <1>7, <1>8, <1>9, <1>10, <1>11 DEF PutsKey
<1> QED  BY <1>12, PutContent

LEMMA RemovesContent ==
  ASSUME NEW E, NEW h, HeapOK(h), NEW n \in Nat, EntriesOK(E, h, n), NEW k,
         NEW old \in E, h[old.key] = k,
         NEW f, f = Without(h, EntryBlocks(old)), NEW F, F = Exchanged(E, {old}, {})
  PROVE  /\ MapContent(F, f) = WithoutKey(MapContent(E, h), k)
         /\ k \in DOMAIN MapContent(E, h)
<1>1. EntriesOK(E \ {old}, f, n - 1) /\ SameKeys(E \ {old}, h, f)
  BY RemoveEntry
<1>2. OfStrings => SameValues(E \ {old}, h, f)
  BY RemoveEntry
<1>3. F = E \ {old}
  BY DEF Exchanged
<1>4. Single(E, h) /\ Single(F, f)
  BY <1>1, <1>3, SingleEntries
<1>5. SameHeld(F, h, f)
  <2>1. OfStrings => \A x \in E : x.value \in DOMAIN h
    BY BlocksInUse
  <2>2. OfStrings => \A x \in E \ {old} : x.value \in DOMAIN f
    BY <1>1, BlocksInUse
  <2> QED  BY <1>2, <1>3, <2>1, <2>2, SameHeldIf
<1>6. LosesKey(E, h, F, f, old, k)
  BY <1>1, <1>3, <1>4, <1>5 DEF LosesKey
<1> QED  BY <1>6, RemoveContent

LEMMA MapPutContent ==
  ASSUME IInv, NEW k, k \in Strings \cup {NullString}, NEW v \in Values, MapPut(k, v)
  PROVE  k \in Strings /\ AbstractContent' = WithKey(AbstractContent, k, Kept(v))
<1>1. /\ IInv' /\ Live' /\ k \in Strings /\ IsMap /\ Live /\ SameObject
      /\ PutReplaces(data, heap, data', heap', k, v) \/ PutAdds(data, heap, data', heap', k, v)
  BY MapPutKeeps DEF MapPut, Usable
<1>3. PICK d, h, e, f : d = data /\ h = heap /\ e = data' /\ f = heap'
  OBVIOUS
<1>4. PutReplaces(d, h, e, f, k, v) \/ PutAdds(d, h, e, f, k, v)
  BY <1>1, <1>3
<1>5. PICK E, F : E = EntriesOf(d) /\ F = EntriesOf(e)
  OBVIOUS
<1>6. MapContent(F, f) = WithKey(MapContent(E, h), k, Kept(v))
  <2>1. CASE PutReplaces(d, h, e, f, k, v)
    <3>1. PICK old, g, new :
            /\ h[old.key] = k
            /\ Replacement(E, h, d.size, old, v, g, f, new)
            /\ F = Exchanged(E, {old}, {new})
      BY <1>5, <2>1 DEF PutReplaces
    <3> QED  BY <3>1, ReplacesContent
  <2>2. CASE PutAdds(d, h, e, f, k, v)
    <3>1. PICK g, new : /\ Puts(E, h, d.size, k, v, g, f, new)
                        /\ F = Exchanged(E, {}, {new})
      BY <1>5, <2>2 DEF PutAdds
    <3> QED  BY <3>1, AddsContent
  <2> QED  BY <1>4, <2>1, <2>2
<1> QED  BY <1>1, <1>3, <1>5, <1>6, ContentOfMap, ContentOfMapThen

LEMMA MapRemoveContent ==
  ASSUME IInv, NEW k, k \in Strings \cup {NullString}, MapRemove(k)
  PROVE  /\ k \in Strings /\ k \in DOMAIN AbstractContent
         /\ AbstractContent' = WithoutKey(AbstractContent, k)
<1>1. /\ IInv' /\ Live' /\ k \in Strings /\ IsMap /\ Live /\ SameObject
      /\ Removes(data, heap, data', heap', k)
  BY MapRemoveKeeps DEF MapRemove, Usable
<1>3. PICK d, h, e, f : d = data /\ h = heap /\ e = data' /\ f = heap'
  OBVIOUS
<1>4. HeapOK(h) /\ d.size \in Nat /\ EntriesOK(EntriesOf(d), h, d.size)
  BY <1>1, <1>3, MapFacts
<1>5. PICK E, F : E = EntriesOf(d) /\ F = EntriesOf(e)
  OBVIOUS
<1>6. PICK old \in E : h[old.key] = k /\ f = Without(h, EntryBlocks(old)) /\ F = Exchanged(E, {old}, {})
  BY <1>1, <1>3, <1>5 DEF Removes
<1>7. MapContent(F, f) = WithoutKey(MapContent(E, h), k) /\ k \in DOMAIN MapContent(E, h)
  BY <1>4, <1>5, <1>6, RemovesContent
<1> QED  BY <1>1, <1>3, <1>5, <1>7, ContentOfMap, ContentOfMapThen
-----------------------------------------------------------------------------
(* What the calls return. *)

LEMMA ListLookups ==
  ASSUME IInv, IsList, NEW i \in Indices
  PROVE  ListGet(i) = IF Abstract!Has(i) THEN AbstractContent[i + 1] ELSE Missing
<1>0. i \in Int
  BY SizesAssumption DEF Indices
<1>1. CASE ~Live
  BY <1>1 DEF ListGet, Abstract!Has
<1>2. CASE Live
  <2>1. ListShape(data) /\ HeapOK(heap)
    BY <1>2 DEF IInv, ListOK
  <2>2. PICK c : c = AbstractContent
    OBVIOUS
  <2>3. c = ListContent(data, heap)
    BY <1>2, <2>2, ContentOfList
  <2>4. /\ data.size \in Nat /\ Len(c) = data.size
        /\ \A j \in 1..data.size : c[j] = Held(heap, data.slots[j])
    BY <2>1, <2>3, ListContentFacts
  <2>5. Abstract!Has(i) <=> i \in 0..(data.size - 1)
    BY <1>2, <2>2, <2>4 DEF Abstract!Has
  <2>6. CASE i \in 0..(data.size - 1)
    <3>1. i + 1 \in 1..data.size
      BY <2>4, <2>6
    <3>2. c[i + 1] = Held(heap, data.slots[i + 1])
      BY <2>4, <3>1
    <3>3. ListGet(i) = Content(data.slots[i + 1])
      BY <1>2, <2>6 DEF ListGet, InRange, Size
    <3>4. Content(data.slots[i + 1]) = Held(heap, data.slots[i + 1])
      BY DEF Content, Held
    <3> QED  BY <2>2, <2>5, <2>6, <3>2, <3>3, <3>4
  <2>7. CASE i \notin 0..(data.size - 1)
    BY <2>5, <2>7 DEF ListGet, InRange, Size
  <2> QED  BY <2>6, <2>7
<1> QED  BY <1>1, <1>2

LEMMA MapLookups ==
  ASSUME IInv, IsMap, NEW k \in Strings \cup {NullString}
  PROVE  /\ MapContainsKey(k) <=> Abstract!HasKey(k)
         /\ MapGet(k) = IF Abstract!HasKey(k) THEN AbstractContent[k] ELSE Missing
<1>1. CASE ~Live
  BY <1>1 DEF MapGet, MapContainsKey, Usable, Abstract!HasKey
<1>2. CASE Live
  <2>1. /\ HeapOK(heap) /\ EntriesOK(EntriesOf(data), heap, data.size)
    BY <1>2, MapFacts
  <2>2. PICK c, E : c = AbstractContent /\ E = EntriesOf(data)
    OBVIOUS
  <2>3. DOMAIN c = {heap[x.key] : x \in E} /\ \A x \in E : c[heap[x.key]] = Held(heap, x.value)
    <3>1. c = MapContent(E, heap) /\ Single(E, heap)
      BY <1>2, <2>1, <2>2, ContentOfMap, SingleEntries
    <3>2. IsContent(c, E, heap)
      BY <3>1, MapContentFacts
    <3> QED  BY <3>2 DEF IsContent
  <2>4. \A x \in E : heap[x.key] \in Strings
    BY <2>1, <2>2, BlocksInUse DEF HeapOK
  <2>5. Abstract!HasKey(k) <=> k \in DOMAIN c
    BY <1>2, <2>2 DEF Abstract!HasKey, IsMap
  <2>6. CASE k = NullString
    <3>1. k \notin DOMAIN c
      BY <2>3, <2>4, <2>6, StringsAssumption
    <3> QED  BY <2>5, <2>6, <3>1 DEF MapGet, MapContainsKey, Usable
  <2>7. CASE k \in Strings
    <3>1. PICK b : b = data.buckets[hash[k]]
      OBVIOUS
    <3>2. \A i \in Find(k) : b[i] \in E /\ heap[b[i].key] = k
      BY <1>2, <2>2, <2>7, <3>1, FindFacts
    <3>3. \A x \in E : heap[x.key] = k => \E i \in Find(k) : b[i] = x
      BY <1>2, <2>2, <2>7, <3>1, FindFacts
    <3>4. Find(k) # {} <=> k \in DOMAIN c
      BY <2>3, <3>2, <3>3
    <3>5. MapContainsKey(k) <=> Find(k) # {}
      BY <1>2, <2>7, StringsAssumption DEF MapContainsKey, Usable
    <3>6. CASE Find(k) # {}
      <4>1. PICK i : i = CHOOSE j \in Find(k) : TRUE
        OBVIOUS
      <4>2. i \in Find(k)
        BY <3>6, <4>1
      <4>3. c[k] = Held(heap, b[i].value)
        BY <2>3, <3>2, <4>2
      <4>4. MapGet(k) = Content(b[i].value)
        BY <3>1, <3>5, <3>6, <4>1 DEF MapGet, Chain
      <4>5. Content(b[i].value) = Held(heap, b[i].value)
        BY DEF Content, Held
      <4> QED  BY <2>2, <2>5, <3>4, <3>5, <3>6, <4>3, <4>4, <4>5
    <3>7. CASE Find(k) = {}
      BY <2>5, <3>4, <3>5, <3>7 DEF MapGet
    <3> QED  BY <3>6, <3>7
  <2> QED  BY <2>6, <2>7
<1> QED  BY <1>1, <1>2

LEMMA MapSize ==
  ASSUME IInv, IsMap, Live
  PROVE  Size = Cardinality(DOMAIN AbstractContent)
<1>1. EntriesOK(EntriesOf(data), heap, data.size)
  BY MapFacts
<1>2. PICK c, E : c = AbstractContent /\ E = EntriesOf(data)
  OBVIOUS
<1>3. IsFiniteSet(E) /\ Cardinality(E) = data.size /\ Single(E, heap)
  BY <1>1, <1>2, SingleEntries DEF EntriesOK, KeysOK
<1>4. DOMAIN c = {heap[x.key] : x \in E}
  <2>1. IsContent(c, E, heap)
    BY <1>2, <1>3, ContentOfMap, MapContentFacts
  <2> QED  BY <2>1 DEF IsContent
<1> DEFINE p == [x \in E |-> heap[x.key]]
           D == DOMAIN c
<1>5. /\ \A x \in E : p[x] \in D
      /\ \A y \in D : \E x \in E : p[x] = y
      /\ \A x, y \in E : p[x] = p[y] => x = y
  BY <1>3, <1>4 DEF Single
<1> HIDE DEF p, D
<1>6. Cardinality(D) = Cardinality(E)
  BY <1>3, <1>5, ImageCardinality
<1> QED  BY <1>2, <1>3, <1>6 DEF D, Size

LEMMA InvLookupsAgree == ASSUME IInv PROVE LookupsAgree
<1>1. CASE IsList
  BY <1>1, ListLookups DEF LookupsAgree
<1>2. CASE IsMap
  <2>1. ASSUME NEW k \in Strings \cup {NullString}
        PROVE  /\ MapContainsKey(k) = Abstract!HasKey(k)
               /\ MapGet(k) = IF Abstract!HasKey(k) THEN AbstractContent[k] ELSE Missing
    BY <1>2, MapLookups DEF MapContainsKey, Abstract!HasKey
  <2>2. Live => Size = Cardinality(DOMAIN AbstractContent)
    BY <1>2, MapSize
  <2> QED  BY <1>2, <2>1, <2>2 DEF LookupsAgree, IsMap
<1> QED  BY <1>1, <1>2 DEF IsMap

(* get, containsKey and size return what the sequence or function says,    *)
(* for every hash function: each key is found in the one chain its hash    *)
(* leads to, or nowhere.                                                   *)
THEOREM LookupsAreRight == Spec => []LookupsAgree
<1>1. Init => IInv
  BY InitInv
<1>2. IInv /\ [Next]_vars => IInv'
  BY NextInv
<1>3. IInv => LookupsAgree
  BY InvLookupsAgree
<1> QED  BY <1>1, <1>2, <1>3, PTL DEF Spec
-----------------------------------------------------------------------------
(* Each step is one of Containers, or none. *)

AbstractVars == <<IF IsList THEN "list" ELSE "map", AbstractContent, Live>>

LEMMA SameSort ==
  ASSUME SameObject
  PROVE  /\ IsList' <=> IsList
         /\ (IF IsList THEN "list" ELSE "map")' = IF IsList THEN "list" ELSE "map"
BY DEF SameObject, IsList

LEMMA MakeStep ==
  ASSUME IInv, ListInit \/ MapInit
  PROVE  Abstract!Next
<1>1. /\ ~Live /\ SameObject /\ Live'
  BY DEF ListInit, MapInit, Live, Null
<1>2. AbstractContent' = <<>>
  <2>1. CASE ListInit
    <3>1. IsList /\ data'.size = 0
      BY <2>1 DEF ListInit
    <3>2. AbstractContent' = [i \in 1..0 |-> Held(heap', data'.slots[i])]
      BY <1>1, <3>1, ContentOfListThen DEF ListContent
    <3> QED  BY <3>2
  <2>2. CASE MapInit
    <3>1. IsMap /\ data' = [buckets |-> [n \in BucketNumbers |-> <<>>], size |-> 0]
      BY <2>2 DEF MapInit, BucketNumbers
    <3>2. IInv'
      BY <2>2, MapInitKeeps
    <3>3. AbstractContent' = MapContent(EntriesOf(data'), heap')
      BY <1>1, <3>1, <3>2, ContentOfMapThen
    <3>4. EntriesOf(data') = {}
      BY <3>1 DEF EntriesOf, ToSet
    <3>5. MapContent({}, heap') = <<>>
      BY DEF MapContent
    <3> QED  BY <3>3, <3>4, <3>5
  <2> QED  BY <2>1, <2>2
<1>3. Abstract!Make
  BY <1>1, <1>2, SameSort DEF Abstract!Make, Abstract!Nothing
<1> QED  BY <1>3 DEF Abstract!Next

LEMMA DestroyStep ==
  ASSUME ListDestroy \/ MapDestroy
  PROVE  Abstract!Next
<1>1. SameObject /\ Live' = FALSE
  BY DEF ListDestroy, MapDestroy, Live
<1>2. AbstractContent' = <<>>
  BY <1>1 DEF AbstractContent
<1>3. Abstract!Destroy
  BY <1>1, <1>2, SameSort DEF Abstract!Destroy, Abstract!Nothing
<1> QED  BY <1>3 DEF Abstract!Next

LEMMA ListAddStep ==
  ASSUME IInv, NEW v \in Values, ListAdd(v)
  PROVE  Abstract!Next
<1>1. IsList /\ Live /\ SameObject /\ Live'
  BY DEF ListAdd, Live, Null
<1>2. AbstractContent' = Append(AbstractContent, Kept(v))
  BY ListAddContent
<1>3. Abstract!Becomes(Append(AbstractContent, Kept(v)))
  BY <1>1, <1>2, SameSort DEF Abstract!Becomes, Live
<1>4. Abstract!Add(Kept(v))
  BY <1>1, <1>3 DEF Abstract!Add
<1> QED  BY <1>4, KeptIsValue DEF Abstract!Next

LEMMA ListSetStep ==
  ASSUME IInv, NEW v \in Values, NEW i, ListSet(i, v)
  PROVE  Abstract!Next
<1>1. IsList /\ Live /\ SameObject
  BY DEF ListSet
<1>2. Live'
  <2>1. ListShape(data) /\ data' = [data EXCEPT !.slots[i + 1] = Stored(Without(heap, Owned(data.slots[i + 1])), v)]
    BY <1>1 DEF IInv, ListOK, ListSet
  <2>2. "slots" \in DOMAIN data'
    BY <2>1 DEF ListShape
  <2> QED  BY <2>2 DEF Live, Null
<1>3. /\ i \in 0..(Len(AbstractContent) - 1)
      /\ AbstractContent' = [AbstractContent EXCEPT ![i + 1] = Kept(v)]
  BY ListSetContent
<1>4. Abstract!Becomes([AbstractContent EXCEPT ![i + 1] = Kept(v)])
  BY <1>1, <1>2, <1>3, SameSort DEF Abstract!Becomes, Live
<1>5. Abstract!Set(i, Kept(v))
  BY <1>1, <1>3, <1>4 DEF Abstract!Set, Abstract!Has
<1>6. i \in 0..Len(AbstractContent)
  <2>1. Len(AbstractContent) \in Nat
    BY <1>1, ContentOfList, ListContentFacts DEF IInv, ListOK
  <2> QED  BY <1>3, <2>1
<1> QED  BY <1>1, <1>5, <1>6, KeptIsValue DEF Abstract!Next

LEMMA ListRemoveAtStep ==
  ASSUME IInv, NEW i, ListRemoveAt(i)
  PROVE  Abstract!Next
<1>1. IsList /\ Live /\ SameObject
  BY DEF ListRemoveAt
<1>2. Live'
  <2>1. ListShape(data) /\ i \in 0..(data.size - 1) /\ data' = Closed(data, i)
    BY <1>1 DEF IInv, ListOK, ListRemoveAt, InRange, Size
  <2>2. ListShape(data')
    BY <2>1, CloseShape
  <2> QED  BY <2>2 DEF ListShape, Live, Null
<1>3. /\ i \in 0..(Len(AbstractContent) - 1)
      /\ AbstractContent' = CutAt(AbstractContent, i)
  BY ListRemoveAtContent
<1>4. Abstract!Becomes(CutAt(AbstractContent, i))
  BY <1>1, <1>2, <1>3, SameSort DEF Abstract!Becomes, Live
<1>5. Abstract!RemoveAt(i)
  BY <1>1, <1>3, <1>4 DEF Abstract!RemoveAt, Abstract!Has, CutAt
<1>6. i \in -1..Len(AbstractContent)
  <2>1. Len(AbstractContent) \in Nat
    BY <1>1, ContentOfList, ListContentFacts DEF IInv, ListOK
  <2> QED  BY <1>3, <2>1
<1> QED  BY <1>1, <1>5, <1>6 DEF Abstract!Next

LEMMA MapPutStep ==
  ASSUME IInv, NEW k, k \in Strings \cup {NullString}, NEW v \in Values, MapPut(k, v)
  PROVE  Abstract!Next
<1>1. IsMap /\ Live /\ SameObject /\ Live'
  BY MapPutKeeps DEF MapPut, Usable
<1>2. k \in Strings /\ AbstractContent' = WithKey(AbstractContent, k, Kept(v))
  BY MapPutContent
<1>3. Abstract!Becomes(WithKey(AbstractContent, k, Kept(v)))
  BY <1>1, <1>2, SameSort DEF Abstract!Becomes, Live
<1>4. Abstract!Put(k, Kept(v))
  BY <1>1, <1>3 DEF Abstract!Put, WithKey, IsMap
<1> QED  BY <1>2, <1>4, KeptIsValue DEF Abstract!Next

LEMMA MapRemoveStep ==
  ASSUME IInv, NEW k, k \in Strings \cup {NullString}, MapRemove(k)
  PROVE  Abstract!Next
<1>1. IsMap /\ Live /\ SameObject /\ Live'
  BY MapRemoveKeeps DEF MapRemove, Usable
<1>2. k \in Strings /\ k \in DOMAIN AbstractContent /\ AbstractContent' = WithoutKey(AbstractContent, k)
  BY MapRemoveContent
<1>3. Abstract!Becomes(WithoutKey(AbstractContent, k))
  BY <1>1, <1>2, SameSort DEF Abstract!Becomes, Live
<1>4. Abstract!Remove(k)
  BY <1>1, <1>2, <1>3 DEF Abstract!Remove, Abstract!HasKey, WithoutKey, IsMap
<1> QED  BY <1>2, <1>4 DEF Abstract!Next

LEMMA NextImplements == ASSUME IInv, [Next]_vars PROVE [Abstract!Next]_AbstractVars
<1>1. CASE ListInit \/ MapInit
  BY <1>1, MakeStep
<1>2. CASE ListDestroy \/ MapDestroy
  BY <1>2, DestroyStep
<1>3. ASSUME NEW v \in Values, ListAdd(v) PROVE Abstract!Next
  BY <1>3, ListAddStep
<1>4. ASSUME NEW v \in Values, NEW i \in Indices, ListSet(i, v) PROVE Abstract!Next
  BY <1>4, ListSetStep
<1>5. ASSUME NEW v \in Values, NEW k \in Strings \cup {NullString}, MapPut(k, v) PROVE Abstract!Next
  BY <1>5, MapPutStep
<1>6. ASSUME NEW i \in Indices, ListRemoveAt(i) PROVE Abstract!Next
  BY <1>6, ListRemoveAtStep
<1>7. ASSUME NEW k \in Strings \cup {NullString}, MapRemove(k) PROVE Abstract!Next
  BY <1>7, MapRemoveStep
<1>8. CASE UNCHANGED vars
  <2>1. UNCHANGED AbstractVars
    BY <1>8 DEF vars, AbstractVars, AbstractContent, IsList, Live, Size, Content, OfStrings, Entries
  <2> QED  BY <2>1
<1> QED  BY <1>1, <1>2, <1>3, <1>4, <1>5, <1>6, <1>7, <1>8 DEF Next

(* A list is a sequence and a map a function, whatever the growth of the   *)
(* array, the slots left behind and the collisions of the hash: each step  *)
(* of the code is one step of Containers.                                  *)
THEOREM ContainersImplemented == Spec => ImplementsContainers
<1>1. Init => Abstract!Init
  <2> SUFFICES ASSUME Init PROVE Abstract!Init
    OBVIOUS
  <2>1. Live = FALSE
    BY DEF Init, Live
  <2>2. AbstractContent = <<>>
    BY <2>1 DEF AbstractContent
  <2> QED  BY <2>1, <2>2 DEF Abstract!Init, Abstract!Nothing
<1>2. Init => IInv
  BY InitInv
<1>3. IInv /\ [Next]_vars => IInv'
  BY NextInv
<1>4. IInv /\ [Next]_vars => [Abstract!Next]_AbstractVars
  BY NextImplements
<1> QED  BY <1>1, <1>2, <1>3, <1>4, PTL DEF Spec, ImplementsContainers, Abstract!Spec, AbstractVars
=============================================================================
