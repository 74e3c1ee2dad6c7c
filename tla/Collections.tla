----------------------------- MODULE Collections -----------------------------
(***************************************************************************)
(* The containers of runtime/modules/lpl_collections.c: List<int> and      *)
(* List<string>, arrays that double when they are full, and                *)
(* Map<string, int> and Map<string, string>, hash tables with chains.  A   *)
(* string in a container is a copy of its own on the heap, and so are the  *)
(* keys of a map.                                                          *)
(*                                                                         *)
(* One container of one class goes through its life.  malloc succeeds.     *)
(* The heap is the set of blocks of string data in use, each with its      *)
(* content; a block that is freed may be handed out again.                 *)
(***************************************************************************)
EXTENDS Integers, Sequences, SequencesExt, FiniteSets

CONSTANTS
  Strings,       (* contents of a string                                    *)
  Texts,         (* those used as values of a List or Map                   *)
  Empty,         (* the one without characters                              *)
  NullString,    (* the String without data that a failed get returns       *)
  Numbers,       (* values of an int                                        *)
  Zero,          (* what a failed get of an int returns                     *)
  InitCapacity,  (* of a new list: 16 in the code                           *)
  BucketCount,   (* of a map: 64 in the code                                *)
  MaxLen         (* elements of a list: bounds the model                    *)

ASSUME StringsAssumption == Empty \in Strings /\ NullString \notin Strings /\ Texts \subseteq Strings
ASSUME NumbersAssumption == Zero \in Numbers
ASSUME SizesAssumption ==
  InitCapacity \in Nat \ {0} /\ BucketCount \in Nat \ {0} /\ MaxLen \in Nat

VARIABLES
  class,    (* which of the four                                           *)
  hash,     (* hash_str modulo the number of buckets                       *)
  data,     (* what the field data points to, or Null                      *)
  heap,     (* the string blocks in use, with their contents               *)
  misuse    (* whether a block was freed that was not in use               *)

vars == <<class, hash, data, heap, misuse>>

Null == [size |-> -1]

Junk == 0      (* an array element not yet written *)

Classes == {"List<int>", "List<string>", "Map<string, int>", "Map<string, string>"}

IsList == class \in {"List<int>", "List<string>"}

IsMap == ~IsList

OfStrings == class \in {"List<string>", "Map<string, string>"}

Values == IF OfStrings THEN Texts \cup {NullString} ELSE Numbers

Missing == IF OfStrings THEN NullString ELSE Zero

Live == data # Null

Size == data.size

(* __lpl_string_create: the copy of a String without data is empty. *)
Copied(s) == IF s = NullString THEN Empty ELSE s

Fresh(h) == CHOOSE b \in 1..(Cardinality(DOMAIN h) + 1) : b \notin DOMAIN h

Without(h, bs) == [b \in DOMAIN h \ bs |-> h[b]]

With(h, b, s) == [c \in DOMAIN h \cup {b} |-> IF c = b THEN s ELSE h[c]]

(* A value as an element holds it: the value, or the block of its copy. *)
Stored(h, v) == IF OfStrings THEN Fresh(h) ELSE v

StoredHeap(h, v) == IF OfStrings THEN With(h, Fresh(h), Copied(v)) ELSE h

(* The block an element owns, if it does. *)
Owned(x) == IF OfStrings THEN {x} ELSE {}

ValueBlocks == IF OfStrings THEN 1 ELSE 0

Content(x) == IF OfStrings THEN (IF x \in DOMAIN heap THEN heap[x] ELSE Empty) ELSE x

(* Blocks are freed that are not in use, or fewer than there are elements  *)
(* that own one.                                                           *)
Misused(bs, owners) ==
  misuse \/ ~(bs \subseteq DOMAIN heap) \/ Cardinality(bs) # owners

Init ==
  /\ class \in Classes
  /\ IF IsList THEN hash = <<>>
     ELSE hash \in [Strings -> 0..(BucketCount - 1)] /\ hash[Empty] = 0
  /\ data = Null
  /\ heap = <<>>
  /\ misuse = FALSE

SameObject == UNCHANGED <<class, hash>>

(* How many blocks the elements and keys own together. *)
Owners == data.size * (ValueBlocks + (IF IsMap THEN 1 ELSE 0))

-----------------------------------------------------------------------------
(* Lists.  An index is one of C; elements are slots[1..size]. *)

InRange(i) == i \in 0..(Size - 1)

Indices == -1..MaxLen

ListInit ==
  /\ IsList /\ data = Null
  /\ data' = [slots |-> [i \in 1..InitCapacity |-> Junk], size |-> 0]
  /\ SameObject /\ UNCHANGED <<heap, misuse>>

(* Mutant of Room: the array grows one element too late. *)
RoomLate(d) ==
  IF d.size > Len(d.slots)
  THEN d.slots \o [i \in 1..Len(d.slots) |-> Junk]
  ELSE d.slots

(* The array doubles when it is full. *)
Room(d) ==
  IF d.size >= Len(d.slots)
  THEN d.slots \o [i \in 1..Len(d.slots) |-> Junk]
  ELSE d.slots

ListAdd(v) ==
  /\ IsList /\ Live /\ Size < MaxLen
  /\ data' = [slots |-> [Room(data) EXCEPT ![Size + 1] = Stored(heap, v)], size |-> Size + 1]
  /\ heap' = StoredHeap(heap, v)
  /\ SameObject /\ UNCHANGED misuse

ListGet(i) == IF Live /\ InRange(i) THEN Content(data.slots[i + 1]) ELSE Missing

(* Mutant of ListSet: the old string is not destroyed. *)
ListSetLeaks(i, v) ==
  /\ IsList /\ Live /\ InRange(i)
  /\ heap' = StoredHeap(heap, v)
  /\ data' = [data EXCEPT !.slots[i + 1] = Stored(heap, v)]
  /\ SameObject /\ UNCHANGED misuse

(* The old string is destroyed and the new one copied. *)
ListSet(i, v) ==
  /\ IsList /\ Live /\ InRange(i)
  /\ LET old == Owned(data.slots[i + 1])
         freed == Without(heap, old)
     IN  /\ misuse' = Misused(old, ValueBlocks)
         /\ heap' = StoredHeap(freed, v)
         /\ data' = [data EXCEPT !.slots[i + 1] = Stored(freed, v)]
  /\ SameObject

(* Mutant of Closed: one element too few is moved. *)
ClosedShort(d, i) ==
  [d EXCEPT !.size = @ - 1,
            !.slots = [k \in 1..Len(@) |-> IF k \in (i + 1)..(d.size - 2) THEN @[k + 1] ELSE @[k]]]

(* memmove closes the gap at index i; the last element stays behind the    *)
(* new size.                                                               *)
Closed(d, i) ==
  [d EXCEPT !.size = @ - 1,
            !.slots = [k \in 1..Len(@) |-> IF k \in (i + 1)..(d.size - 1) THEN @[k + 1] ELSE @[k]]]

ListRemoveAt(i) ==
  /\ IsList /\ Live /\ InRange(i)
  /\ misuse' = Misused(Owned(data.slots[i + 1]), ValueBlocks)
  /\ heap' = Without(heap, Owned(data.slots[i + 1]))
  /\ data' = Closed(data, i)
  /\ SameObject

ListBlocks == UNION {Owned(data.slots[i]) : i \in 1..Size}

ListDestroy ==
  /\ IsList /\ Live
  /\ misuse' = Misused(ListBlocks, Owners)
  /\ heap' = Without(heap, ListBlocks)
  /\ data' = Null
  /\ SameObject

-----------------------------------------------------------------------------
(* Maps.  A chain has its newest entry first. *)

MapInit ==
  /\ IsMap /\ data = Null
  /\ data' = [buckets |-> [n \in 0..(BucketCount - 1) |-> <<>>], size |-> 0]
  /\ SameObject /\ UNCHANGED <<heap, misuse>>

Chain(k) == data.buckets[hash[k]]

(* The entry of a key: the first of its chain with that content, as a set  *)
(* of at most one index.                                                   *)
Find(k) ==
  {i \in 1..Len(Chain(k)) : /\ heap[Chain(k)[i].key] = k
                            /\ \A j \in 1..(i - 1) : heap[Chain(k)[j].key] # k}

(* A String without data is no key: the calls do nothing. *)
Usable(k) == Live /\ k # NullString

(* Mutant of MapPut: an entry is made without a look at those there. *)
MapPutAlways(k, v) ==
  /\ IsMap /\ Usable(k)
  /\ LET withKey == With(heap, Fresh(heap), k)
         entry == [key |-> Fresh(heap), value |-> Stored(withKey, v)]
     IN  /\ heap' = StoredHeap(withKey, v)
         /\ data' = [buckets |-> [data.buckets EXCEPT ![hash[k]] = <<entry>> \o @],
                     size |-> Size + 1]
         /\ UNCHANGED misuse
  /\ SameObject

(* The value of the key's entry is replaced, or an entry put in front. *)
MapPut(k, v) ==
  /\ IsMap /\ Usable(k)
  /\ \/ \E i \in Find(k) :
          LET old == Owned(Chain(k)[i].value)
              freed == Without(heap, old)
          IN  /\ misuse' = Misused(old, ValueBlocks)
              /\ heap' = StoredHeap(freed, v)
              /\ data' = [data EXCEPT !.buckets[hash[k]][i].value = Stored(freed, v)]
     \/ /\ Find(k) = {}
        /\ LET withKey == With(heap, Fresh(heap), k)
               entry == [key |-> Fresh(heap), value |-> Stored(withKey, v)]
           IN  /\ heap' = StoredHeap(withKey, v)
               /\ data' = [buckets |-> [data.buckets EXCEPT ![hash[k]] = <<entry>> \o @],
                           size |-> Size + 1]
               /\ UNCHANGED misuse
  /\ SameObject

MapContainsKey(k) == Usable(k) /\ Find(k) # {}

MapGet(k) ==
  IF MapContainsKey(k) THEN Content(Chain(k)[CHOOSE i \in Find(k) : TRUE].value) ELSE Missing

EntryBlocks(e) == {e.key} \cup Owned(e.value)

(* The entry is taken out of its chain and freed with its strings. *)
MapRemove(k) ==
  /\ IsMap /\ Usable(k)
  /\ \E i \in Find(k) :
       /\ misuse' = Misused(EntryBlocks(Chain(k)[i]), 1 + ValueBlocks)
       /\ heap' = Without(heap, EntryBlocks(Chain(k)[i]))
       /\ data' = [buckets |-> [data.buckets EXCEPT ![hash[k]] = RemoveAt(@, i)],
                   size |-> Size - 1]
  /\ SameObject

Entries == UNION {ToSet(data.buckets[n]) : n \in DOMAIN data.buckets}

MapBlocks == UNION {EntryBlocks(e) : e \in Entries}

MapDestroy ==
  /\ IsMap /\ Live
  /\ misuse' = Misused(MapBlocks, Owners)
  /\ heap' = Without(heap, MapBlocks)
  /\ data' = Null
  /\ SameObject

-----------------------------------------------------------------------------

Next ==
  \/ ListInit \/ ListDestroy \/ MapInit \/ MapDestroy
  \/ \E v \in Values :
       \/ ListAdd(v)
       \/ \E i \in Indices : ListSet(i, v)
       \/ \E k \in Strings \cup {NullString} : MapPut(k, v)
  \/ \E i \in Indices : ListRemoveAt(i)
  \/ \E k \in Strings \cup {NullString} : MapRemove(k)

Spec == Init /\ [][Next]_vars

-----------------------------------------------------------------------------

Blocks == IF ~Live THEN {} ELSE IF IsList THEN ListBlocks ELSE MapBlocks

TypeOK ==
  /\ class \in Classes
  /\ misuse \in BOOLEAN
  /\ \A b \in DOMAIN heap : heap[b] \in Strings
  /\ data # Null =>
       /\ Size \in Nat
       /\ IsList => Size <= Len(data.slots)
       /\ IsMap => \A n \in DOMAIN data.buckets : Len(data.buckets[n]) <= Size

(* Every block in use belongs to exactly one key or element of the         *)
(* container, all of those are in use, and none was freed twice: growth,   *)
(* the slot removeAt leaves behind and the chains never share or lose a    *)
(* string, and destroy leaves nothing.                                     *)
BlocksOwnedOnce ==
  /\ ~misuse
  /\ Blocks = DOMAIN heap
  /\ Live => Cardinality(Blocks) = Owners

AbstractContent ==
  IF ~Live THEN <<>>
  ELSE IF IsList THEN [i \in 1..Size |-> Content(data.slots[i])]
  ELSE [k \in {heap[e.key] : e \in Entries} |->
          Content((CHOOSE e \in Entries : heap[e.key] = k).value)]

Abstract == INSTANCE Containers WITH
  Keys <- Strings,
  Values <- Texts \cup Numbers \cup {Empty},
  sort <- IF IsList THEN "list" ELSE "map",
  content <- AbstractContent,
  alive <- Live

(* A list is a sequence and a map a function, whatever the growth of the   *)
(* array and the collisions of the hash.                                   *)
ImplementsContainers == Abstract!Spec

(* What get, containsKey and size return is what the sequence or function  *)
(* says: each key is found in the one chain its hash leads to, or nowhere, *)
(* and size counts the keys.                                               *)
LookupsAgree ==
  IF IsList
  THEN \A i \in Indices :
         ListGet(i) = IF Abstract!Has(i) THEN AbstractContent[i + 1] ELSE Missing
  ELSE /\ \A k \in Strings \cup {NullString} :
            /\ MapContainsKey(k) = Abstract!HasKey(k)
            /\ MapGet(k) = IF Abstract!HasKey(k) THEN AbstractContent[k] ELSE Missing
       /\ Live => Size = Cardinality(DOMAIN AbstractContent)
=============================================================================
