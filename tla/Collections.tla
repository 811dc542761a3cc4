------------------------------ MODULE Collections ------------------------------
(***************************************************************************)
(* The containers of packages/collection that keep derived state: the      *)
(* cache with its order of use and the index into it, the ring buffer, and *)
(* the priority queue in a binary heap; and the two filters of             *)
(* packages/bloom.  Each is checked against what it stands for.            *)
(* (Queue, Stack and EnhancedSet are an array and a set of the language.)  *)
(***************************************************************************)
EXTENDS Integers, Sequences, SequencesExt, FiniteSetsExt, BagsExt

CONSTANTS
  Keys, MaxEntries, Ttl,  \* of the cache
  Numbers, Capacity,      \* of the ring
  Elements,               \* the types of its elements that are tried
  Items, Priorities, MaxHeap,  \* of the queue, and a bound
  Hashes,                 \* of the items of the filter: index and bit of getIndices()
  Bits, HashFunctions,    \* of the filter
  MaxCounter,             \* maxCounterValue, all ones in binary
  MaxSteps                \* a bound

VARIABLES
  container,  \* the one in use: "cache", "ring", "heap", "bloom" or "counting"
  left,       \* the cache's entries: ticks until they expire, NoEntry if there is none
  accessOrder, accessIndex,
  element, buffer, head, size,
  heap,       \* pairs of a priority and an item
  data,       \* the bits of the filter that are set
  counters,   \* two counters in each byte
  steps,
  used,       \* history: when each key was used last
  added,      \* history: what was added to the ring since it was cleared
  queued,     \* history: the bag of what is queued
  contents,   \* history: the bag of what is in the filter
  damaged     \* history: a counter was full, or something removed that was not in it

cacheVars == <<left, accessOrder, accessIndex, used>>
ringVars == <<element, buffer, head, size, added>>
heapVars == <<heap, queued>>
filterVars == <<data, counters, contents, damaged>>
collectionVars == <<container, steps, cacheVars, ringVars, heapVars, filterVars>>

\* The typed arrays of whole numbers and their bits; there are two of floats as well.
Widths == [Int8 |-> 8, Uint8 |-> 8, Int16 |-> 16, Uint16 |-> 16, Int32 |-> 32, Uint32 |-> 32]
Signed == {"Int8", "Int16", "Int32"}
Whole == element \in DOMAIN Widths

OptionsOK ==
  /\ MaxEntries \in Nat \ {0} /\ Capacity \in Nat \ {0} /\ Ttl \in Nat
  /\ \A n \in Items \cup Priorities : n \in Nat
  /\ Elements \subseteq DOMAIN Widths \cup {"any", "Float32", "Float64"}
  /\ Bits \in Nat \ {0} /\ HashFunctions \in Nat \ {0} /\ MaxCounter \in Nat \ {0}
  /\ \A item \in DOMAIN Hashes : Hashes[item] \in (0 .. Bits - 1) \X (0 .. Bits - 1)

NoEntry == -2
Expired == -1
Present == {k \in Keys : left[k] # NoEntry}
Absent == -1

Blank == IF element = "any" THEN Absent ELSE 0

Init ==
  /\ container \in {"cache", "ring", "heap", "bloom", "counting"} /\ steps = 0
  /\ left = [k \in Keys |-> NoEntry] /\ accessOrder = <<>> /\ accessIndex = [k \in Keys |-> Absent]
  /\ used = [k \in Keys |-> 0]
  /\ element \in Elements /\ (container # "ring" => element = "any")
  /\ buffer = [i \in 0 .. Capacity - 1 |-> Blank] /\ head = 0 /\ size = 0 /\ added = <<>>
  /\ heap = <<>> /\ queued = EmptyBag
  /\ data = {} /\ counters = [byte \in 0 .. (Bits - 1) \div 2 |-> 0]
  /\ contents = EmptyBag /\ damaged = FALSE

On(which) == container = which /\ steps < MaxSteps /\ steps' = steps + 1 /\ UNCHANGED container

-----------------------------------------------------------------------------
\* The cache.
IndexOf(order) ==
  [k \in Keys |-> IF k \in ToSet(order) THEN SelectInSeq(order, LAMBDA l : l = k) - 1 ELSE Absent]

\* removeFromAccessOrder: the key is taken out where the index says.
RemoveFromAccessOrder(k) ==
  /\ accessOrder' = RemoveAt(accessOrder, accessIndex[k] + 1)
  /\ accessIndex' = IndexOf(accessOrder')

DeleteIn(k) == left' = [left EXCEPT ![k] = NoEntry] /\ RemoveFromAccessOrder(k)

\* touchKey: to the end of the order.
Touch(k) ==
  /\ accessOrder' = Append(RemoveAt(accessOrder, accessIndex[k] + 1), k)
  /\ accessIndex' = IndexOf(accessOrder')
  /\ used' = [used EXCEPT ![k] = steps']

Get(k) ==
  /\ On("cache") /\ k \in Present
  /\ IF left[k] = Expired
     THEN DeleteIn(k) /\ UNCHANGED used
     ELSE Touch(k) /\ UNCHANGED left
  /\ UNCHANGED <<ringVars, heapVars, filterVars>>

\* has() also deletes what has expired, and is no use of the key.
Has(k) ==
  /\ On("cache") /\ left[k] = Expired /\ DeleteIn(k)
  /\ UNCHANGED <<used, ringVars, heapVars, filterVars>>

SetAgain(k) ==
  /\ On("cache") /\ k \in Present
  /\ left' = [left EXCEPT ![k] = Ttl]
  /\ Touch(k)
  /\ UNCHANGED <<ringVars, heapVars, filterVars>>

\* A new key evicts the first of the order when the store is full, be it expired
\* or not, and whether or not others are.
SetNew(k) ==
  LET victims == IF Cardinality(Present) >= MaxEntries THEN {accessOrder[1]} ELSE {}
  IN  /\ On("cache") /\ k \notin Present
      /\ left' = [l \in Keys |-> IF l = k THEN Ttl ELSE IF l \in victims THEN NoEntry ELSE left[l]]
      /\ accessOrder' = Append(IF victims = {} THEN accessOrder ELSE Tail(accessOrder), k)
      /\ accessIndex' = IndexOf(accessOrder')
      /\ used' = [used EXCEPT ![k] = steps']
      /\ UNCHANGED <<ringVars, heapVars, filterVars>>

Delete(k) ==
  /\ On("cache") /\ k \in Present
  /\ DeleteIn(k)
  /\ UNCHANGED <<used, ringVars, heapVars, filterVars>>

\* size and entries() first remove what has expired, one key after the other.
EvictExpired ==
  LET kept == SelectSeq(accessOrder, LAMBDA k : left[k] # Expired)
  IN  /\ On("cache")
      /\ left' = [k \in Keys |-> IF left[k] = Expired THEN NoEntry ELSE left[k]]
      /\ accessOrder' = kept /\ accessIndex' = IndexOf(kept)
      /\ UNCHANGED <<used, ringVars, heapVars, filterVars>>

Clear ==
  /\ On("cache")
  /\ left' = [k \in Keys |-> NoEntry]
  /\ accessOrder' = <<>> /\ accessIndex' = [k \in Keys |-> Absent]
  /\ UNCHANGED <<used, ringVars, heapVars, filterVars>>

Tick ==
  /\ On("cache")
  /\ left' = [k \in Keys |-> IF left[k] > Expired THEN left[k] - 1 ELSE left[k]]
  /\ UNCHANGED <<accessOrder, accessIndex, used, ringVars, heapVars, filterVars>>

-----------------------------------------------------------------------------
\* The ring.  A typed array keeps as many of the lower bits as it has.
Stored(item) ==
  LET range == 2 ^ Widths[element]
      lowest == IF element \in Signed THEN -(range \div 2) ELSE 0
  IN  IF Whole THEN lowest + ((item - lowest) % range) ELSE item

Add(item) ==
  /\ On("ring")
  /\ buffer' = [buffer EXCEPT ![head] = Stored(item)]
  /\ head' = (head + 1) % Capacity
  /\ size' = IF size < Capacity THEN size + 1 ELSE size
  /\ added' = Append(added, item)
  /\ UNCHANGED <<element, cacheVars, heapVars, filterVars>>

ClearRing ==
  /\ On("ring")
  /\ buffer' = [i \in 0 .. Capacity - 1 |-> Blank] /\ head' = 0 /\ size' = 0
  /\ added' = <<>>
  /\ UNCHANGED <<element, cacheVars, heapVars, filterVars>>

RingGet(index) == buffer[(head - size + index + Capacity) % Capacity]
RingToArray == [n \in 1 .. size |-> buffer[(head - size + n - 1 + Capacity) % Capacity]]

-----------------------------------------------------------------------------
\* The priority queue: the heap is a sequence, its element i has the children 2i
\* and 2i + 1.  Equal priorities are ordered by the items.
Before(a, b) == a[1] < b[1] \/ (a[1] = b[1] /\ a[2] < b[2])
Swap(s, i, j) == [s EXCEPT ![i] = s[j], ![j] = s[i]]

\* bubbleUp and sinkDown, as the states of the loop along the path.
BubbleUp(s) ==
  LET path[n \in Nat] == IF n = 0 THEN <<s, Len(s)>>
        ELSE LET t == path[n - 1][1]  i == path[n - 1][2]
             IN  IF i > 1 /\ Before(t[i], t[i \div 2]) THEN <<Swap(t, i, i \div 2), i \div 2>>
                 ELSE path[n - 1]
  IN  path[Len(s)][1]

Smallest(s, i) ==
  LET family == {j \in {i, 2 * i, 2 * i + 1} : j <= Len(s)}
  IN  CHOOSE j \in family : \A k \in family : k # j => Before(s[j], s[k]) \/ (s[j] = s[k] /\ j < k)

SinkLeft(s) ==  \* faulty: the right child is not looked at
  LET path[n \in Nat] == IF n = 0 THEN <<s, 1>>
        ELSE LET t == path[n - 1][1]  i == path[n - 1][2]
             IN  IF 2 * i <= Len(t) /\ Before(t[2 * i], t[i]) THEN <<Swap(t, i, 2 * i), 2 * i>>
                 ELSE path[n - 1]
  IN  path[Len(s)][1]

SinkDown(s) ==
  LET path[n \in Nat] == IF n = 0 THEN <<s, 1>>
        ELSE LET t == path[n - 1][1]  i == path[n - 1][2]
             IN  IF i <= Len(t) THEN <<Swap(t, i, Smallest(t, i)), Smallest(t, i)>> ELSE path[n - 1]
  IN  path[Len(s)][1]

Enqueue(priority, item) ==
  /\ On("heap") /\ Len(heap) < MaxHeap
  /\ heap' = BubbleUp(Append(heap, <<priority, item>>))
  /\ queued' = BagAdd(queued, <<priority, item>>)
  /\ UNCHANGED <<cacheVars, ringVars, filterVars>>

Dequeue ==
  /\ On("heap") /\ heap # <<>>
  /\ heap' = IF Len(heap) = 1 THEN <<>> ELSE SinkDown(Front([heap EXCEPT ![1] = Last(heap)]))
  /\ queued' = BagRemove(queued, heap[1])
  /\ UNCHANGED <<cacheVars, ringVars, filterVars>>

-----------------------------------------------------------------------------
\* The filters.  The cells of an item may coincide; then they are counted as often.
getIndices(item) ==
  [i \in 1 .. HashFunctions |-> (Hashes[item][1] + (i - 1) * Hashes[item][2]) % Bits]

\* The counters of even cells are the high halves of the bytes.
Base == MaxCounter + 1
getCounterValue(bytes, cell) ==
  LET byte == bytes[cell \div 2] IN IF cell % 2 = 0 THEN byte \div Base ELSE byte % Base
setCounterValue(bytes, cell, value) ==
  [bytes EXCEPT ![cell \div 2] =
     IF cell % 2 = 0 THEN value * Base + (@ % Base) ELSE (@ \div Base) * Base + value]

incrementCounter(cell, bytes) ==
  LET value == getCounterValue(bytes, cell)
  IN  IF value < MaxCounter THEN setCounterValue(bytes, cell, value + 1) ELSE bytes
decrementCounter(cell, bytes) ==
  LET value == getCounterValue(bytes, cell)
  IN  IF value > 0 THEN setCounterValue(bytes, cell, value - 1) ELSE bytes

MightContain(item) == ToSet(getIndices(item)) \subseteq data
IsFull(bytes, cell) == getCounterValue(bytes, cell) = MaxCounter

\* add() of BloomFilter.
AddToFilter(item) ==
  /\ On("bloom") /\ data' = data \cup ToSet(getIndices(item))
  /\ contents' = BagAdd(contents, item)
  /\ UNCHANGED <<counters, damaged, cacheVars, ringVars, heapVars>>

\* add() and remove() of CountingBloomFilter.
AddAndCount(item) ==
  LET cells == getIndices(item)
  IN  /\ On("counting") /\ data' = data \cup ToSet(cells)
      /\ counters' = FoldSeq(incrementCounter, counters, cells)
      /\ damaged' = (damaged \/ \E cell \in ToSet(cells) : IsFull(counters', cell))
      /\ contents' = BagAdd(contents, item)
      /\ UNCHANGED <<cacheVars, ringVars, heapVars>>

\* The bit of a counter that comes to nought goes out.
RemoveAndCount(item) ==
  LET cells == getIndices(item)
      out(bytes) == {cell \in ToSet(cells) : getCounterValue(bytes, cell) = 0}
  IN  /\ On("counting") /\ MightContain(item)
      /\ counters' = FoldSeq(decrementCounter, counters, cells)
      /\ data' = data \ (out(counters') \ out(counters))
      /\ damaged' = (damaged \/ ~BagIn(item, contents))
      /\ contents' = BagRemove(contents, item)
      /\ UNCHANGED <<cacheVars, ringVars, heapVars>>

Next ==
  \/ \E item \in DOMAIN Hashes : AddToFilter(item) \/ AddAndCount(item) \/ RemoveAndCount(item)
  \/ \E k \in Keys : Get(k) \/ Has(k) \/ SetAgain(k) \/ SetNew(k) \/ Delete(k)
  \/ EvictExpired \/ Clear \/ Tick
  \/ \E item \in Numbers : Add(item)
  \/ ClearRing
  \/ \E priority \in Priorities, item \in Items : Enqueue(priority, item)
  \/ Dequeue

Spec == Init /\ [][Next]_collectionVars
-----------------------------------------------------------------------------
TypeOK ==
  /\ left \in [Keys -> NoEntry .. Ttl] /\ accessIndex \in [Keys -> Nat \cup {Absent}]
  /\ head \in 0 .. Capacity - 1 /\ size \in 0 .. Capacity
  /\ Len(heap) <= MaxHeap
  /\ data \subseteq 0 .. Bits - 1 /\ \A byte \in DOMAIN counters : counters[byte] \in 0 .. Base * Base - 1

\* The cache: the order lists the keys of the store and no others, from the least
\* to the most recently used, and the index finds each of them there, whatever was
\* deleted, evicted or used in between; so it is the least recently used that goes.
OrderOfUse ==
  /\ ToSet(accessOrder) = Present /\ accessIndex = IndexOf(accessOrder)
  /\ \A i, j \in DOMAIN accessOrder : i < j => used[accessOrder[i]] < used[accessOrder[j]]
  /\ Len(accessOrder) <= MaxEntries

\* The ring holds the last items added, oldest first, before and after it wraps; if
\* its elements are whole numbers of some bits, each is the one of that size that
\* differs by a multiple of the range.
Held(stored, item) ==
  IF Whole
  THEN /\ stored < 2 ^ (Widths[element] - (IF element \in Signed THEN 1 ELSE 0))
       /\ stored >= IF element \in Signed THEN -(2 ^ (Widths[element] - 1)) ELSE 0
       /\ (stored - item) % 2 ^ Widths[element] = 0
  ELSE stored = item

RingHoldsTheLast ==
  /\ LET last == SubSeq(added, Len(added) - Min({Capacity, Len(added)}) + 1, Len(added))
     IN  /\ Len(RingToArray) = Len(last)
         /\ \A n \in DOMAIN last : Held(RingToArray[n], last[n])
  /\ \A index \in 0 .. size - 1 : RingGet(index) = RingToArray[index + 1]

\* The queue loses and invents nothing, and the first of the heap comes before
\* all others.
HeapIsQueue ==
  /\ BagCardinality(queued) = Len(heap)
  /\ \A e \in ToSet(heap) : CopiesIn(e, queued) = Cardinality({i \in DOMAIN heap : heap[i] = e})
  /\ \A i \in DOMAIN heap : ~Before(heap[i], heap[1])

\* What was added, and not removed as often, is found, and the bits are those of the
\* counters; unless a counter was full once, or something removed that was not in it.
NoFalseNegatives ==
  ~damaged =>
    /\ \A item \in BagToSet(contents) : MightContain(item)
    /\ container = "counting" =>
         \A cell \in 0 .. Bits - 1 : (cell \in data) = (getCounterValue(counters, cell) > 0)
=============================================================================
