----------------------------- MODULE BloomFilter -----------------------------
(***************************************************************************)
(* The blocked Bloom filter of cuco/bloom_filter.cuh and the two policies  *)
(* of bloom_filter_policies.cuh, from construction to destruction: the     *)
(* host launches kernels on streams, the kernels of different streams run  *)
(* at once, a step of one of their threads is one access to a word.        *)
(*                                                                         *)
(* last_stream_, which is stored and never read, is left out.              *)
(***************************************************************************)
EXTENDS Integers, Sequences, FiniteSets

CONSTANTS
  Kernels,        \* kernel launches in flight
  Streams,
  Default,        \* the stream given to the constructor
  Clear,          \* the constructor's hipMemsetAsync
  Keys,
  KeyRanges,      \* the ranges that calls pass
  Extents,        \* what callers ask for as block_extent
  Hash,           \* xxhash_64 of each key
  Golden,         \* the multiplier of arrow_filter_policy
  Shift,          \* 2^block_shift, by which its shift divides
  NumHashes,      \* num_hash_functions()
  MaxHashes,      \* room for hashes in a kernel (the code's 16)
  WordsPerBlock, BitsPerWord, WordBytes,
  BlockDim,       \* threads of a thread block (the code's 256)
  IndexWord,      \* 2^32: blockIdx.x * blockDim.x is an unsigned int
  Half, Word,     \* 2^32, 2^64
  SizeMax

ASSUME BloomAssumption ==
  /\ Default \in Streams
  /\ Clear \notin Kernels
  /\ KeyRanges \subseteq Seq(Keys)
  /\ Extents \subseteq 0 .. SizeMax
  /\ {NumHashes, MaxHashes, WordsPerBlock, BitsPerWord, WordBytes, BlockDim,
      IndexWord, Half, Word, Shift} \subseteq Nat \ {0}
  /\ SizeMax \in Nat
  /\ Word = Half * Half
  /\ Golden \in 0 .. Word - 1
  /\ Hash \in [Keys -> 0 .. Word - 1]

VARIABLES
  stage,      \* "none", "live", "closing" (in the destructor)
  policy,     \* "default" or "arrow", a template argument
  extent,     \* block_extent_
  words,      \* words of device memory bits_ points to
  bits,       \* the bits set in them, each a word and an offset
  queue,      \* what each stream has been given and has not finished
  kernel,     \* of each launch: its operation, its keys, whether it runs
  next,       \* the hash each thread is at
  found,      \* `found` of each thread of a probe
  stale,      \* the bits when the kernel began
  before,     \* history: what `added` was when the kernel began
  ordered,    \* history: kernels that run and began when the memset was over
  added,      \* history: keys whose addition began after the memset and has ended
  offered     \* history: keys whose addition has begun

filter  == <<stage, policy, extent, words>>
threads == <<kernel, next, found, stale, before, ordered>>
vars    == <<filter, bits, queue, threads, added, offered>>

-----------------------------------------------------------------------------
(* Hashing *)

\* Both kernels cap k at the size of their local array.
HashCount == IF NumHashes > MaxHashes THEN MaxHashes ELSE NumHashes

OddUpper(h) == LET upper == h \div Half IN (upper + 1) - (upper % 2)

\* The i-th hash of a key, in wrapping 64-bit arithmetic.
HashOf(key, i) ==
  LET h == Hash[key] IN
  IF policy = "default"
    THEN (h + i * OddUpper(h)) % Word
    ELSE ((h + i * ((h * Golden) % Word)) % Word) \div Shift

\* The word and the offset in it that the i-th hash of a key stands for: the
\* first hash chooses the block.
Bit(key, i) ==
  LET bit == HashOf(key, i) % (WordsPerBlock * BitsPerWord) IN
  <<(HashOf(key, 0) % extent) * WordsPerBlock + bit \div BitsPerWord,
    bit % BitsPerWord>>

BitsOf(key) == {Bit(key, i) : i \in 0 .. HashCount - 1}

-----------------------------------------------------------------------------
(* Life of the filter *)

NoKernel == [op |-> "none", keys |-> <<>>, runs |-> FALSE]

Init ==
  /\ stage = "none" /\ policy = "default" /\ extent = 0 /\ words = 0
  /\ bits = {}
  /\ queue = [s \in Streams |-> <<>>]
  /\ kernel = [k \in Kernels |-> NoKernel]
  /\ next = [k \in Kernels |-> <<>>] /\ found = [k \in Kernels |-> <<>>]
  /\ stale = [k \in Kernels |-> {}] /\ before = [k \in Kernels |-> {}]
  /\ ordered = {} /\ added = {} /\ offered = {}

\* The checks before the allocation; the constructor throws otherwise.
Accepts(n) ==
  /\ n # 0
  /\ WordsPerBlock <= SizeMax \div n
  /\ WordBytes <= SizeMax \div (n * WordsPerBlock)

WordsAllocated(n) == ((n * WordsPerBlock * WordBytes) % (SizeMax + 1)) \div WordBytes

\* Mutation: a memset that could not be queued is not noticed.
ConstructUncleared(n, p) ==
  /\ stage = "none"
  /\ Accepts(n)
  /\ stage' = "live" /\ policy' = p /\ extent' = n
  /\ words' = WordsAllocated(n)
  /\ bits' \in {{}, (0 .. words' - 1) \X (0 .. BitsPerWord - 1)}
  /\ added' = {} /\ offered' = {}
  /\ UNCHANGED <<threads, queue>>

\* hipMalloc has given memory with anything in it, and hipMemsetAsync is queued.
\* The constructor's other outcomes throw and keep no memory.
Construct(n, p) ==
  /\ stage = "none"
  /\ Accepts(n)
  /\ stage' = "live" /\ policy' = p /\ extent' = n
  /\ words' = WordsAllocated(n)
  /\ bits' \in {{}, (0 .. words' - 1) \X (0 .. BitsPerWord - 1)}
  /\ queue' = [queue EXCEPT ![Default] = <<Clear>>]
  /\ added' = {} /\ offered' = {}
  /\ UNCHANGED threads

Finish(s) == queue' = [queue EXCEPT ![s] = Tail(@)]

\* The memset, of which no other stream knows: what kernels launched elsewhere
\* have done by then is undone.  It is one step, all words at once.
ClearBits ==
  /\ queue[Default] # <<>> /\ Head(queue[Default]) = Clear
  /\ bits' = {}
  /\ Finish(Default)
  /\ UNCHANGED <<filter, threads, added, offered>>

Cleared == \A i \in DOMAIN queue[Default] : queue[Default][i] # Clear

\* The destructor; nothing is launched any more.
Destroy ==
  /\ stage = "live"
  /\ stage' = "closing"
  /\ UNCHANGED <<policy, extent, words, bits, queue, threads, added, offered>>

\* Mutation: only the stream of the constructor is waited for.
FreeAfterOneStream ==
  /\ stage = "closing"
  /\ queue[Default] = <<>>
  /\ stage' = "none" /\ words' = 0 /\ bits' = {}
  /\ UNCHANGED <<policy, extent, queue, threads, added, offered>>

\* hipDeviceSynchronize returns, hipFree.
Free ==
  /\ stage = "closing"
  /\ \A s \in Streams : queue[s] = <<>>
  /\ stage' = "none" /\ words' = 0 /\ bits' = {}
  /\ UNCHANGED <<policy, extent, queue, threads, added, offered>>

-----------------------------------------------------------------------------
(* Launches *)

Queued(k) == \E s \in Streams : \E i \in DOMAIN queue[s] : queue[s][i] = k

\* Thread blocks for n keys.
Grid(n) == (n + BlockDim - 1) \div BlockDim

\* The positions of a range that a thread takes: threads compute theirs in 32
\* bits, and one whose position is past the range returns.
Positions(keys) ==
  {p % IndexWord : p \in 0 .. Grid(Len(keys)) * BlockDim - 1} \cap 0 .. Len(keys) - 1

\* The keys of the launch: those past 2^32 have no thread of their own.
KeysTaken(k) ==
  {kernel[k].keys[i] : i \in {j \in DOMAIN kernel[k].keys : j <= IndexWord}}

\* add_async and contains_async, on any stream at any time.  Nothing happens for
\* an empty range, and nothing but an exception for a launch that fails.
Launch(k, op, keys, s) ==
  /\ stage = "live"
  /\ ~Queued(k)
  /\ keys # <<>>
  /\ kernel' = [kernel EXCEPT ![k] = [op |-> op, keys |-> keys, runs |-> FALSE]]
  /\ next' = [next EXCEPT ![k] = [p \in Positions(keys) |-> 0]]
  /\ found' = [found EXCEPT ![k] = [p \in Positions(keys) |-> TRUE]]
  /\ queue' = [queue EXCEPT ![s] = Append(@, k)]
  /\ UNCHANGED <<filter, bits, stale, before, ordered, added, offered>>

\* A kernel begins when what its stream was given before has ended.
Begin(k) ==
  /\ \E s \in Streams : queue[s] # <<>> /\ Head(queue[s]) = k
  /\ ~kernel[k].runs
  /\ kernel' = [kernel EXCEPT ![k].runs = TRUE]
  /\ stale' = [stale EXCEPT ![k] = bits]
  /\ before' = [before EXCEPT ![k] = added]
  /\ ordered' = IF Cleared THEN ordered \cup {k} ELSE ordered
  /\ offered' = IF kernel[k].op = "add" THEN offered \cup KeysTaken(k) ELSE offered
  /\ UNCHANGED <<filter, bits, queue, next, found, added>>

-----------------------------------------------------------------------------
(* bloom_add_kernel and bloom_probe_kernel *)

Threads(k) == DOMAIN next[k]

KeyOf(k, p) == kernel[k].keys[p + 1]

\* The thread at position p of a kernel has another word to access.
Busy(k, op, p) ==
  /\ kernel[k].op = op /\ kernel[k].runs
  /\ found[k][p]
  /\ next[k][p] < HashCount

Advance(k, p) == next' = [next EXCEPT ![k][p] = @ + 1]

\* Mutation: the word that was read is changed and written back.
SetBitStale(k, p) ==
  /\ Busy(k, "add", p)
  /\ bits' = stale[k] \cup {Bit(KeyOf(k, p), next[k][p])}
  /\ Advance(k, p)
  /\ UNCHANGED <<filter, queue, kernel, found, stale, before, ordered, added, offered>>

\* atomicOr.
SetBit(k, p) ==
  /\ Busy(k, "add", p)
  /\ bits' = bits \cup {Bit(KeyOf(k, p), next[k][p])}
  /\ Advance(k, p)
  /\ UNCHANGED <<filter, queue, kernel, found, stale, before, ordered, added, offered>>

\* A plain load races with the atomics of other kernels: it returns the word as
\* it is or, from a cache filled since the kernel began, as it was then.  (What was
\* in between is one of these for kernels behind the memset; of others nothing is
\* claimed.)
SeenIn(k) == {stale[k], bits}

BitIsSet(k, p) ==
  /\ Busy(k, "probe", p)
  /\ \E seen \in SeenIn(k) : Bit(KeyOf(k, p), next[k][p]) \in seen
  /\ Advance(k, p)
  /\ UNCHANGED <<filter, bits, queue, kernel, found, stale, before, ordered, added, offered>>

\* The first bit that is missing ends the loop.
BitIsMissing(k, p) ==
  /\ Busy(k, "probe", p)
  /\ \E seen \in SeenIn(k) : Bit(KeyOf(k, p), next[k][p]) \notin seen
  /\ found' = [found EXCEPT ![k][p] = FALSE]
  /\ UNCHANGED <<filter, bits, queue, kernel, next, stale, before, ordered, added, offered>>

End(k) ==
  /\ kernel[k].runs
  /\ \A p \in Threads(k) : ~Busy(k, kernel[k].op, p)
  /\ \E s \in Streams : queue[s] # <<>> /\ Head(queue[s]) = k /\ Finish(s)
  /\ added' = IF kernel[k].op = "add" /\ k \in ordered THEN added \cup KeysTaken(k) ELSE added
  /\ kernel' = [kernel EXCEPT ![k] = NoKernel]
  /\ next' = [next EXCEPT ![k] = <<>>] /\ found' = [found EXCEPT ![k] = <<>>]
  /\ stale' = [stale EXCEPT ![k] = {}] /\ before' = [before EXCEPT ![k] = {}]
  /\ ordered' = ordered \ {k}
  /\ UNCHANGED <<filter, bits, offered>>

-----------------------------------------------------------------------------

Next ==
  \/ \E n \in Extents, p \in {"default", "arrow"} : Construct(n, p)
  \/ ClearBits \/ Destroy \/ Free
  \/ \E k \in Kernels :
       \/ \E op \in {"add", "probe"}, keys \in KeyRanges, s \in Streams :
            Launch(k, op, keys, s)
       \/ Begin(k) \/ End(k)
       \/ \E p \in Threads(k) : SetBit(k, p) \/ BitIsSet(k, p) \/ BitIsMissing(k, p)

Spec == Init /\ [][Next]_vars

-----------------------------------------------------------------------------
(* Properties *)

\* A probe never denies a key whose addition began after the constructor's memset
\* and had ended when the probe's kernel began, whatever runs on other streams
\* and however stale its loads are: both kernels come to the same bits, and only
\* the memset ever takes a bit away (lines 34-98, 144).
NoFalseNegative ==
  \A k \in Kernels : \A p \in Threads(k) :
    ~found[k][p] => KeyOf(k, p) \notin before[k]

\* Every word a thread is about to access is memory the filter owns, whatever
\* extent was asked for and whenever the filter is destroyed (lines 129-160).
KernelsStayInside ==
  \A k \in Kernels : \A p \in Threads(k) :
    Busy(k, kernel[k].op, p) =>
      Bit(KeyOf(k, p), next[k][p])[1] < words

\* A probe that began after the memset only finds a key whose bits were set by
\* additions: nothing the memory held before the filter was built is seen, and
\* what an addition did before the memset is gone or explained (lines 144-148).
FoundIsExplained ==
  \A k \in Kernels : \A p \in Threads(k) :
    kernel[k].op = "probe" /\ k \in ordered /\ next[k][p] = HashCount =>
      BitsOf(KeyOf(k, p)) \subseteq UNION {BitsOf(key) : key \in offered}
=============================================================================
