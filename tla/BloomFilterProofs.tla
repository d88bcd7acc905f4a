-------------------------- MODULE BloomFilterProofs --------------------------
(***************************************************************************)
(* Theorems about BloomFilter, for every number of kernels, streams and    *)
(* keys, every hash, and every size of word, block and thread block.       *)
(***************************************************************************)
EXTENDS BloomFilter, SequenceTheorems, TLAPS

-----------------------------------------------------------------------------
(* The inductive invariant *)

Launched == [op : {"none", "add", "probe"}, keys : Seq(Keys), runs : BOOLEAN]

\* What the streams hold: the memset first and only in the constructor's.
QueueInv ==
  /\ queue \in [Streams -> Seq(Kernels \cup {Clear})]
  /\ \A s \in Streams : \A i \in 1 .. Len(queue[s]) :
       queue[s][i] = Clear => s = Default /\ i = 1
  /\ stage = "none" => \A s \in Streams : queue[s] = <<>>

\* What a launch has: a thread for each position, which does nothing before the
\* kernel runs, and it runs only from a queue; it is ordered only if the memset
\* is over.
ShapeOf(k) ==
  /\ next[k] \in [Positions(kernel[k].keys) -> 0 .. HashCount]
  /\ found[k] \in [Positions(kernel[k].keys) -> BOOLEAN]
  /\ kernel[k].runs => Queued(k)
  /\ k \in ordered => kernel[k].runs /\ Cleared
  /\ ~kernel[k].runs => \A p \in Threads(k) : next[k][p] = 0
  /\ ~(kernel[k].runs /\ kernel[k].op = "probe") => \A p \in Threads(k) : found[k][p]

ShapeInv ==
  /\ kernel \in [Kernels -> Launched]
  /\ DOMAIN next = Kernels /\ DOMAIN found = Kernels
  /\ DOMAIN stale = Kernels /\ DOMAIN before = Kernels
  /\ \A k \in Kernels : ShapeOf(k)

Explained == UNION {BitsOf(key) : key \in offered}

\* What additions have done and no more, once the memset is over.
BitsInv ==
  /\ Cleared \/ added = {}
  /\ stage # "none" /\ Cleared => \A key \in added : BitsOf(key) \subseteq bits
  /\ Cleared => bits \subseteq Explained

\* What a kernel that runs has done, and what it may still see if it began after
\* the memset; the others are not credited with anything.
RunOf(k) ==
  /\ before[k] \subseteq added
  /\ \A key \in before[k] : BitsOf(key) \subseteq stale[k]
  /\ k \notin ordered => before[k] = {}
  /\ k \in ordered => stale[k] \subseteq Explained
  /\ kernel[k].op = "add" =>
       /\ KeysTaken(k) \subseteq offered
       /\ k \in ordered => \A p \in Threads(k) : \A i \in 0 .. next[k][p] - 1 :
                               Bit(KeyOf(k, p), i) \in bits
  /\ kernel[k].op = "probe" =>
       \A p \in Threads(k) :
         /\ k \in ordered => \A i \in 0 .. next[k][p] - 1 : Bit(KeyOf(k, p), i) \in Explained
         /\ found[k][p] \/ KeyOf(k, p) \notin before[k]

RunInv == \A k \in Kernels : kernel[k].runs => RunOf(k)

BloomInv == QueueInv /\ ShapeInv /\ BitsInv /\ RunInv

\* The memory that the constructor's checks have let through.
SizeInv ==
  stage # "none" => extent \in Nat \ {0} /\ words = extent * WordsPerBlock

-----------------------------------------------------------------------------
(* Arithmetic *)

LEMMA DivIs ==
  ASSUME NEW a \in Nat, NEW b \in Nat \ {0}
  PROVE  /\ a \div b \in Nat /\ a % b \in 0 .. b - 1
         /\ b * (a \div b) <= a /\ a < b * (a \div b) + b
<1>1. a \div b \in Int /\ a \div b >= 0
  OBVIOUS
<1>2. a % b \in 0 .. b - 1
  OBVIOUS
<1>3. b * (a \div b) <= a /\ a < b * (a \div b) + b
  OBVIOUS
<1> QED
  BY <1>1, <1>2, <1>3

LEMMA Products == ASSUME NEW a \in Nat, NEW b \in Nat, NEW c \in Nat, a <= b
                  PROVE  a * c \in Nat /\ a * c <= b * c
OBVIOUS

LEMMA GridCovers ==
  ASSUME NEW n \in Nat
  PROVE  Grid(n) * BlockDim \in Nat /\ n <= Grid(n) * BlockDim
<1>1. BlockDim \in Nat \ {0}
  BY BloomAssumption
<1> DEFINE a == n + BlockDim - 1
           g == a \div BlockDim
<1>m. a \in Nat /\ a = n + BlockDim - 1
  BY <1>1
<1> HIDE DEF a
<1>2. g \in Nat /\ a < BlockDim * g + BlockDim
  BY <1>1, <1>m, DivIs
<1>3. BlockDim * g \in Nat /\ BlockDim * g = g * BlockDim
  BY <1>1, <1>2
<1> HIDE DEF g
<1>4. n <= BlockDim * g
  BY <1>1, <1>m, <1>2, <1>3
<1> QED
  BY <1>3, <1>4 DEF Grid, g, a

\* The threads that do something take the keys of the launch, one each.
LEMMA PositionsTake ==
  ASSUME NEW keys \in Seq(Keys)
  PROVE  /\ Positions(keys) = {p \in 0 .. Len(keys) - 1 : p < IndexWord}
         /\ Len(keys) \in Nat /\ DOMAIN keys = 1 .. Len(keys)
<1>1. Len(keys) \in Nat /\ DOMAIN keys = 1 .. Len(keys) /\ IndexWord \in Nat \ {0}
  BY BloomAssumption
<1>2. PICK n \in Nat : n = Grid(Len(keys)) * BlockDim /\ Len(keys) <= n
  BY <1>1, GridCovers
<1>3. ASSUME NEW p \in Positions(keys)
      PROVE  p \in 0 .. Len(keys) - 1 /\ p < IndexWord
  <2>1. PICK q \in 0 .. n - 1 : p = q % IndexWord
    BY <1>2 DEF Positions
  <2>2. p \in 0 .. Len(keys) - 1
    BY DEF Positions
  <2> QED
    BY <1>1, <2>1, <2>2, DivIs
<1>4. ASSUME NEW p \in 0 .. Len(keys) - 1, p < IndexWord
      PROVE  p \in Positions(keys)
  <2>1. p \in 0 .. n - 1 /\ p % IndexWord = p
    BY <1>1, <1>2, <1>4
  <2> QED
    BY <1>2, <2>1 DEF Positions
<1> QED
  BY <1>1, <1>3, <1>4

LEMMA NoPositions ==
  /\ <<>> \in Seq(Keys) /\ Positions(<<>>) = {}
  /\ DOMAIN <<>> = {} /\ \A S : <<>> \in [{} -> S]
<1>1. <<>> \in Seq(Keys) /\ Len(<<>>) = 0
  OBVIOUS
<1>2. Positions(<<>>) = {p \in 0 .. Len(<<>>) - 1 : p < IndexWord}
  BY <1>1, PositionsTake
<1>3. 0 .. Len(<<>>) - 1 = {}
  BY <1>1
<1>4. DOMAIN <<>> = {} /\ \A S : <<>> \in [{} -> S]
  OBVIOUS
<1> QED
  BY <1>1, <1>2, <1>3, <1>4

LEMMA HashCountIs == HashCount \in Nat \ {0}
BY BloomAssumption DEF HashCount

\* The constructor's checks let through no size that wraps.
LEMMA SizesFit ==
  ASSUME NEW n \in Nat, Accepts(n)
  PROVE  n \in Nat \ {0} /\ WordsAllocated(n) = n * WordsPerBlock
<1>1. /\ n \in Nat \ {0} /\ WordsPerBlock \in Nat \ {0} /\ WordBytes \in Nat \ {0}
      /\ SizeMax \in Nat
  BY BloomAssumption DEF Accepts
<1> DEFINE m == n * WordsPerBlock
<1>2. m \in Nat \ {0}
  BY <1>1
<1>3. SizeMax \div m \in Nat /\ m * (SizeMax \div m) <= SizeMax
  BY <1>1, <1>2, DivIs
<1>4. WordBytes <= SizeMax \div m
  BY DEF Accepts
<1> HIDE DEF m
<1>5. WordBytes * m <= (SizeMax \div m) * m
  BY <1>1, <1>2, <1>3, <1>4, Products
<1>6. m * WordBytes \in Nat /\ m * WordBytes <= SizeMax
  BY <1>1, <1>2, <1>3, <1>5
<1>7. (m * WordBytes) % (SizeMax + 1) = m * WordBytes
  BY <1>1, <1>6
<1>8. (m * WordBytes) \div WordBytes = m
  BY <1>1, <1>2
<1> QED
  BY <1>1, <1>7, <1>8 DEF m, WordsAllocated

LEMMA HashIsNat ==
  ASSUME NEW key \in Keys, NEW i \in Nat
  PROVE  HashOf(key, i) \in Nat
<1>1. /\ Hash[key] \in Nat /\ Half \in Nat \ {0} /\ Word \in Nat \ {0} /\ Shift \in Nat \ {0}
      /\ Golden \in Nat
  BY BloomAssumption
<1>2. OddUpper(Hash[key]) \in Int
  <2>1. Hash[key] \div Half \in Int
    BY <1>1
  <2>2. (Hash[key] \div Half) % 2 \in Int
    BY <2>1
  <2> QED
    BY <2>1, <2>2 DEF OddUpper
<1>3. \A a \in Int : a % Word \in Nat
  BY <1>1
<1>4. CASE policy = "default"
  <2>1. i * OddUpper(Hash[key]) \in Int
    BY <1>2
  <2> QED
    BY <1>1, <1>3, <1>4, <2>1 DEF HashOf
<1>5. CASE policy # "default"
  <2>1. Hash[key] * Golden \in Int
    BY <1>1
  <2>2. (Hash[key] * Golden) % Word \in Int
    BY <1>3, <2>1
  <2>3. i * ((Hash[key] * Golden) % Word) \in Int
    BY <2>2
  <2>4. (Hash[key] + i * ((Hash[key] * Golden) % Word)) % Word \in Nat
    BY <1>1, <1>3, <2>3
  <2> QED
    BY <1>1, <1>5, <2>4, DivIs DEF HashOf
<1> QED
  BY <1>4, <1>5

\* A bit is in one of the filter's blocks.
LEMMA BitInside ==
  ASSUME NEW key \in Keys, NEW i \in Nat, extent \in Nat \ {0}
  PROVE  Bit(key, i)[1] < extent * WordsPerBlock
<1>1. WordsPerBlock \in Nat \ {0} /\ BitsPerWord \in Nat \ {0}
  BY BloomAssumption
<1> DEFINE c == HashOf(key, 0) % extent
           m == WordsPerBlock * BitsPerWord
           bit == HashOf(key, i) % m
           w == bit \div BitsPerWord
<1>2. HashOf(key, 0) \in Nat /\ HashOf(key, i) \in Nat
  BY HashIsNat
<1>3. m \in Nat \ {0}
  BY <1>1
<1>4. c \in 0 .. extent - 1
  BY <1>2, DivIs
<1>5. bit \in 0 .. m - 1
  BY <1>2, <1>3, DivIs
<1>6. Bit(key, i)[1] = c * WordsPerBlock + w
  BY DEF Bit
<1> HIDE DEF c, bit
<1>7. w \in Nat /\ BitsPerWord * w <= bit
  BY <1>1, <1>3, <1>5, DivIs
<1> HIDE DEF w
<1>8. w < WordsPerBlock
  <2>1. BitsPerWord * w < WordsPerBlock * BitsPerWord
    BY <1>3, <1>5, <1>7, <1>1
  <2>2. WordsPerBlock <= w => WordsPerBlock * BitsPerWord <= w * BitsPerWord
    BY <1>1, <1>7, Products
  <2> QED
    BY <1>1, <1>7, <2>1, <2>2
<1>9. (c + 1) * WordsPerBlock <= extent * WordsPerBlock
  BY <1>1, <1>4, Products
<1>10. (c + 1) * WordsPerBlock = c * WordsPerBlock + WordsPerBlock /\ c * WordsPerBlock \in Nat
  BY <1>1, <1>4
<1> QED
  BY <1>1, <1>6, <1>7, <1>8, <1>9, <1>10

-----------------------------------------------------------------------------
(* Steps that leave most of it alone *)

LEMMA BitsSame ==
  ASSUME UNCHANGED <<policy, extent>>
  PROVE  /\ \A key, i : Bit(key, i)' = Bit(key, i)
         /\ \A key : BitsOf(key)' = BitsOf(key)
         /\ offered \subseteq offered' => Explained \subseteq Explained'
<1>1. \A key, i : HashOf(key, i)' = HashOf(key, i)
  BY DEF HashOf
<1>2. \A key, i : Bit(key, i)' = Bit(key, i)
  BY <1>1 DEF Bit
<1>3. \A key : BitsOf(key)' = BitsOf(key)
  BY <1>2 DEF BitsOf
<1> QED
  BY <1>2, <1>3 DEF Explained

\* The threads of a kernel take the keys that count as taken.
LEMMA TakenBy ==
  ASSUME ShapeInv, NEW k \in Kernels
  PROVE  /\ Threads(k) = Positions(kernel[k].keys)
         /\ KeysTaken(k) \subseteq Keys
         /\ \A p \in Threads(k) : p \in Nat /\ KeyOf(k, p) \in KeysTaken(k)
         /\ \A key \in KeysTaken(k) : \E p \in Threads(k) : KeyOf(k, p) = key
<1>1. kernel[k].keys \in Seq(Keys) /\ Threads(k) = Positions(kernel[k].keys)
  BY DEF ShapeInv, ShapeOf, Launched, Threads
<1> DEFINE keys == kernel[k].keys
<1>2. /\ Positions(keys) = {p \in 0 .. Len(keys) - 1 : p < IndexWord}
      /\ Len(keys) \in Nat /\ DOMAIN keys = 1 .. Len(keys) /\ IndexWord \in Nat \ {0}
  BY <1>1, PositionsTake, BloomAssumption
<1>3. KeysTaken(k) = {keys[i] : i \in {j \in 1 .. Len(keys) : j <= IndexWord}}
  BY <1>2 DEF KeysTaken
<1>4. keys \in Seq(Keys)
  BY <1>1
<1> HIDE DEF keys
<1>5. ASSUME NEW p \in Threads(k)
      PROVE  p \in Nat /\ KeyOf(k, p) \in KeysTaken(k)
  <2>1. p \in Nat /\ p + 1 \in {j \in 1 .. Len(keys) : j <= IndexWord}
    BY <1>1, <1>2 DEF keys
  <2>2. KeyOf(k, p) = keys[p + 1]
    BY DEF KeyOf, keys
  <2> QED
    BY <1>3, <2>1, <2>2
<1>6. ASSUME NEW i \in 1 .. Len(keys), i <= IndexWord
      PROVE  i - 1 \in Threads(k) /\ KeyOf(k, i - 1) = keys[i]
  BY <1>1, <1>2, <1>6 DEF KeyOf, keys
<1>7. KeysTaken(k) \subseteq Keys
  BY <1>3, <1>4
<1> QED
  BY <1>1, <1>3, <1>5, <1>6, <1>7

\* A kernel that a step does not concern.
Same(k) ==
  /\ kernel'[k] = kernel[k] /\ next'[k] = next[k] /\ found'[k] = found[k]
  /\ stale'[k] = stale[k] /\ before'[k] = before[k]
  /\ k \in ordered' <=> k \in ordered

LEMMA OtherKernel ==
  ASSUME BloomInv, UNCHANGED <<policy, extent>>, NEW k \in Kernels, Same(k),
         added \subseteq added', offered \subseteq offered',
         kernel[k].runs => Queued(k)',
         k \in ordered => bits \subseteq bits' /\ Cleared'
  PROVE  ShapeOf(k)' /\ (kernel[k].runs => RunOf(k))'
<1>1. ShapeOf(k) /\ (kernel[k].runs => RunOf(k))
  BY DEF BloomInv, ShapeInv, RunInv
<1>2. ShapeOf(k)'
  BY <1>1 DEF ShapeOf, Same, Threads
<1>3. ASSUME kernel[k].runs, RunOf(k)
      PROVE  RunOf(k)'
  <2>1. /\ before'[k] \subseteq added'
        /\ \A key \in before'[k] : BitsOf(key)' \subseteq stale'[k]
        /\ k \notin ordered' => before'[k] = {}
        /\ k \in ordered' => stale'[k] \subseteq Explained'
    BY <1>3, BitsSame DEF RunOf, Same
  <2>2. ASSUME kernel[k].op = "add"
        PROVE  /\ KeysTaken(k)' \subseteq offered'
               /\ k \in ordered' => \A p \in Threads(k)' : \A i \in 0 .. next'[k][p] - 1 :
                                       Bit(KeyOf(k, p), i)' \in bits'
    <3>1. KeysTaken(k)' = KeysTaken(k) /\ Threads(k)' = Threads(k)
      BY DEF KeysTaken, Threads, Same
    <3>2. \A p, i : Bit(KeyOf(k, p), i)' = Bit(KeyOf(k, p), i)
      BY BitsSame DEF KeyOf, Same
    <3> QED
      BY <1>3, <2>2, <3>1, <3>2 DEF RunOf, Same
  <2>3. ASSUME kernel[k].op = "probe", NEW p \in Threads(k)'
        PROVE  /\ k \in ordered' => \A i \in 0 .. next'[k][p] - 1 : Bit(KeyOf(k, p), i)' \in Explained'
               /\ found'[k][p] \/ KeyOf(k, p)' \notin before'[k]
    <3>1. p \in Threads(k)
      BY <2>3 DEF Threads, Same
    <3>2. KeyOf(k, p)' = KeyOf(k, p) /\ \A i : Bit(KeyOf(k, p), i)' = Bit(KeyOf(k, p), i)
      BY BitsSame DEF KeyOf, Same
    <3>3. Explained \subseteq Explained'
      BY BitsSame
    <3> QED
      BY <1>3, <2>3, <3>1, <3>2, <3>3 DEF RunOf, Same
  <2> QED
    BY <2>1, <2>2, <2>3 DEF RunOf, Same
<1> QED
  BY <1>1, <1>2, <1>3 DEF Same

\* Nothing is ordered while the memset is queued, or runs once the filter is gone.
LEMMA NothingRuns ==
  ASSUME BloomInv
  PROVE  /\ ~Cleared => \A k \in Kernels : k \notin ordered
         /\ stage = "none" => \A k \in Kernels : ~kernel[k].runs
<1>1. \A k \in Kernels : (kernel[k].runs => Queued(k)) /\ (k \in ordered => Cleared)
  BY DEF BloomInv, ShapeInv, ShapeOf
<1>2. stage = "none" => \A s \in Streams : queue[s] = <<>>
  BY DEF BloomInv, QueueInv
<1>3. DOMAIN <<>> = {}
  OBVIOUS
<1> QED
  BY <1>1, <1>2, <1>3 DEF Queued

\* A kernel at the head of a stream is in it, and the memset is not.
LEMMA HeadIsQueued ==
  ASSUME BloomInv, NEW s \in Streams, NEW k \in Kernels, queue[s] # <<>>, Head(queue[s]) = k
  PROVE  Queued(k)
<1>1. queue[s] \in Seq(Kernels \cup {Clear})
  BY DEF BloomInv, QueueInv
<1>2. 1 \in DOMAIN queue[s] /\ queue[s][1] = k
  BY <1>1
<1> QED
  BY <1>2 DEF Queued

-----------------------------------------------------------------------------
(* The steps: the filter and its streams *)

LEMMA IdleKernels ==
  ASSUME BloomInv, UNCHANGED threads, \A k \in Kernels : ~kernel[k].runs
  PROVE  ShapeInv' /\ RunInv'
<1>1. /\ kernel' = kernel /\ next' = next /\ found' = found /\ stale' = stale /\ before' = before
      /\ ordered' = ordered /\ ShapeInv
  BY DEF threads, BloomInv
<1>2. ASSUME NEW k \in Kernels PROVE ShapeOf(k)'
  <2>1. ShapeOf(k) /\ ~kernel[k].runs /\ k \notin ordered
    BY <1>1 DEF ShapeInv, ShapeOf
  <2> QED
    BY <1>1, <2>1 DEF ShapeOf, Threads
<1> QED
  BY <1>1, <1>2 DEF ShapeInv, RunInv

LEMMA BloomStart == Init => BloomInv
<1> SUFFICES ASSUME Init PROVE BloomInv
  OBVIOUS
<1>1. /\ queue = [s \in Streams |-> <<>>] /\ Default \in Streams /\ HashCount \in Nat
  BY BloomAssumption, HashCountIs DEF Init
<1>2. Cleared
  BY <1>1 DEF Cleared
<1>3. QueueInv
  BY <1>1 DEF QueueInv, Init
<1>4. /\ <<>> \in Seq(Keys) /\ Positions(<<>>) = {}
      /\ DOMAIN <<>> = {} /\ \A S : <<>> \in [{} -> S]
  BY NoPositions
<1>6. ASSUME NEW k \in Kernels
      PROVE  ShapeOf(k) /\ kernel[k] \in Launched /\ ~kernel[k].runs
  <2>1. kernel[k] = NoKernel /\ next[k] = <<>> /\ found[k] = <<>> /\ k \notin ordered
    BY DEF Init
  <2> QED
    BY <1>4, <2>1 DEF ShapeOf, Threads, NoKernel, Launched
<1>7. ShapeInv /\ RunInv
  BY <1>6 DEF ShapeInv, RunInv, Init
<1>8. BitsInv
  BY <1>2 DEF BitsInv, Init
<1> QED
  BY <1>3, <1>7, <1>8 DEF BloomInv

LEMMA ConstructStep ==
  ASSUME BloomInv, NEW n, NEW p, Construct(n, p)
  PROVE  BloomInv'
<1>1. /\ stage = "none" /\ stage' = "live" /\ queue' = [queue EXCEPT ![Default] = <<Clear>>]
      /\ added' = {} /\ offered' = {} /\ UNCHANGED threads
  BY DEF Construct
<1>2. /\ queue \in [Streams -> Seq(Kernels \cup {Clear})] /\ \A s \in Streams : queue[s] = <<>>
      /\ Default \in Streams
  BY <1>1, BloomAssumption DEF BloomInv, QueueInv
<1>3. /\ <<Clear>> \in Seq(Kernels \cup {Clear}) /\ Len(<<Clear>>) = 1 /\ <<Clear>>[1] = Clear
  OBVIOUS
<1>4. /\ queue'[Default] = <<Clear>> /\ \A s \in Streams \ {Default} : queue'[s] = <<>>
      /\ queue' \in [Streams -> Seq(Kernels \cup {Clear})]
  BY <1>1, <1>2, <1>3
<1>5. ~Cleared'
  BY <1>3, <1>4 DEF Cleared
<1>6. QueueInv'
  BY <1>1, <1>3, <1>4 DEF QueueInv
<1>7. ShapeInv' /\ RunInv'
  BY <1>1, NothingRuns, IdleKernels
<1>8. BitsInv'
  BY <1>1, <1>5 DEF BitsInv
<1> QED
  BY <1>6, <1>7, <1>8 DEF BloomInv

\* What is left in a stream when its head is done.
LEMMA FinishQueue ==
  ASSUME BloomInv, NEW s \in Streams, queue[s] # <<>>, Finish(s), stage' = stage
  PROVE  /\ QueueInv'
         /\ Cleared \/ s = Default => Cleared'
         /\ Head(queue[s]) # Clear /\ Cleared' => Cleared
         /\ \A k \in Kernels : Head(queue[s]) # k /\ Queued(k) => Queued(k)'
<1> DEFINE q == queue[s]
<1>1. /\ queue \in [Streams -> Seq(Kernels \cup {Clear})] /\ queue' = [queue EXCEPT ![s] = Tail(q)]
      /\ q \in Seq(Kernels \cup {Clear}) /\ q # <<>> /\ Default \in Streams /\ stage # "none"
  BY BloomAssumption DEF BloomInv, QueueInv, Finish
<1>2. /\ queue'[s] = Tail(q) /\ \A t \in Streams \ {s} : queue'[t] = queue[t]
      /\ \A i \in 1 .. Len(q) : q[i] = Clear => s = Default /\ i = 1
  BY <1>1 DEF BloomInv, QueueInv
<1> HIDE DEF q
<1>3. /\ Tail(q) \in Seq(Kernels \cup {Clear}) /\ Len(q) \in Nat /\ Len(q) >= 1 /\ Head(q) = q[1]
      /\ Len(Tail(q)) = Len(q) - 1
      /\ \A i \in 1 .. Len(q) - 1 : Tail(q)[i] = q[i + 1]
  BY <1>1
<1>4. \A i \in 1 .. Len(Tail(q)) : Tail(q)[i] # Clear
  <2>1. ASSUME NEW i \in 1 .. Len(q) - 1 PROVE Tail(q)[i] # Clear
    <3>1. i + 1 \in 1 .. Len(q) /\ i + 1 # 1
      BY <1>3
    <3> QED
      BY <1>2, <1>3, <3>1
  <2> QED
    BY <1>3, <2>1
<1>5. Cleared \/ s = Default => Cleared'
  <2>1. CASE s = Default
    <3>1. DOMAIN queue'[Default] = 1 .. Len(Tail(q)) /\ queue'[Default] = Tail(q)
      BY <1>2, <1>3, <2>1
    <3> QED
      BY <1>4, <3>1 DEF Cleared
  <2>2. CASE s # Default
    BY <1>1, <1>2, <2>2 DEF Cleared
  <2> QED
    BY <2>1, <2>2
<1>6. queue' \in [Streams -> Seq(Kernels \cup {Clear})]
  BY <1>1, <1>3
<1>7. QueueInv'
  <2>1. \A t \in Streams : \A i \in 1 .. Len(queue'[t]) : queue'[t][i] = Clear => t = Default /\ i = 1
    <3>1. ASSUME NEW t \in Streams, NEW i \in 1 .. Len(queue'[t]), queue'[t][i] = Clear
          PROVE  t = Default /\ i = 1
      <4>1. t # s
        BY <1>2, <1>4, <3>1
      <4> QED
        BY <1>2, <3>1, <4>1 DEF BloomInv, QueueInv
    <3> QED
      BY <3>1
  <2> QED
    BY <1>1, <1>6, <2>1 DEF QueueInv
<1>8. ASSUME NEW k \in Kernels, Head(q) # k, Queued(k)
      PROVE  Queued(k)'
  <2>0. PICK t \in Streams : \E i \in DOMAIN queue[t] : queue[t][i] = k
    BY <1>8 DEF Queued
  <2>1. PICK i \in DOMAIN queue[t] : queue[t][i] = k
    BY <2>0
  <2>2. CASE t # s
    BY <1>2, <2>1, <2>2 DEF Queued
  <2>3. CASE t = s
    <3>1. i \in 1 .. Len(q) /\ q[i] = k /\ i # 1
      BY <1>1, <1>3, <1>8, <2>1, <2>3 DEF q
    <3>2. i - 1 \in 1 .. Len(q) - 1 /\ (i - 1) + 1 = i
      BY <1>3, <3>1
    <3>3. i - 1 \in DOMAIN Tail(q) /\ Tail(q)[i - 1] = k
      BY <1>3, <3>1, <3>2
    <3> QED
      BY <1>2, <3>3 DEF Queued
  <2> QED
    BY <2>2, <2>3
<1>9. ASSUME Head(q) # Clear, Cleared'
      PROVE  Cleared
  <2>1. CASE s = Default
    <3>1. DOMAIN queue[Default] = 1 .. Len(q) /\ queue[Default] = q
      BY <1>1, <2>1 DEF q
    <3>2. \A i \in 1 .. Len(q) : q[i] # Clear
      BY <1>2, <1>3, <1>9
    <3> QED
      BY <3>1, <3>2 DEF Cleared
  <2>2. CASE s # Default
    BY <1>1, <1>2, <1>9, <2>2 DEF Cleared
  <2> QED
    BY <2>1, <2>2
<1> QED
  BY <1>5, <1>7, <1>8, <1>9 DEF q

LEMMA ClearBitsStep ==
  ASSUME BloomInv, ClearBits
  PROVE  BloomInv'
<1>1. /\ queue[Default] # <<>> /\ Head(queue[Default]) = Clear /\ bits' = {} /\ Finish(Default)
      /\ UNCHANGED <<filter, threads, added, offered>> /\ Default \in Streams
  BY BloomAssumption DEF ClearBits
<1>2. stage' = stage /\ added' = added /\ offered' = offered
  BY <1>1 DEF filter
<1>3. ~Cleared
  <2>1. queue[Default] \in Seq(Kernels \cup {Clear})
    BY <1>1 DEF BloomInv, QueueInv
  <2>2. 1 \in DOMAIN queue[Default] /\ queue[Default][1] = Clear
    BY <1>1, <2>1
  <2> QED
    BY <2>2 DEF Cleared
<1>4. QueueInv'
  BY <1>1, <1>2, FinishQueue
<1>5. ShapeInv' /\ RunInv'
  <2>1. ASSUME NEW k \in Kernels
        PROVE  ShapeOf(k)' /\ (kernel[k].runs => RunOf(k))'
    <3>1. Same(k) /\ k \notin ordered
      BY <1>1, <1>3, NothingRuns DEF Same, threads
    <3>2. Queued(k) => Queued(k)'
      <4>1. Head(queue[Default]) # k
        BY <1>1, BloomAssumption
      <4> QED
        BY <1>1, <1>2, <4>1, FinishQueue
    <3>3. kernel[k].runs => Queued(k)'
      BY <3>2 DEF BloomInv, ShapeInv, ShapeOf
    <3> QED
      BY <1>1, <1>2, <3>1, <3>3, OtherKernel DEF filter
  <2> QED
    BY <1>1, <2>1 DEF BloomInv, ShapeInv, RunInv, threads
<1>6. BitsInv'
  BY <1>1, <1>2, <1>3 DEF BloomInv, BitsInv
<1> QED
  BY <1>4, <1>5, <1>6 DEF BloomInv

LEMMA DestroyStep ==
  ASSUME BloomInv, Destroy
  PROVE  BloomInv'
<1>1. /\ stage = "live" /\ stage' = "closing"
      /\ UNCHANGED <<policy, extent, words, bits, queue, threads, added, offered>>
  BY DEF Destroy
<1>2. Cleared' = Cleared /\ \A k : Queued(k)' = Queued(k)
  BY <1>1 DEF Cleared, Queued
<1>3. QueueInv'
  BY <1>1, <1>2 DEF BloomInv, QueueInv
<1>4. ASSUME NEW k \in Kernels PROVE ShapeOf(k)' /\ (kernel[k].runs => RunOf(k))'
  <2>1. Same(k) /\ (kernel[k].runs => Queued(k)') /\ (k \in ordered => Cleared')
    BY <1>1, <1>2 DEF Same, threads, BloomInv, ShapeInv, ShapeOf
  <2> QED
    BY <1>1, <2>1, OtherKernel
<1>5. ShapeInv' /\ RunInv'
  BY <1>1, <1>4 DEF BloomInv, ShapeInv, RunInv, threads
<1>6. BitsInv'
  <2>1. Explained' = Explained /\ \A key : BitsOf(key)' = BitsOf(key)
    BY <1>1, BitsSame DEF Explained
  <2> QED
    BY <1>1, <1>2, <2>1 DEF BloomInv, BitsInv
<1> QED
  BY <1>3, <1>5, <1>6 DEF BloomInv

LEMMA FreeStep ==
  ASSUME BloomInv, Free
  PROVE  BloomInv'
<1>1. /\ \A s \in Streams : queue[s] = <<>>
      /\ stage' = "none" /\ bits' = {}
      /\ UNCHANGED <<policy, extent, queue, threads, added, offered>>
  BY DEF Free
<1>2. Cleared' /\ \A k \in Kernels : ~Queued(k)
  <2>1. DOMAIN <<>> = {} /\ Default \in Streams
    BY BloomAssumption
  <2> QED
    BY <1>1, <2>1 DEF Cleared, Queued
<1>3. QueueInv'
  BY <1>1, <1>2 DEF BloomInv, QueueInv
<1>4. ShapeInv' /\ RunInv'
  <2>1. \A k \in Kernels : ~kernel[k].runs
    BY <1>2 DEF BloomInv, ShapeInv, ShapeOf
  <2> QED
    BY <1>1, <2>1, IdleKernels
<1>5. BitsInv'
  BY <1>1, <1>2 DEF BitsInv
<1> QED
  BY <1>3, <1>4, <1>5 DEF BloomInv

-----------------------------------------------------------------------------
(* The steps: launches and kernels *)

\* A step that concerns kernel k, and leaves the others what they were.
LEMMA OneKernel ==
  ASSUME BloomInv, UNCHANGED <<policy, extent>>, NEW k \in Kernels,
         kernel' \in [Kernels -> Launched],
         DOMAIN next' = Kernels, DOMAIN found' = Kernels,
         DOMAIN stale' = Kernels, DOMAIN before' = Kernels,
         \A l \in Kernels \ {k} : Same(l),
         bits \subseteq bits', added \subseteq added', offered \subseteq offered',
         \A l \in Kernels \ {k} : Queued(l) => Queued(l)',
         Cleared => Cleared',
         ShapeOf(k)', (kernel[k].runs => RunOf(k))'
  PROVE  ShapeInv' /\ RunInv'
<1>1. ASSUME NEW l \in Kernels \ {k}
      PROVE  ShapeOf(l)' /\ (kernel[l].runs => RunOf(l))'
  <2>1. Same(l) /\ (kernel[l].runs => Queued(l)') /\ (l \in ordered => Cleared')
    BY DEF BloomInv, ShapeInv, ShapeOf
  <2> QED
    BY <2>1, OtherKernel
<1> QED
  BY <1>1 DEF ShapeInv, RunInv

LEMMA LaunchStep ==
  ASSUME BloomInv, NEW k \in Kernels, NEW op \in {"add", "probe"}, NEW keys \in KeyRanges,
         NEW s \in Streams, Launch(k, op, keys, s)
  PROVE  BloomInv'
<1> DEFINE q == queue[s]
<1>1. /\ stage = "live" /\ ~Queued(k)
      /\ kernel' = [kernel EXCEPT ![k] = [op |-> op, keys |-> keys, runs |-> FALSE]]
      /\ next' = [next EXCEPT ![k] = [p \in Positions(keys) |-> 0]]
      /\ found' = [found EXCEPT ![k] = [p \in Positions(keys) |-> TRUE]]
      /\ queue' = [queue EXCEPT ![s] = Append(q, k)]
      /\ UNCHANGED <<filter, bits, stale, before, ordered, added, offered>>
      /\ keys \in Seq(Keys) /\ k # Clear /\ Default \in Streams
  BY BloomAssumption DEF Launch
<1>2. stage' = stage /\ UNCHANGED <<policy, extent>>
  BY <1>1 DEF filter
<1>3. /\ queue \in [Streams -> Seq(Kernels \cup {Clear})]
      /\ q \in Seq(Kernels \cup {Clear})
      /\ queue'[s] = Append(q, k) /\ \A t \in Streams \ {s} : queue'[t] = queue[t]
      /\ \A i \in 1 .. Len(q) : q[i] = Clear => s = Default /\ i = 1
  BY <1>1 DEF BloomInv, QueueInv
<1> HIDE DEF q
<1>4. /\ Append(q, k) \in Seq(Kernels \cup {Clear}) /\ Len(q) \in Nat
      /\ Len(Append(q, k)) = Len(q) + 1 /\ Append(q, k)[Len(q) + 1] = k
      /\ \A i \in 1 .. Len(q) : Append(q, k)[i] = q[i]
      /\ DOMAIN Append(q, k) = 1 .. Len(q) + 1 /\ DOMAIN q = 1 .. Len(q)
  BY <1>3
<1>5. Cleared => Cleared'
  <2>1. CASE s = Default
    <3>1. ASSUME Cleared, NEW i \in 1 .. Len(q) + 1
          PROVE  Append(q, k)[i] # Clear
      <4>1. CASE i = Len(q) + 1
        BY <1>1, <1>4, <4>1
      <4>2. CASE i \in 1 .. Len(q)
        BY <1>4, <2>1, <3>1, <4>2 DEF Cleared, q
      <4> QED
        BY <1>4, <4>1, <4>2
    <3> QED
      BY <1>3, <1>4, <2>1, <3>1 DEF Cleared
  <2>2. CASE s # Default
    BY <1>1, <1>3, <2>2 DEF Cleared
  <2> QED
    BY <2>1, <2>2
<1>6. QueueInv'
  <2>1. queue' \in [Streams -> Seq(Kernels \cup {Clear})]
    BY <1>1, <1>3, <1>4
  <2>2. ASSUME NEW t \in Streams, NEW i \in 1 .. Len(queue'[t]), queue'[t][i] = Clear
        PROVE  t = Default /\ i = 1
    <3>1. CASE t = s
      <4>1. i \in 1 .. Len(q) /\ q[i] = Clear
        BY <1>1, <1>3, <1>4, <2>2, <3>1, i = Len(q) + 1 \/ i \in 1 .. Len(q)
      <4> QED
        BY <1>3, <3>1, <4>1
    <3>2. CASE t # s
      BY <1>3, <2>2, <3>2 DEF BloomInv, QueueInv
    <3> QED
      BY <3>1, <3>2
  <2> QED
    BY <1>1, <1>2, <2>1, <2>2 DEF QueueInv
<1>7. ASSUME NEW l \in Kernels, Queued(l)
      PROVE  Queued(l)'
  <2>1. PICK t \in Streams : \E i \in DOMAIN queue[t] : queue[t][i] = l
    BY <1>7 DEF Queued
  <2>2. PICK i \in DOMAIN queue[t] : queue[t][i] = l
    BY <2>1
  <2>3. i \in DOMAIN queue'[t] /\ queue'[t][i] = l
    <3>1. CASE t = s
      BY <1>3, <1>4, <2>2, <3>1 DEF q
    <3>2. CASE t # s
      BY <1>3, <2>2, <3>2
    <3> QED
      BY <3>1, <3>2
  <2> QED
    BY <2>3 DEF Queued
<1>8. /\ kernel \in [Kernels -> Launched] /\ DOMAIN next = Kernels /\ DOMAIN found = Kernels
      /\ DOMAIN stale = Kernels /\ DOMAIN before = Kernels
  BY DEF BloomInv, ShapeInv
<1>9. /\ kernel' \in [Kernels -> Launched] /\ DOMAIN next' = Kernels /\ DOMAIN found' = Kernels
      /\ DOMAIN stale' = Kernels /\ DOMAIN before' = Kernels
      /\ kernel'[k] = [op |-> op, keys |-> keys, runs |-> FALSE]
      /\ next'[k] = [p \in Positions(keys) |-> 0] /\ found'[k] = [p \in Positions(keys) |-> TRUE]
      /\ \A l \in Kernels \ {k} : Same(l)
  BY <1>1, <1>8 DEF Launched, Same
<1>10. ShapeOf(k)' /\ ~kernel'[k].runs
  <2>1. k \notin ordered
    BY <1>1 DEF BloomInv, ShapeInv, ShapeOf
  <2> QED
    BY <1>1, <1>9, <2>1, HashCountIs DEF ShapeOf, Threads
<1>11. ShapeInv' /\ RunInv'
  BY <1>1, <1>2, <1>5, <1>7, <1>9, <1>10, OneKernel
<1>12. Cleared' => Cleared
  <2>1. CASE s = Default
    <3>1. ASSUME Cleared', NEW i \in 1 .. Len(q)
          PROVE  q[i] # Clear
      <4>1. i \in 1 .. Len(q) + 1
        BY <1>4
      <4> QED
        BY <1>3, <1>4, <2>1, <3>1, <4>1 DEF Cleared
    <3> QED
      BY <1>4, <2>1, <3>1 DEF Cleared, q
  <2>2. CASE s # Default
    BY <1>1, <1>3, <2>2 DEF Cleared
  <2> QED
    BY <2>1, <2>2
<1>13. BitsInv'
  <2>1. Explained' = Explained /\ \A key : BitsOf(key)' = BitsOf(key)
    BY <1>1, <1>2, BitsSame DEF Explained
  <2> QED
    BY <1>1, <1>2, <1>5, <1>12, <2>1 DEF BloomInv, BitsInv
<1> QED
  BY <1>6, <1>11, <1>13 DEF BloomInv

\* What a step of a kernel knows of the kernel.
LEMMA RunningKernel ==
  ASSUME BloomInv, NEW k \in Kernels, kernel[k].runs
  PROVE  /\ Queued(k) /\ stage # "none" /\ RunOf(k) /\ ShapeOf(k)
         /\ kernel \in [Kernels -> Launched] /\ DOMAIN next = Kernels /\ DOMAIN found = Kernels
         /\ DOMAIN stale = Kernels /\ DOMAIN before = Kernels
<1>1. /\ ShapeOf(k) /\ RunOf(k) /\ Queued(k)
      /\ kernel \in [Kernels -> Launched] /\ DOMAIN next = Kernels /\ DOMAIN found = Kernels
      /\ DOMAIN stale = Kernels /\ DOMAIN before = Kernels
  BY DEF BloomInv, ShapeInv, ShapeOf, RunInv
<1> QED
  BY <1>1, NothingRuns

LEMMA BeginStep ==
  ASSUME BloomInv, NEW k \in Kernels, Begin(k)
  PROVE  BloomInv'
<1> DEFINE r == [kernel[k] EXCEPT !.runs = TRUE]
<1>1. /\ kernel' = [kernel EXCEPT ![k] = r]
      /\ stale' = [stale EXCEPT ![k] = bits]
      /\ before' = [before EXCEPT ![k] = added]
      /\ ordered' = IF Cleared THEN ordered \cup {k} ELSE ordered
      /\ offered' = IF kernel[k].op = "add" THEN offered \cup KeysTaken(k) ELSE offered
      /\ UNCHANGED <<filter, bits, queue, next, found, added>>
      /\ ~kernel[k].runs
  BY DEF Begin
<1>2. stage' = stage /\ UNCHANGED <<policy, extent>> /\ offered \subseteq offered'
  BY <1>1 DEF filter
<1>3. Queued(k) /\ stage # "none"
  <2>1. PICK s \in Streams : queue[s] # <<>> /\ Head(queue[s]) = k
    BY DEF Begin
  <2> QED
    BY <2>1, HeadIsQueued DEF BloomInv, QueueInv
<1>4. Cleared' = Cleared /\ \A l : Queued(l)' = Queued(l)
  BY <1>1 DEF Cleared, Queued
<1>5. /\ kernel \in [Kernels -> Launched] /\ DOMAIN next = Kernels /\ DOMAIN found = Kernels
      /\ DOMAIN stale = Kernels /\ DOMAIN before = Kernels /\ ShapeOf(k)
      /\ (k \in ordered' <=> Cleared)
  BY <1>1 DEF BloomInv, ShapeInv, ShapeOf
<1>6. r \in Launched /\ r.keys = kernel[k].keys /\ r.op = kernel[k].op /\ r.runs
  BY <1>5 DEF Launched
<1> HIDE DEF r
<1>7. /\ kernel' \in [Kernels -> Launched] /\ DOMAIN next' = Kernels /\ DOMAIN found' = Kernels
      /\ DOMAIN stale' = Kernels /\ DOMAIN before' = Kernels
      /\ kernel'[k] = r /\ next'[k] = next[k] /\ found'[k] = found[k]
      /\ stale'[k] = bits /\ before'[k] = added
      /\ \A l \in Kernels \ {k} : Same(l)
  BY <1>1, <1>5, <1>6 DEF Same
<1>8. ShapeOf(k)'
  BY <1>1, <1>3, <1>4, <1>5, <1>6, <1>7 DEF ShapeOf, Threads
<1>9. RunOf(k)'
  <2>1. /\ \A p \in Threads(k) : next[k][p] = 0 /\ found[k][p]
        /\ Threads(k)' = Threads(k) /\ 0 .. 0 - 1 = {}
    BY <1>1, <1>5, <1>7 DEF ShapeOf, Threads
  <2>2. /\ before'[k] \subseteq added'
        /\ \A key \in before'[k] : BitsOf(key)' \subseteq stale'[k]
        /\ k \notin ordered' => before'[k] = {}
        /\ k \in ordered' => stale'[k] \subseteq Explained'
    BY <1>1, <1>2, <1>3, <1>5, <1>7, BitsSame DEF BloomInv, BitsInv
  <2>3. kernel'[k].op = "add" => KeysTaken(k)' \subseteq offered'
    <3>1. KeysTaken(k)' = KeysTaken(k)
      BY <1>6, <1>7 DEF KeysTaken
    <3> QED
      BY <1>1, <1>6, <1>7, <3>1
  <2> QED
    BY <1>7, <2>1, <2>2, <2>3 DEF RunOf
<1>10. ShapeInv' /\ RunInv'
  BY <1>1, <1>2, <1>4, <1>7, <1>8, <1>9, OneKernel
<1>11. QueueInv'
  BY <1>1, <1>2, <1>4 DEF BloomInv, QueueInv
<1>12. BitsInv'
  <2>1. Explained \subseteq Explained' /\ \A key : BitsOf(key)' = BitsOf(key)
    BY <1>2, BitsSame
  <2> QED
    BY <1>1, <1>2, <1>3, <1>4, <2>1 DEF BloomInv, BitsInv
<1> QED
  BY <1>10, <1>11, <1>12 DEF BloomInv

LEMMA BusyThread ==
  ASSUME BloomInv, NEW k \in Kernels, NEW p \in Threads(k), NEW op, Busy(k, op, p)
  PROVE  /\ kernel[k].op = op /\ kernel[k].runs /\ found[k][p]
         /\ next[k][p] \in 0 .. HashCount - 1
         /\ p \in Positions(kernel[k].keys)
         /\ KeyOf(k, p) \in KeysTaken(k)
         /\ Bit(KeyOf(k, p), next[k][p]) \in BitsOf(KeyOf(k, p))
<1>1. ShapeInv /\ ShapeOf(k)
  BY DEF BloomInv, ShapeInv
<1>2. p \in Positions(kernel[k].keys) /\ KeyOf(k, p) \in KeysTaken(k)
  BY <1>1, TakenBy
<1>3. next[k][p] \in 0 .. HashCount - 1
  BY <1>1, <1>2, HashCountIs DEF Busy, ShapeOf
<1> QED
  BY <1>2, <1>3 DEF Busy, BitsOf

LEMMA SetBitStep ==
  ASSUME BloomInv, NEW k \in Kernels, NEW p \in Threads(k), SetBit(k, p)
  PROVE  BloomInv'
<1> DEFINE b == Bit(KeyOf(k, p), next[k][p])
           n == [next[k] EXCEPT ![p] = next[k][p] + 1]
<1>1. /\ Busy(k, "add", p) /\ bits' = bits \cup {b}
      /\ next' = [next EXCEPT ![k] = n]
      /\ UNCHANGED <<filter, queue, kernel, found, stale, before, ordered, added, offered>>
  BY DEF SetBit, Advance
<1>2. stage' = stage /\ UNCHANGED <<policy, extent>>
  BY <1>1 DEF filter
<1>3. Cleared' = Cleared /\ \A l : Queued(l)' = Queued(l)
  BY <1>1 DEF Cleared, Queued
<1>4. /\ kernel[k].op = "add" /\ kernel[k].runs /\ next[k][p] \in 0 .. HashCount - 1
      /\ p \in Positions(kernel[k].keys) /\ KeyOf(k, p) \in KeysTaken(k)
      /\ b \in BitsOf(KeyOf(k, p))
  BY <1>1, BusyThread
<1>5. /\ RunOf(k) /\ ShapeOf(k) /\ Queued(k)
      /\ kernel \in [Kernels -> Launched] /\ DOMAIN next = Kernels /\ DOMAIN found = Kernels
      /\ DOMAIN stale = Kernels /\ DOMAIN before = Kernels
  BY <1>4, RunningKernel
<1>6. /\ n \in [Positions(kernel[k].keys) -> 0 .. HashCount]
      /\ n[p] = next[k][p] + 1 /\ \A q \in Threads(k) \ {p} : n[q] = next[k][q]
      /\ DOMAIN n = Threads(k)
  BY <1>4, <1>5, HashCountIs DEF ShapeOf, Threads
<1>7. b \in Explained
  BY <1>4, <1>5 DEF RunOf, Explained
<1> HIDE DEF n
<1>8. /\ DOMAIN next' = Kernels /\ next'[k] = n /\ \A l \in Kernels \ {k} : Same(l)
      /\ Threads(k)' = Threads(k)
  BY <1>1, <1>5, <1>6 DEF Same, Threads
<1>9. ShapeOf(k)'
  BY <1>1, <1>3, <1>4, <1>5, <1>6, <1>8 DEF ShapeOf
<1>10. RunOf(k)'
  <2>1. ASSUME NEW q \in Threads(k), NEW i \in 0 .. n[q] - 1
        PROVE  k \in ordered => Bit(KeyOf(k, q), i) \in bits'
    <3>1. CASE i \in 0 .. next[k][q] - 1
      BY <1>1, <1>4, <1>5, <3>1 DEF RunOf
    <3>2. CASE q = p /\ i = next[k][p]
      BY <1>1, <3>2
    <3> QED
      BY <1>4, <1>6, <2>1, <3>1, <3>2
  <2>2. /\ \A q, i : Bit(KeyOf(k, q), i)' = Bit(KeyOf(k, q), i)
        /\ Explained \subseteq Explained' /\ \A key : BitsOf(key)' = BitsOf(key)
        /\ KeysTaken(k)' = KeysTaken(k)
    BY <1>1, <1>2, BitsSame DEF KeyOf, KeysTaken
  <2> HIDE DEF b
  <2> QED
    BY <1>1, <1>4, <1>5, <1>8, <2>1, <2>2 DEF RunOf
<1>11. ShapeInv' /\ RunInv'
  BY <1>1, <1>2, <1>3, <1>5, <1>8, <1>9, <1>10, OneKernel
<1>12. QueueInv'
  BY <1>1, <1>2, <1>3 DEF BloomInv, QueueInv
<1>13. BitsInv'
  <2>1. Explained' = Explained /\ \A key : BitsOf(key)' = BitsOf(key)
    BY <1>1, <1>2, BitsSame DEF Explained
  <2> HIDE DEF b
  <2> QED
    BY <1>1, <1>2, <1>3, <1>5, <1>7, <2>1 DEF BloomInv, BitsInv
<1> QED
  BY <1>11, <1>12, <1>13 DEF BloomInv

\* A load that returns a bit, or misses one.
LEMMA ProbeSees ==
  ASSUME BloomInv, NEW k \in Kernels, NEW p \in Threads(k), Busy(k, "probe", p),
         NEW seen \in SeenIn(k), k \in ordered
  PROVE  /\ seen \subseteq Explained
         /\ KeyOf(k, p) \in before[k] => Bit(KeyOf(k, p), next[k][p]) \in seen
<1>1. /\ kernel[k].runs /\ Bit(KeyOf(k, p), next[k][p]) \in BitsOf(KeyOf(k, p))
  BY BusyThread
<1>2. /\ Cleared /\ RunOf(k) /\ stage # "none" /\ BitsInv
  BY <1>1, RunningKernel DEF BloomInv, ShapeOf
<1>3. seen = stale[k] \/ seen = bits
  BY DEF SeenIn
<1> QED
  BY <1>1, <1>2, <1>3 DEF RunOf, BitsInv

LEMMA BitIsSetStep ==
  ASSUME BloomInv, NEW k \in Kernels, NEW p \in Threads(k), BitIsSet(k, p)
  PROVE  BloomInv'
<1> DEFINE b == Bit(KeyOf(k, p), next[k][p])
           n == [next[k] EXCEPT ![p] = next[k][p] + 1]
<1>1. /\ Busy(k, "probe", p) /\ \E seen \in SeenIn(k) : b \in seen
      /\ next' = [next EXCEPT ![k] = n]
      /\ UNCHANGED <<filter, bits, queue, kernel, found, stale, before, ordered, added, offered>>
  BY DEF BitIsSet, Advance
<1>2. stage' = stage /\ UNCHANGED <<policy, extent>>
  BY <1>1 DEF filter
<1>3. Cleared' = Cleared /\ \A l : Queued(l)' = Queued(l)
  BY <1>1 DEF Cleared, Queued
<1>4. /\ kernel[k].op = "probe" /\ kernel[k].runs /\ next[k][p] \in 0 .. HashCount - 1
      /\ p \in Positions(kernel[k].keys)
  BY <1>1, BusyThread
<1>5. /\ RunOf(k) /\ ShapeOf(k) /\ Queued(k)
      /\ kernel \in [Kernels -> Launched] /\ DOMAIN next = Kernels /\ DOMAIN found = Kernels
      /\ DOMAIN stale = Kernels /\ DOMAIN before = Kernels
  BY <1>4, RunningKernel
<1>6. /\ n \in [Positions(kernel[k].keys) -> 0 .. HashCount]
      /\ n[p] = next[k][p] + 1 /\ \A q \in Threads(k) \ {p} : n[q] = next[k][q]
      /\ DOMAIN n = Threads(k)
  BY <1>4, <1>5, HashCountIs DEF ShapeOf, Threads
<1>7. k \in ordered => b \in Explained
  BY <1>1, ProbeSees
<1> HIDE DEF n
<1>8. /\ DOMAIN next' = Kernels /\ next'[k] = n /\ \A l \in Kernels \ {k} : Same(l)
      /\ Threads(k)' = Threads(k)
  BY <1>1, <1>5, <1>6 DEF Same, Threads
<1>9. ShapeOf(k)'
  BY <1>1, <1>3, <1>4, <1>5, <1>6, <1>8 DEF ShapeOf
<1>10. RunOf(k)'
  <2>1. ASSUME NEW q \in Threads(k), NEW i \in 0 .. n[q] - 1
        PROVE  k \in ordered => Bit(KeyOf(k, q), i) \in Explained
    <3>1. CASE i \in 0 .. next[k][q] - 1
      BY <1>4, <1>5, <3>1 DEF RunOf
    <3>2. CASE q = p /\ i = next[k][p]
      BY <1>7, <3>2
    <3> QED
      BY <1>4, <1>6, <2>1, <3>1, <3>2
  <2>2. /\ \A q, i : Bit(KeyOf(k, q), i)' = Bit(KeyOf(k, q), i)
        /\ Explained' = Explained /\ \A key : BitsOf(key)' = BitsOf(key)
        /\ \A q : KeyOf(k, q)' = KeyOf(k, q)
    BY <1>1, <1>2, BitsSame DEF KeyOf, Explained
  <2> HIDE DEF b
  <2> QED
    BY <1>1, <1>4, <1>5, <1>8, <2>1, <2>2 DEF RunOf
<1>11. ShapeInv' /\ RunInv'
  BY <1>1, <1>2, <1>3, <1>5, <1>8, <1>9, <1>10, OneKernel
<1>12. QueueInv'
  BY <1>1, <1>2, <1>3 DEF BloomInv, QueueInv
<1>13. BitsInv'
  <2>1. Explained' = Explained /\ \A key : BitsOf(key)' = BitsOf(key)
    BY <1>1, <1>2, BitsSame DEF Explained
  <2> QED
    BY <1>1, <1>2, <1>3, <2>1 DEF BloomInv, BitsInv
<1> QED
  BY <1>11, <1>12, <1>13 DEF BloomInv

LEMMA BitIsMissingStep ==
  ASSUME BloomInv, NEW k \in Kernels, NEW p \in Threads(k), BitIsMissing(k, p)
  PROVE  BloomInv'
<1> DEFINE f == [found[k] EXCEPT ![p] = FALSE]
<1>1. /\ Busy(k, "probe", p)
      /\ \E seen \in SeenIn(k) : Bit(KeyOf(k, p), next[k][p]) \notin seen
      /\ found' = [found EXCEPT ![k] = f]
      /\ UNCHANGED <<filter, bits, queue, kernel, next, stale, before, ordered, added, offered>>
  BY DEF BitIsMissing
<1>2. stage' = stage /\ UNCHANGED <<policy, extent>>
  BY <1>1 DEF filter
<1>3. Cleared' = Cleared /\ \A l : Queued(l)' = Queued(l)
  BY <1>1 DEF Cleared, Queued
<1>4. /\ kernel[k].op = "probe" /\ kernel[k].runs /\ p \in Positions(kernel[k].keys)
  BY <1>1, BusyThread
<1>5. /\ RunOf(k) /\ ShapeOf(k) /\ Queued(k)
      /\ kernel \in [Kernels -> Launched] /\ DOMAIN next = Kernels /\ DOMAIN found = Kernels
      /\ DOMAIN stale = Kernels /\ DOMAIN before = Kernels
  BY <1>4, RunningKernel
<1>6. /\ f \in [Positions(kernel[k].keys) -> BOOLEAN]
      /\ \A q \in Threads(k) \ {p} : f[q] = found[k][q]
  BY <1>4, <1>5 DEF ShapeOf, Threads
<1>7. KeyOf(k, p) \notin before[k]
  BY <1>1, <1>5, ProbeSees DEF RunOf
<1> HIDE DEF f
<1>8. /\ DOMAIN found' = Kernels /\ found'[k] = f /\ \A l \in Kernels \ {k} : Same(l)
      /\ Threads(k)' = Threads(k)
  BY <1>1, <1>5, <1>6 DEF Same, Threads
<1>9. ShapeOf(k)'
  BY <1>1, <1>3, <1>4, <1>5, <1>6, <1>8 DEF ShapeOf
<1>10. RunOf(k)'
  <2>1. ASSUME NEW q \in Threads(k)
        PROVE  f[q] \/ KeyOf(k, q) \notin before[k]
    <3>1. CASE q = p
      BY <1>7, <3>1
    <3>2. CASE q # p
      BY <1>4, <1>5, <1>6, <3>2 DEF RunOf
    <3> QED
      BY <3>1, <3>2
  <2>2. /\ \A q, i : Bit(KeyOf(k, q), i)' = Bit(KeyOf(k, q), i)
        /\ Explained' = Explained /\ \A key : BitsOf(key)' = BitsOf(key)
        /\ \A q : KeyOf(k, q)' = KeyOf(k, q)
    BY <1>1, <1>2, BitsSame DEF KeyOf, Explained
  <2> QED
    BY <1>1, <1>4, <1>5, <1>8, <2>1, <2>2 DEF RunOf
<1>11. ShapeInv' /\ RunInv'
  BY <1>1, <1>2, <1>3, <1>5, <1>8, <1>9, <1>10, OneKernel
<1>12. QueueInv'
  BY <1>1, <1>2, <1>3 DEF BloomInv, QueueInv
<1>13. BitsInv'
  <2>1. Explained' = Explained /\ \A key : BitsOf(key)' = BitsOf(key)
    BY <1>1, <1>2, BitsSame DEF Explained
  <2> QED
    BY <1>1, <1>2, <1>3, <2>1 DEF BloomInv, BitsInv
<1> QED
  BY <1>11, <1>12, <1>13 DEF BloomInv

\* The keys of an ordered kernel that ends have all their bits.
LEMMA EndedKeys ==
  ASSUME BloomInv, NEW k \in Kernels, kernel[k].runs, kernel[k].op = "add", k \in ordered,
         \A p \in Threads(k) : ~Busy(k, kernel[k].op, p)
  PROVE  \A key \in KeysTaken(k) : BitsOf(key) \subseteq bits
<1>1. ShapeInv /\ ShapeOf(k) /\ RunOf(k)
  BY RunningKernel DEF BloomInv
<1> SUFFICES ASSUME NEW key \in KeysTaken(k), NEW i \in 0 .. HashCount - 1
             PROVE  Bit(key, i) \in bits
  BY DEF BitsOf
<1>2. PICK p \in Threads(k) : KeyOf(k, p) = key
  BY <1>1, TakenBy
<1>3. found[k][p] /\ next[k][p] \in 0 .. HashCount
  BY <1>1, TakenBy DEF ShapeOf
<1>4. next[k][p] = HashCount
  BY <1>3, HashCountIs DEF Busy
<1> QED
  BY <1>1, <1>2, <1>4 DEF RunOf

LEMMA EndStep ==
  ASSUME BloomInv, NEW k \in Kernels, End(k)
  PROVE  BloomInv'
<1>1. /\ kernel[k].runs
      /\ \A p \in Threads(k) : ~Busy(k, kernel[k].op, p)
      /\ added' = IF kernel[k].op = "add" /\ k \in ordered THEN added \cup KeysTaken(k) ELSE added
      /\ kernel' = [kernel EXCEPT ![k] = NoKernel]
      /\ next' = [next EXCEPT ![k] = <<>>] /\ found' = [found EXCEPT ![k] = <<>>]
      /\ stale' = [stale EXCEPT ![k] = {}] /\ before' = [before EXCEPT ![k] = {}]
      /\ ordered' = ordered \ {k}
      /\ UNCHANGED <<filter, bits, offered>>
  BY DEF End
<1>2. stage' = stage /\ UNCHANGED <<policy, extent>> /\ added \subseteq added'
  BY <1>1 DEF filter
<1>3. PICK s \in Streams : queue[s] # <<>> /\ Head(queue[s]) = k /\ Finish(s)
  BY DEF End
<1>4. /\ QueueInv' /\ (Cleared <=> Cleared')
      /\ \A l \in Kernels \ {k} : Queued(l) => Queued(l)'
  BY <1>2, <1>3, FinishQueue, BloomAssumption
<1>5. /\ ShapeOf(k) /\ stage # "none"
      /\ kernel \in [Kernels -> Launched] /\ DOMAIN next = Kernels /\ DOMAIN found = Kernels
      /\ DOMAIN stale = Kernels /\ DOMAIN before = Kernels
  BY <1>1, RunningKernel
<1>6. NoKernel \in Launched /\ ~NoKernel.runs /\ NoKernel.keys = <<>>
  BY NoPositions DEF NoKernel, Launched
<1>7. /\ kernel' \in [Kernels -> Launched] /\ DOMAIN next' = Kernels /\ DOMAIN found' = Kernels
      /\ DOMAIN stale' = Kernels /\ DOMAIN before' = Kernels
      /\ kernel'[k] = NoKernel /\ next'[k] = <<>> /\ found'[k] = <<>>
      /\ \A l \in Kernels \ {k} : Same(l)
  BY <1>1, <1>5, <1>6 DEF Same
<1>8. ShapeOf(k)' /\ ~kernel'[k].runs
  BY <1>1, <1>6, <1>7, NoPositions DEF ShapeOf, Threads
<1>9. ShapeInv' /\ RunInv'
  BY <1>1, <1>2, <1>4, <1>7, <1>8, OneKernel
<1>10. BitsInv'
  <2>1. Explained' = Explained /\ \A key : BitsOf(key)' = BitsOf(key)
    BY <1>1, <1>2, BitsSame DEF Explained
  <2>2. /\ Cleared => \A key \in added' : BitsOf(key) \subseteq bits
        /\ Cleared \/ added' = {}
    BY <1>1, <1>5, EndedKeys DEF BloomInv, BitsInv, ShapeOf
  <2> QED
    BY <1>1, <1>2, <1>4, <1>5, <2>1, <2>2 DEF BloomInv, BitsInv
<1> QED
  BY <1>4, <1>9, <1>10 DEF BloomInv

LEMMA BloomStutter ==
  ASSUME BloomInv, UNCHANGED vars
  PROVE  BloomInv'
<1>1. /\ UNCHANGED <<stage, policy, extent, bits, queue, kernel, next, found, stale, before, ordered>>
      /\ UNCHANGED <<added, offered>>
  BY DEF vars, filter, threads
<1>2. Cleared' = Cleared /\ \A k : Queued(k)' = Queued(k)
  BY <1>1 DEF Cleared, Queued
<1>3. QueueInv'
  BY <1>1, <1>2 DEF BloomInv, QueueInv
<1>4. ASSUME NEW k \in Kernels PROVE ShapeOf(k)' /\ (kernel[k].runs => RunOf(k))'
  <2>1. Same(k) /\ (kernel[k].runs => Queued(k)') /\ (k \in ordered => Cleared')
    BY <1>1, <1>2 DEF Same, BloomInv, ShapeInv, ShapeOf
  <2> QED
    BY <1>1, <2>1, OtherKernel
<1>5. ShapeInv' /\ RunInv'
  BY <1>1, <1>4 DEF BloomInv, ShapeInv, RunInv
<1>6. BitsInv'
  <2>1. Explained' = Explained /\ \A key : BitsOf(key)' = BitsOf(key)
    BY <1>1, BitsSame DEF Explained
  <2> QED
    BY <1>1, <1>2, <2>1 DEF BloomInv, BitsInv
<1> QED
  BY <1>3, <1>5, <1>6 DEF BloomInv

LEMMA BloomStep == BloomInv /\ [Next]_vars => BloomInv'
<1>1. ASSUME BloomInv, NEW n \in Extents, NEW p \in {"default", "arrow"}, Construct(n, p)
      PROVE  BloomInv'
  BY <1>1, ConstructStep
<1>2. ASSUME BloomInv, NEW k \in Kernels, NEW op \in {"add", "probe"}, NEW keys \in KeyRanges,
             NEW s \in Streams, Launch(k, op, keys, s)
      PROVE  BloomInv'
  BY <1>2, LaunchStep
<1>3. ASSUME BloomInv, NEW k \in Kernels, Begin(k) \/ End(k)
      PROVE  BloomInv'
  BY <1>3, BeginStep, EndStep
<1>4. ASSUME BloomInv, NEW k \in Kernels, NEW p \in Threads(k),
             SetBit(k, p) \/ BitIsSet(k, p) \/ BitIsMissing(k, p)
      PROVE  BloomInv'
  BY <1>4, SetBitStep, BitIsSetStep, BitIsMissingStep
<1>5. ASSUME BloomInv, ClearBits \/ Destroy \/ Free
      PROVE  BloomInv'
  BY <1>5, ClearBitsStep, DestroyStep, FreeStep
<1> QED
  BY <1>1, <1>2, <1>3, <1>4, <1>5, BloomStutter DEF Next

LEMMA BloomAlways == Spec => []BloomInv
BY BloomStart, BloomStep, PTL DEF Spec

-----------------------------------------------------------------------------
(* The theorems *)

\* A probe never denies a key whose addition began after the memset and had ended
\* when the probe's kernel began, whatever runs on other streams and however stale
\* its loads are, for every hash and every number of hashes, words and threads
\* (lines 34-98, 144).
THEOREM AddedIsFound == Spec => []NoFalseNegative
<1>1. ASSUME BloomInv, NEW k \in Kernels, NEW p \in Threads(k), ~found[k][p]
      PROVE  KeyOf(k, p) \notin before[k]
  <2>1. ShapeOf(k) /\ (kernel[k].runs => RunOf(k))
    BY <1>1 DEF BloomInv, ShapeInv, RunInv
  <2> QED
    BY <1>1, <2>1 DEF ShapeOf, RunOf
<1>2. BloomInv => NoFalseNegative
  BY <1>1 DEF NoFalseNegative
<1> QED
  BY <1>2, BloomAlways, PTL

\* A probe that began after the memset only finds a key whose bits were set by
\* additions: nothing the memory held before the filter was built is seen, and
\* what an addition did before the memset is gone or explained (lines 144-148).
THEOREM FindsAreExplained == Spec => []FoundIsExplained
<1>1. ASSUME BloomInv, NEW k \in Kernels, NEW p \in Threads(k), kernel[k].op = "probe",
             k \in ordered, next[k][p] = HashCount
      PROVE  BitsOf(KeyOf(k, p)) \subseteq Explained
  <2>1. kernel[k].runs
    BY <1>1, HashCountIs DEF BloomInv, ShapeInv, ShapeOf
  <2>2. RunOf(k)
    BY <1>1, <2>1 DEF BloomInv, RunInv
  <2> QED
    BY <1>1, <2>2 DEF RunOf, BitsOf
<1>2. BloomInv => FoundIsExplained
  BY <1>1 DEF FoundIsExplained, Explained
<1> QED
  BY <1>2, BloomAlways, PTL

\* The checks of the constructor keep the size of the memory from wrapping.
LEMMA SizeAlways == Spec => []SizeInv
<1>1. Init => SizeInv
  BY DEF Init, SizeInv
<1>2. ASSUME SizeInv, Next
      PROVE  SizeInv'
  <2>1. ASSUME NEW n \in Extents, NEW p, Construct(n, p)
        PROVE  SizeInv'
    <3>1. n \in Nat /\ Accepts(n) /\ extent' = n /\ words' = WordsAllocated(n)
      BY <2>1, BloomAssumption DEF Construct
    <3> QED
      BY <3>1, SizesFit DEF SizeInv
  <2>2. ASSUME NEW k \in Kernels, NEW op, NEW keys, NEW s, Launch(k, op, keys, s)
        PROVE  UNCHANGED filter
    BY <2>2 DEF Launch
  <2>3. ASSUME NEW k \in Kernels, Begin(k) \/ End(k)
        PROVE  UNCHANGED filter
    BY <2>3 DEF Begin, End
  <2>4. ASSUME NEW k \in Kernels, NEW p, SetBit(k, p) \/ BitIsSet(k, p) \/ BitIsMissing(k, p)
        PROVE  UNCHANGED filter
    BY <2>4 DEF SetBit, BitIsSet, BitIsMissing
  <2>5. CASE ClearBits
    BY <1>2, <2>5 DEF ClearBits, filter, SizeInv
  <2>6. CASE Destroy
    BY <1>2, <2>6 DEF Destroy, SizeInv
  <2>7. CASE Free
    BY <2>7 DEF Free, SizeInv
  <2>8. UNCHANGED filter => SizeInv'
    BY <1>2 DEF filter, SizeInv
  <2> QED
    BY <1>2, <2>1, <2>2, <2>3, <2>4, <2>5, <2>6, <2>7, <2>8 DEF Next
<1>3. SizeInv /\ UNCHANGED vars => SizeInv'
  BY DEF vars, filter, SizeInv
<1> QED
  BY <1>1, <1>2, <1>3, PTL DEF Spec

\* Every word a thread is about to access is memory the filter owns, whatever
\* extent was asked for and whenever the filter is destroyed (lines 129-160).
THEOREM AccessesStayInside == Spec => []KernelsStayInside
<1>1. ASSUME BloomInv, SizeInv, NEW k \in Kernels, NEW p \in Threads(k), Busy(k, kernel[k].op, p)
      PROVE  Bit(KeyOf(k, p), next[k][p])[1] < words
  <2>1. /\ kernel[k].runs /\ next[k][p] \in Nat /\ KeyOf(k, p) \in KeysTaken(k)
    BY <1>1, BusyThread, HashCountIs
  <2>2. KeyOf(k, p) \in Keys
    BY <1>1, <2>1, TakenBy DEF BloomInv
  <2>3. extent \in Nat \ {0} /\ words = extent * WordsPerBlock
    BY <1>1, <2>1, RunningKernel DEF SizeInv
  <2> QED
    BY <2>1, <2>2, <2>3, BitInside
<1>2. BloomInv /\ SizeInv => KernelsStayInside
  BY <1>1 DEF KernelsStayInside
<1> QED
  BY <1>2, BloomAlways, SizeAlways, PTL
=============================================================================
