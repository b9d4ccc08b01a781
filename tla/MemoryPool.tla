------------------------------ MODULE MemoryPool ------------------------------
(***************************************************************************)
(* LockFreeMemoryPoolTLS<T> over LockFreeMemoryPool<T>.  Blocks travel in  *)
(* chunks, lists of at most ChunkSize blocks known by their first one.     *)
(* The pool is a stack of chunks under a tagged top; each thread has a     *)
(* cache: the chunk it takes from and gives to, and full chunks.  A block  *)
(* may be given back by another thread than the one that took it.          *)
(*                                                                         *)
(* What touches only the thread's own cache and blocks is part of the      *)
(* action before or after; every access to m_top, and to the chunkNext of  *)
(* a chunk on the stack, is an action.                                     *)
(***************************************************************************)
EXTENDS Integers, Sequences, FiniteSets

CONSTANTS
  Threads, Blocks,
  ChunkSize,       \* CHUNK_SIZE
  TlsMaxChunks,    \* TLS_MAX_CHUNKS
  MaxChunks,       \* m_maxChunks, 0 for no maximum
  TagLimit,        \* one more than the mask of the tag
  NoBlock          \* nullptr

ASSUME PoolAssumption ==
  /\ NoBlock \notin Blocks /\ IsFiniteSet(Blocks)
  /\ ChunkSize \in Nat \ {0} /\ TagLimit \in Nat \ {0, 1}
  /\ {TlsMaxChunks, MaxChunks} \subseteq Nat

VARIABLES
  \* the blocks
  next,         \* [Blocks -> Blocks \cup {NoBlock}]
  chunkNext,    \* [Blocks -> Blocks \cup {NoBlock}]
  count,        \* [Blocks -> Nat]: of a chunk's first block
  inUse,        \* the blocks whose useFlag is 1
  unmade,       \* memory no block was made in yet
  \* the pool
  top,          \* m_top
  chunkCount,   \* m_chunkCount
  crashed,      \* a __debugbreak() was reached
  \* the threads
  cache,        \* [Threads -> Cache]
  pc,           \* what a thread does
  head,         \* its argument of PushChunk, or the chunk it wants to pop
  oldTop,       \* its copy of m_top
  nextTop,      \* PopChunk's `next`
  rest,         \* ~Cache's `next`: the chunks it has yet to push
  exiting,      \* [Threads -> BOOLEAN]: the thread is in ~Cache
  slept         \* [Threads -> Nat]: changes of m_top since it read it

shared == <<inUse, unmade, chunkCount, crashed>>
links  == <<next, chunkNext, count>>
locals == <<head, oldTop, nextTop, rest, exiting>>
vars   == <<links, shared, top, cache, pc, locals, slept>>

Links  == Blocks \cup {NoBlock}
Tagged == [tag : 0 .. TagLimit - 1, ptr : Links]

\* A mutant: the tag is left out.
MakeUntagged(tag, b) == [tag |-> 0, ptr |-> b]

\* MakeTagged.
Make(tag, b) == [tag |-> tag % TagLimit, ptr |-> b]

Null  == Make(0, NoBlock)
Cache == [cur : Links, curCount : 0 .. ChunkSize, chunkTop : Links, chunkCount : Nat]
Empty == [cur |-> NoBlock, curCount |-> 0, chunkTop |-> NoBlock, chunkCount |-> 0]

\* The lists a set of blocks can be strung to.
Lists(S) == {l \in [1 .. ChunkSize -> S] : \A i, j \in 1 .. ChunkSize : l[i] = l[j] => i = j}

Init ==
  /\ next = [b \in Blocks |-> NoBlock] /\ chunkNext = next
  /\ count = [b \in Blocks |-> 0]
  /\ inUse = {} /\ unmade = Blocks
  /\ top = Null /\ chunkCount = 0 /\ crashed = FALSE
  /\ cache = [t \in Threads |-> Empty]
  /\ pc = [t \in Threads |-> "idle"]
  /\ head = [t \in Threads |-> NoBlock] /\ nextTop = head /\ rest = head
  /\ oldTop = [t \in Threads |-> Null]
  /\ exiting = [t \in Threads |-> FALSE]
  /\ slept = [t \in Threads |-> 0]

At(t, label) == ~ crashed /\ pc[t] = label

Go(t, from, to) == At(t, from) /\ pc' = [pc EXCEPT ![t] = to]

----------------------------------------------------------------------------
(***************************************************************************)
(* Steps of Alloc, Free and ~Cache that only the thread itself can see.    *)
(***************************************************************************)

\* A block that is given out must not be in use.
ValidateAlloc(b) == crashed' = (b \in inUse) /\ inUse' = inUse \cup {b}

\* The application gives a block back once.
ValidateFree(b) == b \in inUse /\ inUse' = inUse \ {b} /\ UNCHANGED crashed

\* The end of Alloc: the first block of cur.
GiveOut(t, c) ==
  /\ cache' = [cache EXCEPT ![t] = [c EXCEPT !.cur = next[c.cur], !.curCount = @ - 1]]
  /\ ValidateAlloc(c.cur)

\* The end of Refill.
Refilled(c, chunk) == [c EXCEPT !.cur = chunk, !.curCount = count[chunk]]

Alloc(t) ==
  /\ At(t, "idle") /\ cache[t].cur # NoBlock
  /\ GiveOut(t, cache[t])
  /\ UNCHANGED <<links, unmade, chunkCount, top, pc, locals, slept>>

\* Refill, from the thread's own chunks.
AllocOwnChunk(t) ==
  LET c == cache[t]
  IN  /\ At(t, "idle") /\ c.cur = NoBlock /\ c.chunkTop # NoBlock
      /\ GiveOut(t, Refilled([c EXCEPT !.chunkTop = chunkNext[c.chunkTop],
                                       !.chunkCount = @ - 1], c.chunkTop))
      /\ UNCHANGED <<links, unmade, chunkCount, top, pc, locals, slept>>

\* Refill, from the pool.
AllocFromPool(t) ==
  /\ Go(t, "idle", "PopTop") /\ cache[t].cur = NoBlock /\ cache[t].chunkTop = NoBlock
  /\ UNCHANGED <<links, shared, top, cache, locals, slept>>

\* Free before Seal.
Returned(t, b) == [cache[t] EXCEPT !.cur = b, !.curCount = @ + 1]

\* A mutant: full chunks are not counted.
SealedUncounted(c) ==
  [cur |-> NoBlock, curCount |-> 0, chunkTop |-> c.cur, chunkCount |-> c.chunkCount]

\* Seal before it looks at the number of chunks.
Sealed(c) ==
  [cur |-> NoBlock, curCount |-> 0, chunkTop |-> c.cur, chunkCount |-> c.chunkCount + 1]

\* What Free and Seal write into the block.
Put(t, b) ==
  /\ At(t, "idle") /\ ValidateFree(b)
  /\ next' = [next EXCEPT ![b] = cache[t].cur]

Free(t, b) ==
  /\ Put(t, b) /\ Returned(t, b).curCount < ChunkSize
  /\ cache' = [cache EXCEPT ![t] = Returned(t, b)]
  /\ UNCHANGED <<chunkNext, count, unmade, chunkCount, top, pc, locals, slept>>

Seal(t, b) ==
  /\ Put(t, b) /\ Returned(t, b).curCount = ChunkSize
  /\ count' = [count EXCEPT ![b] = ChunkSize]
  /\ chunkNext' = [chunkNext EXCEPT ![b] = cache[t].chunkTop]
  /\ LET c == Sealed(Returned(t, b))
     IN  IF c.chunkCount <= TlsMaxChunks
         THEN cache' = [cache EXCEPT ![t] = c] /\ UNCHANGED <<pc, head>>
         ELSE /\ cache' = [cache EXCEPT ![t] = [c EXCEPT !.chunkTop = cache[t].chunkTop,
                                                         !.chunkCount = @ - 1]]
              /\ pc' = [pc EXCEPT ![t] = "PushTop"]
              /\ head' = [head EXCEPT ![t] = b]
  /\ UNCHANGED <<unmade, chunkCount, top, oldTop, nextTop, rest, exiting, slept>>

\* The tag tells a changed top as long as nobody sleeps through TagLimit changes.
Reading == {"PopNext", "PopCas", "PushLink", "PushCas"}

SetTop(t, b) ==
  /\ top = oldTop[t]
  /\ top' = Make(oldTop[t].tag + 1, b)
  /\ \A u \in Threads \ {t} : pc[u] \in Reading => slept[u] < TagLimit - 1
  /\ slept' = [u \in Threads |-> IF u # t /\ pc[u] \in Reading THEN slept[u] + 1 ELSE 0]

ReadTop(t) ==
  /\ oldTop' = [oldTop EXCEPT ![t] = top]
  /\ slept' = [slept EXCEPT ![t] = 0]

\* A compare-and-swap that meets another top.
Retry(t, from, to) ==
  /\ Go(t, from, to) /\ top # oldTop[t]
  /\ oldTop' = [oldTop EXCEPT ![t] = Null] /\ nextTop' = [nextTop EXCEPT ![t] = NoBlock]
  /\ slept' = [slept EXCEPT ![t] = 0]
  /\ UNCHANGED <<links, shared, top, cache, head, rest, exiting>>

----------------------------------------------------------------------------
(***************************************************************************)
(* PopChunk.                                                               *)
(***************************************************************************)

PopTop(t) ==
  /\ Go(t, "PopTop", IF top.ptr = NoBlock THEN "NewChunk" ELSE "PopNext")
  /\ ReadTop(t)
  /\ UNCHANGED <<links, shared, top, cache, head, nextTop, rest, exiting>>

PopNext(t) ==
  /\ Go(t, "PopNext", "PopCas")
  /\ nextTop' = [nextTop EXCEPT ![t] = chunkNext[oldTop[t].ptr]]
  /\ UNCHANGED <<links, shared, top, cache, head, oldTop, rest, exiting, slept>>

PopCas(t) ==
  /\ Go(t, "PopCas", "idle")
  /\ SetTop(t, nextTop[t])
  /\ GiveOut(t, Refilled(cache[t], oldTop[t].ptr))
  /\ oldTop' = [oldTop EXCEPT ![t] = Null] /\ nextTop' = [nextTop EXCEPT ![t] = NoBlock]
  /\ UNCHANGED <<links, unmade, chunkCount, head, rest, exiting>>

NewChunk(t) ==
  /\ Go(t, "NewChunk", "idle")
  /\ chunkCount' = chunkCount + 1
  /\ \E l \in Lists(unmade) :
       LET made == {l[i] : i \in 1 .. ChunkSize}
           last == [i \in 1 .. ChunkSize |-> IF i = ChunkSize THEN NoBlock ELSE l[i + 1]]
           Next(b) == last[CHOOSE i \in 1 .. ChunkSize : l[i] = b]
       IN  /\ unmade' = unmade \ made
           /\ next' = [b \in Blocks |-> IF b \in made THEN Next(b) ELSE next[b]]
           /\ count' = [count EXCEPT ![l[1]] = ChunkSize]
           /\ inUse' = inUse \cup {l[1]}
           /\ cache' = [cache EXCEPT ![t].cur = Next(l[1]), ![t].curCount = ChunkSize - 1]
  /\ crashed' = (MaxChunks # 0 /\ chunkCount' > MaxChunks)
  /\ oldTop' = [oldTop EXCEPT ![t] = Null]
  /\ UNCHANGED <<chunkNext, top, head, nextTop, rest, exiting, slept>>

----------------------------------------------------------------------------
(***************************************************************************)
(* PushChunk, called by Seal and by ~Cache when a thread ends.             *)
(***************************************************************************)

PushTop(t) ==
  /\ Go(t, "PushTop", "PushLink")
  /\ ReadTop(t)
  /\ UNCHANGED <<links, shared, top, cache, head, nextTop, rest, exiting>>

PushLink(t) ==
  /\ Go(t, "PushLink", "PushCas")
  /\ chunkNext' = [chunkNext EXCEPT ![head[t]] = oldTop[t].ptr]
  /\ UNCHANGED <<next, count, shared, top, cache, locals, slept>>

\* ~Cache goes on to push `chunk`, or ends.
ExitOn(t, chunk) ==
  /\ head' = [head EXCEPT ![t] = chunk]
  /\ rest' = [rest EXCEPT ![t] = IF chunk = NoBlock THEN NoBlock ELSE chunkNext[chunk]]
  /\ exiting' = [exiting EXCEPT ![t] = chunk # NoBlock]
  /\ pc' = [pc EXCEPT ![t] = IF chunk = NoBlock THEN "idle" ELSE "PushTop"]

\* The chunk ~Cache turns to after a push.
After(t) == rest[t]

PushCas(t) ==
  /\ At(t, "PushCas")
  /\ SetTop(t, head[t])
  /\ IF exiting[t] THEN ExitOn(t, After(t)) ELSE ExitOn(t, NoBlock)
  /\ oldTop' = [oldTop EXCEPT ![t] = Null]
  /\ UNCHANGED <<links, shared, cache, nextTop>>

\* A mutant: the first chunk is pushed without its number of blocks.
ExitUncounted(t) ==
  LET c == cache[t]
  IN  /\ At(t, "idle") /\ c # Empty
      /\ cache' = [cache EXCEPT ![t] = Empty]
      /\ IF c.cur = NoBlock
         THEN ExitOn(t, c.chunkTop)
         ELSE /\ head' = [head EXCEPT ![t] = c.cur]
              /\ rest' = [rest EXCEPT ![t] = c.chunkTop]
              /\ exiting' = [exiting EXCEPT ![t] = TRUE]
              /\ pc' = [pc EXCEPT ![t] = "PushTop"]
      /\ UNCHANGED <<links, shared, top, oldTop, nextTop, slept>>

\* ~Cache; the next thread in its place starts with an empty cache.
Exit(t) ==
  LET c == cache[t]
  IN  /\ At(t, "idle") /\ c # Empty
      /\ cache' = [cache EXCEPT ![t] = Empty]
      /\ IF c.cur = NoBlock
         THEN ExitOn(t, c.chunkTop) /\ UNCHANGED count
         ELSE /\ count' = [count EXCEPT ![c.cur] = c.curCount]
              /\ head' = [head EXCEPT ![t] = c.cur]
              /\ rest' = [rest EXCEPT ![t] = c.chunkTop]
              /\ exiting' = [exiting EXCEPT ![t] = TRUE]
              /\ pc' = [pc EXCEPT ![t] = "PushTop"]
      /\ UNCHANGED <<next, chunkNext, shared, top, oldTop, nextTop, slept>>

----------------------------------------------------------------------------
Pool(t) ==
  \/ PopTop(t) \/ PopNext(t) \/ PopCas(t) \/ NewChunk(t)
  \/ PushTop(t) \/ PushLink(t) \/ PushCas(t)
  \/ Retry(t, "PopCas", "PopTop") \/ Retry(t, "PushCas", "PushTop")

Next ==
  \E t \in Threads :
    \/ Pool(t) \/ Alloc(t) \/ AllocOwnChunk(t) \/ AllocFromPool(t) \/ Exit(t)
    \/ \E b \in Blocks : Free(t, b) \/ Seal(t, b)

Spec == Init /\ [][Next]_vars

----------------------------------------------------------------------------
(***************************************************************************)
(* Properties.                                                             *)
(***************************************************************************)

\* Every variable holds a value of its type.
TypeOK ==
  /\ next \in [Blocks -> Links] /\ chunkNext \in [Blocks -> Links]
  /\ count \in [Blocks -> 0 .. ChunkSize]
  /\ inUse \subseteq Blocks /\ unmade \subseteq Blocks
  /\ top \in Tagged /\ chunkCount \in Nat /\ crashed \in BOOLEAN
  /\ cache \in [Threads -> Cache]
  /\ pc \in [Threads -> {"idle", "PopTop", "PopNext", "PopCas", "NewChunk",
                         "PushTop", "PushLink", "PushCas"}]
  /\ head \in [Threads -> Links] /\ nextTop \in [Threads -> Links] /\ rest \in [Threads -> Links]
  /\ oldTop \in [Threads -> Tagged] /\ exiting \in [Threads -> BOOLEAN]
  /\ slept \in [Threads -> 0 .. TagLimit - 1]

\* What is reached from b by the links f.
Reach(f, b) ==
  LET at[i \in 0 .. Cardinality(Blocks) - 1] ==
        IF i = 0 THEN b ELSE IF at[i - 1] = NoBlock THEN NoBlock ELSE f[at[i - 1]]
  IN  IF b = NoBlock THEN {} ELSE {at[i] : i \in 0 .. Cardinality(Blocks) - 1} \ {NoBlock}

Pushing(t) == pc[t] \in {"PushTop", "PushLink", "PushCas"}

\* The full chunks of a thread, or those it has yet to push when it ends.
OwnChunks(t) == Reach(chunkNext, cache[t].chunkTop) \cup Reach(chunkNext, rest[t])

\* Every chunk, with where it is.
Chunks ==
  {<<"pool", b>> : b \in Reach(chunkNext, top.ptr)}
    \cup (UNION {{<<t, "own", b>> : b \in OwnChunks(t)} : t \in Threads})
    \cup {<<t, "push", head[t]>> : t \in {u \in Threads : Pushing(u)}}
    \cup {<<t, "cur", cache[t].cur>> : t \in {u \in Threads : cache[u].cur # NoBlock}}

First(c) == c[Len(c)]

\* Every block is in use, or in one chunk in one place, or not made yet: none is
\* lost, none is where two threads could take it, and the checks of useFlag never
\* fire for an application that gives each block back once.
OnePlace ==
  LET holding == [c \in Chunks |-> Reach(next, First(c))]
  IN  ~ crashed /\ \A b \in Blocks :
        Cardinality({c \in DOMAIN holding : b \in holding[c]})
          + (IF b \in inUse THEN 1 ELSE 0) + (IF b \in unmade THEN 1 ELSE 0) = 1

\* The numbers of blocks and chunks that are written down are right wherever a
\* chunk was cut short or passed on.
CountsExact ==
  /\ \A c \in Chunks :
       LET size == Cardinality(Reach(next, First(c)))
       IN  IF c[Len(c) - 1] = "cur" THEN size = cache[c[1]].curCount ELSE size = count[First(c)]
  /\ \A t \in Threads : cache[t].chunkCount = Cardinality(Reach(chunkNext, cache[t].chunkTop))

\* A thread keeps no more than TlsMaxChunks full chunks and one that is not.
CacheBounded ==
  \A t \in Threads :
    Cardinality(UNION {Reach(next, b) : b \in {cache[t].cur} \cup Reach(chunkNext, cache[t].chunkTop)})
      < (TlsMaxChunks + 1) * ChunkSize

=============================================================================
