-------------------------- MODULE ServerLifeProofs --------------------------
(***************************************************************************)
(* No thread of a server outlives what it works on, no index is lost or    *)
(* given out twice, and every packet is given back once: proofs, for any   *)
(* number of workers, indices and nodes.                                   *)
(***************************************************************************)
EXTENDS ServerLife, FiniteSetTheorems, WellFoundedInduction, TLAPS

\* st is a function of the threads, at one of all users.
LifeTypes == st = [t \in Threads |-> st[t]] /\ at = [t \in Users |-> at[t]]

\* What there is, by where the main thread stands.
MainOK ==
  /\ main \in {"StPort", "StListen", "StPush", "StThreads", "up", "gone",
               "SpListen", "SpPost", "SpClean", "SpPort", "freed"}
  /\ main \in {"StPort", "StListen", "StPush"} => begun = {} /\ ~running
  /\ main = "StListen" => hcp
  /\ main \in {"StPush", "StThreads", "up", "SpListen", "SpPost"} => sessions /\ hcp
  /\ main \in {"StThreads", "up"} => running
  /\ main \in {"SpListen", "SpPost", "SpClean", "SpPort", "freed"} => ~running
  /\ main = "gone" /\ running => sessions /\ hcp
  /\ main = "gone" /\ ~running => AllEnded
  /\ main \in {"SpClean", "SpPort", "freed"} => AllEnded

\* The accept thread is inside Pop only where it is about to take an index.
PopOK ==
  at[Acceptor] \in {"PopNext", "PopCas", "empty", "got"} => st[Acceptor] = "pop"

\* The inductive invariant.
LifeInv == LifeTypes /\ MainOK /\ PopOK /\ begun \subseteq Threads

----------------------------------------------------------------------------
\* The users of the stack.
LEMMA UsersFacts == Acceptor \in Users /\ Workers \subseteq Users /\ Acceptor \in Threads
                    /\ Workers \subseteq Threads /\ Acceptor \notin Workers
  BY LifeAssumption DEF Threads

\* A step that leaves the main thread alone and wakes no thread that has ended
\* leaves MainOK alone.
LEMMA MainQuiet ==
  ASSUME MainOK, UNCHANGED mainVars, \A t \in begun : st[t] = "ended" => st'[t] = "ended"
  PROVE  MainOK'
  BY DEF MainOK, mainVars, AllEnded

\* A step inside Push or Pop of another than the accept thread leaves PopOK alone.
LEMMA PopQuiet ==
  ASSUME PopOK, LifeTypes, st' = st,
         \/ at' = at
         \/ \E t \in Users \ {Acceptor} : \E a : at' = [at EXCEPT ![t] = a]
  PROVE  PopOK' /\ LifeTypes'
  BY UsersFacts DEF PopOK, LifeTypes

\* A thread that has not ended goes on: MainOK holds, and PopOK if the accept
\* thread is not inside Pop afterwards.
LEMMA ThreadMoves ==
  ASSUME LifeInv, UNCHANGED mainVars,
         NEW t \in Threads, st[t] # "ended", NEW where, Goto(t, where),
         at' = at \/ \E a : at' = [at EXCEPT ![t] = a],
         t = Acceptor => at'[t] \notin {"PopNext", "PopCas", "empty", "got"}
  PROVE  LifeInv'
<1>1. LifeTypes' BY DEF LifeInv, LifeTypes, Goto
<1>2. \A u \in begun : st[u] = "ended" => st'[u] = "ended"
  BY DEF LifeInv, LifeTypes, Goto
<1>3. MainOK' BY <1>2, MainQuiet DEF LifeInv
<1>4. PopOK'
  <2>1. CASE t = Acceptor BY <2>1 DEF PopOK
  <2>2. CASE t # Acceptor BY <2>2, UsersFacts DEF LifeInv, LifeTypes, PopOK, Goto
  <2> QED BY <2>1, <2>2
<1> QED BY <1>1, <1>3, <1>4 DEF LifeInv, mainVars

----------------------------------------------------------------------------
\* The main thread in Start.
LEMMA StartKeeps ==
  ASSUME LifeInv, Started \/ StFails
  PROVE  LifeInv'
<1>1. CASE StPort \/ StListen \/ StRun \/ StFails
  <2>1. MainOK'
    BY <1>1 DEF StPort, StListen, StRun, StFails, MainGo, LifeInv, MainOK, AllEnded
  <2>2. at' = at /\ st' = st /\ begun' = begun
    BY <1>1 DEF StPort, StListen, StRun, StFails, stackVars, stackLocals
  <2> QED BY <2>1, <2>2, PopQuiet DEF LifeInv
<1>2. CASE StPush
  <2>1. MainOK' BY <1>2 DEF StPush, LifeInv, MainOK
  <2>2. st' = st /\ begun' = begun /\ at' = [at EXCEPT ![Main] = "PushRead"]
    BY <1>2 DEF StPush, PushAlloc, Move
  <2>3. Main \in Users \ {Acceptor} BY LifeAssumption, UsersFacts
  <2> QED BY <2>1, <2>2, <2>3, PopQuiet DEF LifeInv
<1>3. ASSUME NEW t \in Threads, StThread(t) PROVE LifeInv'
  <2>1. MainOK' BY <1>3 DEF StThread, MainGo, LifeInv, MainOK
  <2>2. at' = at /\ st' = st /\ begun' = begun \cup {t}
    BY <1>3 DEF StThread, stackVars, stackLocals
  <2> QED BY <1>3, <2>1, <2>2, PopQuiet DEF LifeInv
<1> QED BY <1>1, <1>2, <1>3 DEF Started

\* The main thread in Stop and the destructor.  Only SpWait needs the threads.
LEMMA StopKeeps ==
  ASSUME LifeInv, SpFlag \/ Stopped
  PROVE  LifeInv'
<1>1. at' = at /\ st' = st /\ begun' = begun
  BY DEF Stopped, SpFlag, SpListen, SpPost, SpWait, SpClean, SpPort, Destroy,
         FreeAll, stackVars, stackLocals
<1>2. MainOK'
  <2>1. CASE SpFlag \/ SpListen \/ SpPost
    BY <2>1 DEF SpFlag, SpListen, SpPost, MainGo, LifeInv, MainOK
  <2>2. CASE SpWait BY <2>2 DEF SpWait, MainGo, LifeInv, MainOK, AllEnded
  <2>3. CASE SpClean \/ SpPort \/ Destroy
    BY <2>3, <1>1 DEF SpClean, SpPort, Destroy, MainGo, LifeInv, MainOK, AllEnded
  <2> QED BY <2>1, <2>2, <2>3 DEF Stopped
<1> QED BY <1>1, <1>2, PopQuiet DEF LifeInv

\* The accept thread.
LEMMA AcceptKeeps ==
  ASSUME LifeInv, AcStep \/ Accept \/ AcceptFails
  PROVE  LifeInv'
<1> USE UsersFacts
<1>1. CASE AcTest \/ Accept \/ AcceptFails \/ AcOpen
  <2>1. PICK where :
          /\ Goto(Acceptor, where) /\ st[Acceptor] # "ended" /\ UNCHANGED mainVars
          /\ at' = at /\ at[Acceptor] = "out"
    BY <1>1 DEF AcTest, Accept, AcceptFails, AcOpen, At, stackVars, stackLocals
  <2> QED BY <2>1, ThreadMoves
<1>2. CASE AcPop
  <2>1. st[Acceptor] = "pop" /\ st' = st /\ UNCHANGED mainVars
    BY <1>2 DEF AcPop, At, lifeVars
  <2>2. PICK a : at' = [at EXCEPT ![Acceptor] = a]
    BY <1>2 DEF AcPop, PopTop, Move
  <2>3. MainOK' BY <2>1, MainQuiet DEF LifeInv
  <2> QED BY <2>1, <2>2, <2>3 DEF LifeInv, LifeTypes, PopOK, mainVars
<1>3. CASE AcFull \/ AcGot
  <2>1. PICK where : Goto(Acceptor, where) /\ UNCHANGED mainVars
    BY <1>3 DEF AcFull, AcGot
  <2>2. at[Acceptor] \in {"empty", "got"} /\ at' = [at EXCEPT ![Acceptor] = "out"]
    BY <1>3 DEF AcFull, AcGot, PopNothing, PopFree, Return, Move
  <2>3. st[Acceptor] = "pop" /\ at'[Acceptor] = "out"
    BY <2>2 DEF LifeInv, LifeTypes, PopOK
  <2> QED BY <2>1, <2>2, <2>3, ThreadMoves
<1>4. CASE AcReject
  <2>1. /\ Goto(Acceptor, "loop") /\ st[Acceptor] = "open" /\ UNCHANGED mainVars
        /\ at' = [at EXCEPT ![Acceptor] = "PushRead"]
    BY <1>4 DEF AcReject, At, PushAlloc, Move
  <2>2. at'[Acceptor] = "PushRead" BY <2>1 DEF LifeInv, LifeTypes
  <2> QED BY <2>1, <2>2, ThreadMoves
<1> QED BY <1>1, <1>2, <1>3, <1>4 DEF AcStep

\* The workers.
LEMMA WorkerKeeps ==
  ASSUME LifeInv, NEW t \in Workers, WkStep(t)
  PROVE  LifeInv'
<1> USE UsersFacts
<1>1. CASE TakeZero(t)
  <2>1. Goto(t, "ended") /\ st[t] = "loop" /\ UNCHANGED mainVars /\ at' = at
    BY <1>1 DEF TakeZero, Takes, At, stackVars, stackLocals
  <2> QED BY <2>1, ThreadMoves
<1>2. CASE Release(t)
  <2>1. /\ Goto(t, "loop") /\ st[t] = "release" /\ UNCHANGED mainVars
        /\ at' = [at EXCEPT ![t] = "PushRead"]
    BY <1>2 DEF Release, At, PushAlloc, Move
  <2> QED BY <2>1, ThreadMoves
<1>3. ASSUME NEW s \in Slots, NEW n \in Answers, TakeRecv(t, s, n) PROVE LifeInv'
  <2>1. UNCHANGED mainVars /\ at' = at /\ st' = st
    BY <1>3 DEF TakeRecv, stackVars, stackLocals
  <2>2. MainOK' BY <2>1, MainQuiet DEF LifeInv
  <2> QED BY <2>1, <2>2, PopQuiet DEF LifeInv, mainVars
<1>4. ASSUME NEW s \in Slots, NEW ty \in IoTypes, TakeSend(t, s) \/ TakeFailure(t, s, ty)
      PROVE LifeInv'
  <2>1. /\ UNCHANGED mainVars /\ at' = at /\ st[t] = "loop"
        /\ st' = st \/ Goto(t, "release")
    BY <1>4 DEF TakeSend, TakeFailure, Takes, At, Settle, stackVars, stackLocals
  <2>2. CASE Goto(t, "release") BY <2>1, <2>2, ThreadMoves
  <2>3. CASE st' = st
    <3>1. MainOK' BY <2>1, <2>3, MainQuiet DEF LifeInv
    <3> QED BY <2>1, <2>3, <3>1, PopQuiet DEF LifeInv, mainVars
  <2> QED BY <2>1, <2>2, <2>3
<1>5. "recv" \in IoTypes BY DEF IoTypes
<1> QED BY <1>1, <1>2, <1>3, <1>4, <1>5 DEF WkStep

\* A step inside Push or Pop, and Windows.
LEMMA SystemKeeps ==
  ASSUME LifeInv,
         \/ \E t \in Users : InStack(t)
         \/ \E s \in Slots, ty \in IoTypes, ok \in BOOLEAN : IoDone(s, ty, ok)
  PROVE  LifeInv'
<1>1. UNCHANGED mainVars /\ st' = st
  BY DEF InStack, IoDone, lifeVars
<1>2. MainOK' BY <1>1, MainQuiet DEF LifeInv
<1>3. CASE at' = at BY <1>1, <1>2, <1>3, PopQuiet DEF LifeInv, mainVars
<1>4. ASSUME NEW t \in Users, InStack(t) PROVE LifeInv'
  <2>1. PICK a :
          /\ at' = [at EXCEPT ![t] = a]
          /\ a \in {"PopNext", "PopCas", "empty", "got"}
             => at[t] \in {"PopNext", "PopCas", "empty", "got"}
    BY <1>4 DEF InStack, StackStep, PushRead, PushRetry, PushCas, PopNext, PopRetry,
                PopCas, Move, Return
  <2>2. LifeTypes' /\ PopOK'
    BY <1>1, <2>1, UsersFacts DEF LifeInv, LifeTypes, PopOK
  <2> QED BY <1>1, <1>2, <2>2 DEF LifeInv, mainVars
<1>5. ASSUME NEW s \in Slots, NEW ty \in IoTypes, NEW ok \in BOOLEAN, IoDone(s, ty, ok)
      PROVE at' = at
  BY <1>5 DEF IoDone, stackVars, stackLocals
<1> QED BY <1>3, <1>4, <1>5

----------------------------------------------------------------------------
\* The invariant is one.
LEMMA LifeInvariant == Spec => []LifeInv
<1>1. Init => LifeInv
  BY UsersFacts DEF Init, StackInit, LifeInv, LifeTypes, MainOK, PopOK, AllEnded
<1>2. LifeInv /\ [Next]_vars => LifeInv'
  <2> SUFFICES ASSUME LifeInv, [Next]_vars PROVE LifeInv' OBVIOUS
  <2>1. CASE UNCHANGED vars
    BY <2>1 DEF vars, stackVars, stackLocals, lifeVars, mainVars, LifeInv, LifeTypes,
                MainOK, PopOK, AllEnded
  <2>2. CASE Next
    BY <2>2, StartKeeps, StopKeeps, AcceptKeeps, WorkerKeeps, SystemKeeps DEF Next
  <2> QED BY <2>1, <2>2
<1> QED BY <1>1, <1>2, PTL DEF Spec

\* While a thread runs, the sessions and the port it works on are there: Stop
\* waits for all threads that Start began, however far Start came, and deletes
\* nothing before.
THEOREM NothingVanishes == Spec => []UseOnlyWhatExists
<1>1. LifeInv => UseOnlyWhatExists
  <2> SUFFICES ASSUME LifeInv, NEW t \in begun, st[t] # "ended" PROVE sessions /\ hcp
    BY DEF UseOnlyWhatExists
  <2>1. begun # {} /\ ~AllEnded BY DEF AllEnded
  <2> QED BY <2>1 DEF LifeInv, MainOK
<1> QED BY <1>1, LifeInvariant, PTL

----------------------------------------------------------------------------
(***************************************************************************)
(* Induction.                                                              *)
(***************************************************************************)

LEMMA LeastOf == \A T \in SUBSET Nat : T # {} => \E x \in T : \A y \in T : x <= y
<1> DEFINE R == {p \in Nat \X Nat : p[1] < p[2]}
<1>1. IsWellFoundedOn(R, Nat)
  BY NatLessThanWellFounded DEF OpToRel
<1>2. ASSUME NEW T \in SUBSET Nat, T # {}
      PROVE  \E x \in T : \A y \in T : x <= y
  <2>1. PICK x \in T : \A y \in T : ~ (<<y, x>> \in R)
    <3>1. T \subseteq Nat /\ T # {}
      BY <1>2
    <3> HIDE DEF R
    <3> QED BY <1>1, <3>1, WFMin, Zenon
  <2>2. \A y \in T : ~(y < x)
    BY <2>1
  <2> HIDE DEF R
  <2>3. \A y \in T : x <= y
    BY <1>2, <2>2
  <2> QED BY <2>3
<1> QED BY <1>2

LEMMA Induction ==
  ASSUME NEW S \in SUBSET Nat, 0 \in S, \A n \in S : n + 1 \in S
  PROVE  S = Nat
<1> DEFINE T == Nat \ S
<1>1. SUFFICES ASSUME T # {} PROVE FALSE
  OBVIOUS
<1>2. PICK x \in T : \A y \in T : x <= y
  BY <1>1, LeastOf
<1>3. x # 0 /\ x - 1 \in Nat
  BY <1>2
<1>4. x - 1 \in S
  BY <1>2, <1>3
<1> QED BY <1>2, <1>4

\* What holds for sets of each size holds for all.
LEMMA SizeInduction ==
  ASSUME NEW S, IsFiniteSet(S), NEW F \in SUBSET SUBSET S, {} \in F,
         \A T \in SUBSET S : T # {} /\ (\A x \in T : T \ {x} \in F) => T \in F
  PROVE  F = SUBSET S
<1> DEFINE G == {n \in Nat : \A T \in SUBSET S : Cardinality(T) = n => T \in F}
<1>1. \A T \in SUBSET S : IsFiniteSet(T) /\ Cardinality(T) \in Nat
  BY FS_Subset, FS_CardinalityType
<1>2. 0 \in G
  BY <1>1, FS_EmptySet
<1>3. ASSUME NEW n \in G
      PROVE  n + 1 \in G
  <2>1. ASSUME NEW T \in SUBSET S, Cardinality(T) = n + 1
        PROVE  T \in F
    <3>1. T # {}
      BY <1>1, <2>1, FS_EmptySet
    <3>2. ASSUME NEW x \in T
          PROVE  T \ {x} \in F
      <4>1. Cardinality(T \ {x}) = n
        BY <1>1, <2>1, FS_RemoveElement
      <4> QED
        BY <4>1
    <3> QED
      BY <3>1, <3>2
  <2> QED
    BY <2>1
<1>4. G = Nat
  <2> HIDE DEF G
  <2>1. G \in SUBSET Nat
    BY DEF G
  <2> QED
    BY <1>2, <1>3, <2>1, Induction
<1> QED
  BY <1>1, <1>4

----------------------------------------------------------------------------
(***************************************************************************)
(* Sums.                                                                   *)
(***************************************************************************)

Packets(a, b, T) == MapThenSumSet(LAMBDA s : a[s] + b[s], T)

Pick(s) == CHOOSE x \in s : TRUE

\* How MapThenSumSet counts: g is the sum of each subset of S.
Sums(a, b, S, g) ==
  g = [s \in SUBSET S |-> IF s = {} THEN 0
                          ELSE a[Pick(s)] + b[Pick(s)] + g[s \ {Pick(s)}]]

LEMMA PickIn == ASSUME NEW s, s # {} PROVE Pick(s) \in s
  BY DEF Pick

LEMMA SumsExist ==
  ASSUME NEW a, NEW b, NEW S, IsFiniteSet(S)
  PROVE  \E g : Sums(a, b, S, g)
<1> DEFINE Up(n) == {s \in SUBSET S : Cardinality(s) <= n}
           Body(g, s) == IF s = {} THEN 0 ELSE a[Pick(s)] + b[Pick(s)] + g[s \ {Pick(s)}]
           G == {n \in Nat : \E g : g = [s \in Up(n) |-> Body(g, s)]}
<1>1. \A T \in SUBSET S : IsFiniteSet(T) /\ Cardinality(T) \in Nat
  BY FS_Subset, FS_CardinalityType
<1>2. 0 \in G
  <2>1. Up(0) = {{}}
    BY <1>1, FS_EmptySet
  <2>2. [s \in Up(0) |-> 0] = [s \in Up(0) |-> Body([t \in Up(0) |-> 0], s)]
    BY <2>1
  <2> QED
    BY <2>2
<1>3. ASSUME NEW n \in G
      PROVE  n + 1 \in G
  <2>1. PICK g : g = [s \in Up(n) |-> Body(g, s)]
    OBVIOUS
  <2> DEFINE h == [s \in Up(n + 1) |-> Body(g, s)]
  <2>2. ASSUME NEW s \in Up(n + 1), s # {}
        PROVE  s \ {Pick(s)} \in Up(n) /\ s \ {Pick(s)} \in Up(n + 1)
    BY <1>1, <2>2, PickIn, FS_RemoveElement
  <2>3. \A s \in Up(n) : s \in Up(n + 1)
    BY <1>1
  <2>4. \A s \in Up(n) : h[s] = g[s]
    <3> HIDE DEF Body, Up
    <3>1. \A s \in Up(n) : h[s] = Body(g, s)
      BY <2>3
    <3>2. \A s \in Up(n) : g[s] = Body(g, s)
      BY <2>1, Zenon
    <3> QED
      BY <3>1, <3>2
  <2>5. \A s \in Up(n + 1) : h[s] = Body(h, s)
    <3> TAKE s \in Up(n + 1)
    <3>1. h[s] = Body(g, s)
      OBVIOUS
    <3> HIDE DEF h, Up
    <3>2. CASE s = {}
      BY <3>1, <3>2
    <3>3. CASE s # {}
      <4>1. h[s \ {Pick(s)}] = g[s \ {Pick(s)}]
        BY <2>2, <2>4, <3>3
      <4> QED
        BY <3>1, <3>3, <4>1
    <3> QED
      BY <3>2, <3>3
  <2>6. h = [s \in Up(n + 1) |-> Body(h, s)]
    <3>1. h = [s \in Up(n + 1) |-> h[s]]
      OBVIOUS
    <3> HIDE DEF h, Body, Up
    <3> QED
      BY <2>5, <3>1
  <2>7. \E f : f = [s \in Up(n + 1) |-> Body(f, s)]
    <3> HIDE DEF h, Body, Up
    <3> QED
      BY <2>6, Zenon
  <2>8. n + 1 \in Nat
    OBVIOUS
  <2> HIDE DEF Body, Up
  <2> QED
    BY <2>7, <2>8, Zenon
<1>4. G = Nat
  <2> HIDE DEF G
  <2>1. G \in SUBSET Nat
    BY DEF G
  <2> QED
    BY <1>2, <1>3, <2>1, Induction
<1>5. Up(Cardinality(S)) = SUBSET S
  <2>1. \A T \in SUBSET S : Cardinality(T) <= Cardinality(S)
    BY FS_Subset
  <2> QED
    BY <2>1
<1>6. Cardinality(S) \in G
  BY <1>1, <1>4
<1> QED
  BY <1>5, <1>6 DEF Sums

\* Sums over subsets do not depend on the set they are taken from.
LEMMA SumsAgree ==
  ASSUME NEW a, NEW b, NEW S, NEW T, IsFiniteSet(S), T \subseteq S,
         NEW g, NEW h, Sums(a, b, S, g), Sums(a, b, T, h)
  PROVE  \A s \in SUBSET T : g[s] = h[s]
<1> DEFINE F == {s \in SUBSET T : g[s] = h[s]}
<1>1. IsFiniteSet(T)
  BY FS_Subset
<1>2. {} \in F
  BY DEF Sums
<1>3. ASSUME NEW s \in SUBSET T, s # {}, \A x \in s : s \ {x} \in F
      PROVE  s \in F
  <2>1. Pick(s) \in s
    BY <1>3, PickIn
  <2>2. g[s \ {Pick(s)}] = h[s \ {Pick(s)}]
    BY <1>3, <2>1
  <2>3. g[s] = a[Pick(s)] + b[Pick(s)] + g[s \ {Pick(s)}]
    BY <1>3 DEF Sums
  <2>4. h[s] = a[Pick(s)] + b[Pick(s)] + h[s \ {Pick(s)}]
    BY <1>3 DEF Sums
  <2> QED
    BY <2>2, <2>3, <2>4
<1>4. F = SUBSET T
  <2> HIDE DEF F
  <2>1. F \in SUBSET SUBSET T
    BY DEF F
  <2> QED
    BY <1>1, <1>2, <1>3, <2>1, SizeInduction
<1> QED
  BY <1>4

LEMMA PacketsSum ==
  ASSUME NEW a, NEW b, NEW T, IsFiniteSet(T)
  PROVE  \E g : Sums(a, b, T, g) /\ Packets(a, b, T) = g[T]
<1> DEFINE g == CHOOSE g : Sums(a, b, T, g)
<1>1. Sums(a, b, T, g)
  <2> HIDE DEF Sums
  <2> QED
    BY SumsExist
<1>2. Packets(a, b, T) = g[T]
  BY DEF Packets, MapThenSumSet, MapThenFoldSet, Pick, Sums
<1> QED
  BY <1>1, <1>2

LEMMA PacketsPick ==
  ASSUME NEW a, NEW b, NEW T, IsFiniteSet(T), T # {}
  PROVE  Packets(a, b, T) = a[Pick(T)] + b[Pick(T)] + Packets(a, b, T \ {Pick(T)})
<1> DEFINE U == T \ {Pick(T)}
<1>1. IsFiniteSet(U) /\ U \subseteq T
  BY FS_Subset
<1>2. PICK g : Sums(a, b, T, g) /\ Packets(a, b, T) = g[T]
  BY PacketsSum
<1>3. PICK h : Sums(a, b, U, h) /\ Packets(a, b, U) = h[U]
  BY <1>1, PacketsSum
<1>4. g[T] = a[Pick(T)] + b[Pick(T)] + g[U]
  BY <1>2 DEF Sums
<1>5. g[U] = h[U]
  <2> HIDE DEF U
  <2> QED
    BY <1>1, <1>2, <1>3, SumsAgree
<1> QED
  BY <1>2, <1>3, <1>4, <1>5

LEMMA PacketsNone == \A a, b : Packets(a, b, {}) = 0
<1> SUFFICES ASSUME NEW a, NEW b PROVE Packets(a, b, {}) = 0
  OBVIOUS
<1>1. PICK g : Sums(a, b, {}, g) /\ Packets(a, b, {}) = g[{}]
  BY PacketsSum, FS_EmptySet
<1> QED
  BY <1>1 DEF Sums

\* Whichever is taken out first.
LEMMA PacketsTake ==
  ASSUME NEW S, IsFiniteSet(S), NEW a \in [S -> Nat], NEW b \in [S -> Nat]
  PROVE  \A T \in SUBSET S :
           /\ Packets(a, b, T) \in Nat
           /\ \A x \in T : /\ Packets(a, b, T \ {x}) \in Nat
                         /\ Packets(a, b, T) = a[x] + b[x] + Packets(a, b, T \ {x})
<1> DEFINE F == {T \in SUBSET S :
                   /\ Packets(a, b, T) \in Nat
                   /\ \A x \in T : /\ Packets(a, b, T \ {x}) \in Nat
                                 /\ Packets(a, b, T) = a[x] + b[x] + Packets(a, b, T \ {x})}
<1>1. {} \in F
  BY PacketsNone
<1>2. ASSUME NEW T \in SUBSET S, T # {}, \A x \in T : T \ {x} \in F
      PROVE  T \in F
  <2> DEFINE p == Pick(T)
  <2>1. p \in T
    BY <1>2, PickIn
  <2>2. \A x \in T : IsFiniteSet(T \ {x})
    BY FS_Subset
  <2>3. Packets(a, b, T) = a[p] + b[p] + Packets(a, b, T \ {p})
    BY <1>2, FS_Subset, PacketsPick
  <2> HIDE DEF p
  <2>4. \A x \in T : /\ a[x] \in Nat /\ b[x] \in Nat
                     /\ Packets(a, b, T \ {x}) \in Nat
    BY <1>2
  <2>5. ASSUME NEW x \in T, x # p
        PROVE  Packets(a, b, T) = a[x] + b[x] + Packets(a, b, T \ {x})
    <3>1. Packets(a, b, T \ {p}) = a[x] + b[x] + Packets(a, b, (T \ {p}) \ {x})
      BY <1>2, <2>1, <2>5
    <3>2. Packets(a, b, T \ {x}) = a[p] + b[p] + Packets(a, b, (T \ {x}) \ {p})
      BY <1>2, <2>1, <2>5
    <3>3. (T \ {p}) \ {x} = (T \ {x}) \ {p}
      OBVIOUS
    <3>4. PICK k : k = Packets(a, b, (T \ {x}) \ {p})
      OBVIOUS
    <3>5. Packets(a, b, T \ {p}) = a[x] + b[x] + k /\ Packets(a, b, T \ {x}) = a[p] + b[p] + k
      BY <3>1, <3>2, <3>3, <3>4
    <3>6. k \in Nat
      <4>1. \A U \in F : \A y \in U : Packets(a, b, U \ {y}) \in Nat
        OBVIOUS
      <4>2. T \ {x} \in F /\ p \in T \ {x}
        BY <1>2, <2>1, <2>5
      <4> HIDE DEF F
      <4> QED
        BY <3>4, <4>1, <4>2, Zenon
    <3>7. /\ Packets(a, b, T) = a[p] + b[p] + (a[x] + b[x] + k)
          /\ a[x] + b[x] + Packets(a, b, T \ {x}) = a[x] + b[x] + (a[p] + b[p] + k)
      BY <2>3, <3>5, Zenon
    <3>8. a[p] \in Nat /\ b[p] \in Nat /\ a[x] \in Nat /\ b[x] \in Nat
      BY <2>1, <2>4
    <3> QED
      BY <3>6, <3>7, <3>8
  <2>6. \A x \in T : /\ Packets(a, b, T \ {x}) \in Nat
                     /\ Packets(a, b, T) = a[x] + b[x] + Packets(a, b, T \ {x})
    BY <2>3, <2>4, <2>5, Zenon
  <2>7. Packets(a, b, T) \in Nat
    BY <2>1, <2>3, <2>4
  <2> QED
    BY <2>6, <2>7, Zenon
<1>3. F = SUBSET S
  <2> HIDE DEF F
  <2>1. F \in SUBSET SUBSET S
    BY DEF F
  <2> QED
    BY <1>1, <1>2, <2>1, SizeInduction
<1> QED
  BY <1>3

\* Equal where they are taken.
LEMMA PacketsSame ==
  ASSUME NEW S, IsFiniteSet(S), NEW a \in [S -> Nat], NEW b \in [S -> Nat],
         NEW c \in [S -> Nat], NEW d \in [S -> Nat]
  PROVE  \A T \in SUBSET S : (\A x \in T : a[x] = c[x] /\ b[x] = d[x])
           => Packets(a, b, T) = Packets(c, d, T)
<1> DEFINE F == {T \in SUBSET S : (\A x \in T : a[x] = c[x] /\ b[x] = d[x])
                                  => Packets(a, b, T) = Packets(c, d, T)}
<1>1. {} \in F
  BY PacketsNone
<1>2. ASSUME NEW T \in SUBSET S, T # {}, \A x \in T : T \ {x} \in F
      PROVE  T \in F
  <2>1. SUFFICES ASSUME \A x \in T : a[x] = c[x] /\ b[x] = d[x]
                 PROVE  Packets(a, b, T) = Packets(c, d, T)
    OBVIOUS
  <2>2. PICK x \in T : TRUE
    BY <1>2
  <2>3. Packets(a, b, T) = a[x] + b[x] + Packets(a, b, T \ {x})
    BY PacketsTake
  <2>4. Packets(c, d, T) = c[x] + d[x] + Packets(c, d, T \ {x})
    BY PacketsTake
  <2>5. Packets(a, b, T \ {x}) = Packets(c, d, T \ {x})
    BY <1>2, <2>1
  <2> QED
    BY <2>1, <2>3, <2>4, <2>5
<1>3. F = SUBSET S
  <2> HIDE DEF F
  <2>1. F \in SUBSET SUBSET S
    BY DEF F
  <2> QED
    BY <1>1, <1>2, <2>1, SizeInduction
<1> QED
  BY <1>3

\* Where there is nothing, nothing counts.
LEMMA PacketsRest ==
  ASSUME NEW S, IsFiniteSet(S), NEW a \in [S -> Nat], NEW b \in [S -> Nat],
         NEW U \in SUBSET S, \A x \in S \ U : a[x] = 0 /\ b[x] = 0
  PROVE  Packets(a, b, S) = Packets(a, b, U)
<1> DEFINE F == {T \in SUBSET S : Packets(a, b, T) = Packets(a, b, T \cap U)}
<1>1. {} \in F
  BY PacketsNone
<1>2. ASSUME NEW T \in SUBSET S, T # {}, \A x \in T : T \ {x} \in F
      PROVE  T \in F
  <2>1. CASE T \subseteq U
    <3>1. T \cap U = T
      BY <2>1
    <3> QED
      BY <3>1
  <2>2. ASSUME NEW x \in T \ U
        PROVE  T \in F
    <3>1. Packets(a, b, T) = a[x] + b[x] + Packets(a, b, T \ {x}) /\ Packets(a, b, T \ {x}) \in Nat
      BY PacketsTake
    <3>2. a[x] = 0 /\ b[x] = 0
      OBVIOUS
    <3>3. Packets(a, b, T \ {x}) = Packets(a, b, (T \ {x}) \cap U)
      BY <1>2
    <3>4. (T \ {x}) \cap U = T \cap U
      OBVIOUS
    <3>5. Packets(a, b, T) = Packets(a, b, T \ {x})
      BY <3>1, <3>2
    <3>6. Packets(a, b, T) = Packets(a, b, T \cap U)
      BY <3>3, <3>4, <3>5, Zenon
    <3> QED
      BY <3>6, Zenon
  <2>3. T \subseteq U \/ \E x : x \in T \ U
    OBVIOUS
  <2> HIDE DEF F
  <2> QED
    BY <2>1, <2>2, <2>3, Zenon
<1>3. F = SUBSET S
  <2> HIDE DEF F
  <2>1. F \in SUBSET SUBSET S
    BY DEF F
  <2> QED
    BY <1>1, <1>2, <2>1, SizeInduction
<1>4. S \cap U = U
  OBVIOUS
<1> QED
  BY <1>3, <1>4

\* One slot changes.
LEMMA PacketsChange ==
  ASSUME NEW S, IsFiniteSet(S), NEW a \in [S -> Nat], NEW b \in [S -> Nat],
         NEW c \in [S -> Nat], NEW d \in [S -> Nat], NEW x \in S,
         \A y \in S \ {x} : a[y] = c[y] /\ b[y] = d[y]
  PROVE  Packets(c, d, S) = Packets(a, b, S) - a[x] - b[x] + c[x] + d[x]
<1>1. Packets(a, b, S) = a[x] + b[x] + Packets(a, b, S \ {x}) /\ Packets(a, b, S \ {x}) \in Nat
  BY PacketsTake
<1>2. Packets(c, d, S) = c[x] + d[x] + Packets(c, d, S \ {x})
  BY PacketsTake
<1>3. Packets(a, b, S \ {x}) = Packets(c, d, S \ {x})
  BY PacketsSame
<1>4. a[x] \in Nat /\ b[x] \in Nat /\ c[x] \in Nat /\ d[x] \in Nat
  OBVIOUS
<1> QED
  BY <1>1, <1>2, <1>3, <1>4
----------------------------------------------------------------------------
(***************************************************************************)
(* The invariant of the indices and of the packets.                        *)
(***************************************************************************)

\* Inside Push with a node, inside Pop before and after its compare-and-swap.
Pushing == {"PushRead", "PushCas"}
Popping == {"PopNext", "PopCas"}

Word == [tag : Int, ptr : Nodes \cup {NoNode}]

StackType ==
  /\ top \in Word /\ below \in [Nodes -> Nodes \cup {NoNode}]
  /\ data \in [Nodes -> Slots \cup {Nothing}] /\ free \subseteq Nodes
  /\ at \in [Users -> {"out", "empty", "got"} \cup Pushing \cup Popping]
  /\ node \in [Users -> Nodes \cup {NoNode}]
  /\ topSeen \in [Users -> Word] /\ belowSeen \in [Users -> Nodes \cup {NoNode}]

\* A node in hand, and what a thread knows of it.  The accept thread alone pops.
HandOK(t) ==
  /\ node[t] # NoNode <=> at[t] \in Pushing \cup {"got"}
  /\ at[t] \in Popping \cup {"empty", "got"} => t = Acceptor
  /\ at[t] = "PushCas" => below[node[t]] = topSeen[t].ptr
  /\ at[t] = "PopCas" => belowSeen[t] = below[topSeen[t].ptr]

\* c is the stack: its nodes from _Top down, none of them twice.
Places(c) == 1 .. Len(c)
On(c) == {c[i] : i \in Places(c)}

Linked(c) ==
  /\ c \in Seq(Nodes)
  /\ \A i, j \in Places(c) : c[i] = c[j] => i = j
  /\ top.ptr = IF c = <<>> THEN NoNode ELSE c[1]
  /\ \A i \in Places(c) : below[c[i]] = IF i = Len(c) THEN NoNode ELSE c[i + 1]

\* Nodes are in one place, and what Pop has seen is still on the stack.
Apart(c) ==
  /\ free \cap On(c) = {}
  /\ \A t \in Users : node[t] \in Nodes => 
       /\ node[t] \notin free /\ node[t] \notin On(c)
       /\ \A u \in Users : node[u] = node[t] => u = t
  /\ at[Acceptor] \in Popping => topSeen[Acceptor].ptr \in On(c)

\* The nodes whose value counts, those with the value s, and where else s is.
Counts(c) == On(c) \cup ({node[t] : t \in Users} \ {NoNode})
With(c, s) == {n \in Counts(c) : data[n] = s}

Elsewhere(s) == (IF s \in toPush \/ live[s] THEN 1 ELSE 0) + (IF work[Acceptor] = s THEN 1 ELSE 0)

Placed(c, s) ==
  /\ s \in toPush => ~live[s]
  /\ \/ Elsewhere(s) = 0 /\ \E n \in Nodes : With(c, s) = {n}
     \/ Elsewhere(s) = 1 /\ With(c, s) = {}

Whole(c) ==
  /\ Linked(c) /\ Apart(c)
  /\ \A n \in Counts(c) : data[n] \in Slots
  /\ \A s \in Slots : Placed(c, s)

StackInv == StackType /\ (\A t \in Users : HandOK(t)) /\ \E c \in Seq(Nodes) : Whole(c)

Completions == [slot : Int, type : IoTypes \cup {"zero"}, ok : BOOLEAN]

SessionType ==
  /\ toPush \subseteq Slots
  /\ st \in [Threads -> {"loop", "accept", "pop", "open", "release", "ended"}]
  /\ work \in [Threads -> Slots \cup {-1}]
  /\ port \in Seq(Completions)
  /\ live \in [Slots -> BOOLEAN] /\ isSending \in [Slots -> BOOLEAN]
  /\ io \in [Slots -> [IoTypes -> {"none", "posted", "done"}]]
  /\ sending \in [Slots -> Nat] /\ queued \in [Slots -> Nat]

\* The index in hand.
WorkOK ==
  /\ work[Acceptor] # -1 <=> st[Acceptor] = "open"
  /\ \A t \in Workers : st[t] = "release" =>
       /\ work[t] \in Slots /\ live[work[t]]
       /\ \A ty \in IoTypes : io[work[t]][ty] = "none"
       /\ \A u \in Workers : st[u] = "release" /\ work[u] = work[t] => u = t

\* Nothing of a session that is not live is under way or left.
DeadOK ==
  \A s \in Slots :
    /\ ~live[s] => /\ sending[s] = 0 /\ queued[s] = 0
                   /\ \A ty \in IoTypes : io[s][ty] = "none"
    /\ ~isSending[s] => sending[s] = 0 /\ io[s]["send"] = "none"

\* One completion for each operation that is done.
PortOK ==
  \A i \in 1 .. Len(port) : port[i] # Zero =>
    /\ port[i].slot \in Slots /\ port[i].type \in IoTypes
    /\ io[port[i].slot][port[i].type] = "done"
    /\ \A j \in 1 .. Len(port) :
         port[j].slot = port[i].slot /\ port[j].type = port[i].type => j = i

SessionInv == SessionType /\ WorkOK /\ DeadOK /\ PortOK

\* What a step keeps while there is a stack; the destructor is the end of it.
Exact == StackInv /\ SessionInv /\ PacketsExact
ExactInv == PacketsExact /\ (main # "freed" => StackInv /\ SessionInv)
----------------------------------------------------------------------------
(***************************************************************************)
(* The stack.                                                              *)
(***************************************************************************)

LEMMA MakeWord == \A k \in Int : \A p : Make(k, p).ptr = p /\ (Make(k, p).tag \in Int)
<1> SUFFICES ASSUME NEW k \in Int, NEW p
             PROVE  Make(k, p).ptr = p /\ Make(k, p).tag \in Int
  OBVIOUS
<1>1. TagLimit \in Nat \ {0}
  BY StackAssumption
<1>2. k % TagLimit \in Int
  BY <1>1
<1> QED
  BY <1>2 DEF Make

LEMMA MakeIs == ASSUME NEW k \in Int, NEW p \in Nodes \cup {NoNode}
                PROVE  Make(k, p) \in Word
<1>1. k % TagLimit \in Int
  BY StackAssumption
<1> QED
  BY <1>1 DEF Make, Word

\* Going down from _Top as OnStack does, one sees what is on c.
LEMMA OnStackIs ==
  ASSUME NEW c, Linked(c), below \in [Nodes -> Nodes \cup {NoNode}], top \in Word,
         Len(c) <= Cardinality(Nodes), Cardinality(Nodes) \in Nat
  PROVE  OnStack = On(c)
<1> DEFINE N == Cardinality(Nodes)
           Body(f, k) == IF k = 0 THEN {top.ptr} \ {NoNode}
                         ELSE f[k - 1] \cup ({below[n] : n \in f[k - 1]} \ {NoNode})
           Down(k) == {c[i] : i \in {j \in Places(c) : j <= k + 1}}
           Is(f) == f = [k \in 0 .. N |-> Body(f, k)]
           g == [k \in 0 .. N |-> Down(k)]
           Reach == CHOOSE f : Is(f)
<1>1. OnStack = Reach[N]
  BY DEF OnStack
<1>2. c \in Seq(Nodes) /\ Len(c) \in Nat /\ (\A i \in Places(c) : c[i] \in Nodes) /\ NoNode \notin Nodes
  BY StackAssumption DEF Linked, Places
<1>3. Down(0) = {top.ptr} \ {NoNode}
  <2>1. CASE c = <<>>
    <3>1. Places(c) = {} /\ top.ptr = NoNode
      BY <2>1 DEF Places, Linked
    <3> QED
      BY <3>1
  <2>2. CASE c # <<>>
    <3>1. 1 \in Places(c) /\ top.ptr = c[1] /\ c[1] # NoNode
      BY <1>2, <2>2 DEF Places, Linked
    <3>2. {j \in Places(c) : j <= 0 + 1} = {1}
      BY <3>1 DEF Places
    <3> QED
      BY <3>1, <3>2
  <2> QED
    BY <2>1, <2>2
<1>4. ASSUME NEW k \in 1 .. N
      PROVE  Down(k) = Down(k - 1) \cup ({below[n] : n \in Down(k - 1)} \ {NoNode})
  <2>1. \A i \in Places(c) : below[c[i]] = IF i = Len(c) THEN NoNode ELSE c[i + 1]
    BY DEF Linked
  <2>2. ASSUME NEW n \in Down(k)
        PROVE  n \in Down(k - 1) \cup ({below[m] : m \in Down(k - 1)} \ {NoNode})
    <3>1. PICK i \in Places(c) : i <= k + 1 /\ n = c[i]
      BY <2>2
    <3>2. CASE i <= k
      BY <3>1, <3>2
    <3>3. CASE i = k + 1
      <4>1. i - 1 \in Places(c) /\ i - 1 <= (k - 1) + 1 /\ i - 1 # Len(c) /\ (i - 1) + 1 = i
        BY <1>2, <3>1, <3>3 DEF Places
      <4>2. below[c[i - 1]] = n /\ c[i - 1] \in Down(k - 1) /\ n # NoNode
        BY <1>2, <2>1, <3>1, <4>1
      <4> QED
        BY <4>2
    <3> QED
      BY <3>1, <3>2, <3>3 DEF Places
  <2>3. ASSUME NEW m \in Down(k - 1), below[m] # NoNode
        PROVE  below[m] \in Down(k)
    <3>1. PICK i \in Places(c) : i <= (k - 1) + 1 /\ m = c[i]
      BY <2>3
    <3>2. i # Len(c) /\ below[m] = c[i + 1]
      BY <2>1, <2>3, <3>1
    <3>3. i + 1 \in Places(c) /\ i + 1 <= k + 1
      BY <1>2, <3>1, <3>2 DEF Places
    <3> QED
      BY <3>2, <3>3
  <2>4. Down(k - 1) \subseteq Down(k)
    <3>1. \A j \in Places(c) : j <= (k - 1) + 1 => j <= k + 1
      BY <1>2 DEF Places
    <3> QED
      BY <3>1
  <2> HIDE DEF Down
  <2> QED
    BY <2>2, <2>3, <2>4
<1>5. Is(g)
  <2>1. ASSUME NEW k \in 0 .. N
        PROVE  Down(k) = Body(g, k)
    <3>1. CASE k = 0
      BY <1>3, <3>1
    <3>2. CASE k # 0
      <4>1. k \in 1 .. N /\ k - 1 \in 0 .. N
        BY <3>2
      <4> HIDE DEF Down
      <4>2. g[k - 1] = Down(k - 1)
        BY <4>1
      <4> HIDE DEF g
      <4> QED
        BY <1>4, <3>2, <4>1, <4>2
    <3> QED
      BY <3>1, <3>2
  <2> HIDE DEF Down, Body
  <2> QED
    BY <2>1
<1>6. Is(Reach)
  <2> HIDE DEF Is, g
  <2> QED
    BY <1>5
<1>7. \A k \in 0 .. N : Reach[k] = Down(k)
  <2> DEFINE G == {k \in Nat : k <= N => Reach[k] = Down(k)}
  <2>1. \A k \in 0 .. N : Reach[k] = Body(Reach, k)
    <3> HIDE DEF Body, Reach
    <3> QED
      BY <1>6
  <2> HIDE DEF Reach, Down
  <2>2. 0 \in G
    <3>1. Reach[0] = {top.ptr} \ {NoNode}
      <4>1. Reach[0] = Body(Reach, 0)
        <5>1. 0 \in 0 .. N
          OBVIOUS
        <5> HIDE DEF Body, N
        <5> QED
          BY <2>1, <5>1
      <4> QED
        BY <4>1
    <3> QED
      BY <1>3, <3>1
  <2>3. ASSUME NEW k \in G
        PROVE  k + 1 \in G
    <3>1. CASE k + 1 <= N
      <4>1. Reach[k] = Down(k) /\ k + 1 \in 1 .. N /\ (k + 1) - 1 = k /\ k + 1 \in 0 .. N
        BY <3>1
      <4>2. Reach[k + 1] = Reach[k] \cup ({below[n] : n \in Reach[k]} \ {NoNode})
        <5>1. Reach[k + 1] = Body(Reach, k + 1) /\ k + 1 # 0
          <6>1. k + 1 # 0
            BY <4>1
          <6> HIDE DEF Body, N
          <6> QED
            BY <2>1, <4>1, <6>1
        <5>2. Body(Reach, k + 1) = Reach[(k + 1) - 1] \cup ({below[n] : n \in Reach[(k + 1) - 1]} \ {NoNode})
          BY <5>1
        <5> QED
          BY <4>1, <5>1, <5>2
      <4>3. Down(k + 1) = Down((k + 1) - 1) \cup ({below[n] : n \in Down((k + 1) - 1)} \ {NoNode})
        BY <1>4, <4>1, Zenon
      <4>4. Down(k + 1) = Down(k) \cup ({below[n] : n \in Down(k)} \ {NoNode})
        BY <4>1, <4>3
      <4>5. Reach[k + 1] = Down(k + 1)
        BY <4>1, <4>2, <4>4
      <4> QED
        BY <4>1, <4>5
    <3>2. CASE ~(k + 1 <= N)
      BY <3>2
    <3> QED
      BY <3>1, <3>2
  <2>4. G = Nat
    <3> HIDE DEF G
    <3>1. G \in SUBSET Nat
      BY DEF G
    <3> QED
      BY <2>2, <2>3, <3>1, Induction
  <2> QED
    BY <2>4
<1>8. Down(N) = On(c)
  <2>1. \A j \in Places(c) : j <= N + 1
    BY <1>2 DEF Places
  <2> QED
    BY <2>1 DEF On
<1>9. N \in 0 .. N
  OBVIOUS
<1> HIDE DEF Down, Reach, N
<1> QED
  BY <1>1, <1>7, <1>8, <1>9

\* As many nodes as a sequence without repetition has, there are.
LEMMA LengthFits ==
  ASSUME NEW c, Linked(c)
  PROVE  Len(c) <= Cardinality(Nodes) /\ Cardinality(Nodes) \in Nat
<1>1. c \in Seq(Nodes) /\ Len(c) \in Nat /\ \A i \in Places(c) : c[i] \in Nodes
  BY DEF Linked, Places
<1>2. IsFiniteSet(Places(c)) /\ Cardinality(Places(c)) = Len(c)
  <2>1. IsFiniteSet(1 .. Len(c)) /\ Cardinality(1 .. Len(c)) = IF 1 > Len(c) THEN 0 ELSE Len(c) - 1 + 1
    BY <1>1, FS_Interval
  <2> QED
    BY <1>1, <2>1 DEF Places
<1>3. IsFiniteSet(Nodes) /\ Cardinality(Nodes) \in Nat
  BY StackAssumption, FS_CardinalityType
<1> DEFINE f == [i \in Places(c) |-> c[i]]
<1>4. f \in [Places(c) -> Nodes]
  BY <1>1
<1>5. \A i, j \in Places(c) : f[i] = f[j] => i = j
  BY DEF Linked
<1>6. ~(Cardinality(Nodes) < Cardinality(Places(c)))
  <2> HIDE DEF f
  <2> QED
    BY <1>2, <1>3, <1>4, <1>5, FS_PigeonHole
<1> QED
  BY <1>1, <1>2, <1>3, <1>6

LEMMA IndicesExact ==
  ASSUME StackInv
  PROVE  \A s \in Slots : Copies(s) = 1
<1>1. PICK c \in Seq(Nodes) : Whole(c)
  BY DEF StackInv
<1>2. OnStack = On(c)
  BY <1>1, OnStackIs, LengthFits DEF StackInv, StackType, Whole
<1>3. Held = Counts(c)
  BY <1>2 DEF Held, Counts
<1>4. ASSUME NEW s \in Slots
      PROVE  Copies(s) = 1
  <2>1. Copies(s) = Cardinality(With(c, s)) + (IF s \in toPush \/ live[s] THEN 1 ELSE 0)
                    + (IF work[Acceptor] = s THEN 1 ELSE 0)
    BY <1>3 DEF Copies, With
  <2>2. Placed(c, s)
    BY <1>1 DEF Whole
  <2>3. CASE Elsewhere(s) = 0 /\ \E n \in Nodes : With(c, s) = {n}
    <3>1. Cardinality(With(c, s)) = 1
      BY <2>3, FS_Singleton
    <3> QED
      BY <2>1, <2>3, <3>1 DEF Elsewhere
  <2>4. CASE Elsewhere(s) = 1 /\ With(c, s) = {}
    <3>1. Cardinality(With(c, s)) = 0
      BY <2>4, FS_EmptySet
    <3> QED
      BY <2>1, <2>4, <3>1 DEF Elsewhere
  <2> QED
    BY <2>2, <2>3, <2>4 DEF Placed
<1> QED
  BY <1>4

\* A step that leaves the values and the indices alone, and takes c to d.
LEMMA WholeKept ==
  ASSUME NEW c, NEW d, Whole(c), Linked(d)', Apart(d)', Counts(d)' = Counts(c),
         \A n \in Counts(c) : data'[n] = data[n],
         toPush' = toPush, live' = live, work'[Acceptor] = work[Acceptor]
  PROVE  Whole(d)'
<1>1. \A s : With(d, s)' = With(c, s)
  BY DEF With
<1>2. \A s : Elsewhere(s)' = Elsewhere(s)
  BY DEF Elsewhere
<1>3. \A s \in Slots : Placed(d, s)'
  BY <1>1, <1>2 DEF Whole, Placed
<1> QED
  BY <1>3 DEF Whole

\* Nothing the stack is made of has changed.
LEMMA StackQuiet ==
  ASSUME StackInv, UNCHANGED stackVars,
         toPush' = toPush, live' = live, work'[Acceptor] = work[Acceptor]
  PROVE  StackInv'
<1>1. StackType' /\ \A t \in Users : HandOK(t)'
  BY DEF StackInv, StackType, HandOK, stackVars, stackMemory, stackLocals
<1>2. PICK c \in Seq(Nodes) : Whole(c)
  BY DEF StackInv
<1>3. Linked(c)' /\ Apart(c)' /\ Counts(c)' = Counts(c) /\ data' = data
  BY <1>2 DEF Whole, Linked, Apart, Counts, stackVars, stackMemory, stackLocals
<1>4. Whole(c)'
  BY <1>2, <1>3, WholeKept
<1> QED
  BY <1>1, <1>2, <1>4 DEF StackInv

\* What a node in hand is apart from.
LEMMA InHand ==
  ASSUME StackInv, NEW c, Whole(c), NEW t \in Users, at[t] \in Pushing \cup {"got"}
  PROVE  /\ node[t] \in Nodes /\ node[t] \notin free /\ node[t] \notin On(c)
         /\ node[t] \in Counts(c) /\ data[node[t]] \in Slots
         /\ \A u \in Users : node[u] = node[t] => u = t
<1>1. node[t] \in Nodes
  BY DEF StackInv, StackType, HandOK
<1>2. node[t] # NoNode
  BY <1>1, StackAssumption
<1> QED
  BY <1>1, <1>2 DEF Whole, Apart, Counts

LEMMA PushReadKeeps ==
  ASSUME StackInv, NEW t \in Users, PushRead(t),
         toPush' = toPush, live' = live, work' = work
  PROVE  StackInv'
<1>1. PICK c \in Seq(Nodes) : Whole(c)
  BY DEF StackInv
<1>2. /\ at[t] = "PushRead" /\ at' = [at EXCEPT ![t] = "PushCas"]
      /\ topSeen' = [topSeen EXCEPT ![t] = top]
      /\ below' = [below EXCEPT ![node[t]] = top.ptr]
      /\ UNCHANGED <<top, data, free, node, belowSeen>>
  BY DEF PushRead, Move
<1>3. /\ node[t] \in Nodes /\ node[t] \notin On(c)
      /\ \A u \in Users : node[u] = node[t] => u = t
  BY <1>1, <1>2, InHand DEF Pushing
<1>4. top \in Word /\ top.ptr \in Nodes \cup {NoNode}
  BY DEF StackInv, StackType, Word
<1>5. StackType'
  BY <1>2, <1>3, <1>4 DEF StackInv, StackType, Pushing
<1>6. below'[node[t]] = top.ptr /\ \A n \in Nodes \ {node[t]} : below'[n] = below[n]
  BY <1>2, <1>3 DEF StackInv, StackType
<1>7. ASSUME NEW u \in Users
      PROVE  HandOK(u)'
  <2>1. CASE u = t
    <3>1. at'[t] = "PushCas" /\ topSeen'[t] = top
      BY <1>2 DEF StackInv, StackType
    <3> QED
      BY <1>2, <1>3, <1>6, <2>1, <3>1, StackAssumption DEF HandOK, Pushing, Popping
  <2>2. CASE u # t
    <3>1. at'[u] = at[u] /\ topSeen'[u] = topSeen[u]
      BY <1>2, <2>2 DEF StackInv, StackType
    <3>2. at[u] = "PushCas" => below'[node[u]] = below[node[u]]
      BY <1>1, <1>3, <1>6, <2>2, InHand DEF Pushing
    <3>3. at[u] = "PopCas" => below'[topSeen[u].ptr] = below[topSeen[u].ptr]
      <4>1. at[u] = "PopCas" => topSeen[u].ptr \in On(c) /\ On(c) \subseteq Nodes
        BY <1>1 DEF StackInv, HandOK, Whole, Apart, Popping, On, Places, Linked
      <4> QED
        BY <1>3, <1>6, <4>1
    <3>4. HandOK(u)
      BY DEF StackInv
    <3> QED
      BY <1>2, <3>1, <3>2, <3>3, <3>4 DEF HandOK
  <2> QED
    BY <2>1, <2>2
<1>8. Linked(c)'
  <2>1. \A i \in Places(c) : c[i] \in Nodes \ {node[t]}
    BY <1>3 DEF On, Places
  <2> QED
    BY <1>1, <1>2, <1>6, <2>1 DEF Whole, Linked
<1>9. Apart(c)'
  <2>1. at'[Acceptor] \in Popping => at[Acceptor] \in Popping /\ t # Acceptor
    BY <1>2 DEF StackInv, StackType, Popping
  <2>2. at'[Acceptor] \in Popping => topSeen'[Acceptor] = topSeen[Acceptor]
    BY <1>2, <2>1, UsersFacts DEF StackInv, StackType
  <2> QED
    BY <1>1, <1>2, <2>1, <2>2 DEF Whole, Apart
<1>10. Counts(c)' = Counts(c)
  BY <1>2 DEF Counts
<1>11. Whole(c)'
  BY <1>1, <1>2, <1>8, <1>9, <1>10, WholeKept
<1> QED
  BY <1>1, <1>5, <1>7, <1>11 DEF StackInv

\* A step of thread t that leaves the shared memory and its node alone: it goes to
\* l, with w for what it has seen of _Top and b for what it has seen below.
Local(t, l, w, b) ==
  /\ UNCHANGED stackMemory /\ node' = node
  /\ at' = [at EXCEPT ![t] = l] /\ topSeen' = [topSeen EXCEPT ![t] = w]
  /\ belowSeen' = [belowSeen EXCEPT ![t] = b]
  /\ l \in {"out", "empty", "got", "PushRead", "PopNext", "PopCas"}
  /\ w \in Word /\ b \in Nodes \cup {NoNode}
  /\ node[t] # NoNode <=> l \in {"PushRead", "got"}
  /\ l \in {"PopNext", "PopCas", "empty", "got"} => t = Acceptor
  /\ l = "PopCas" => b = below[w.ptr]
  /\ l \in {"PopNext", "PopCas"} =>
       \/ w.ptr = top.ptr /\ top.ptr # NoNode
       \/ at[t] \in {"PopNext", "PopCas"} /\ w.ptr = topSeen[t].ptr

LEMMA LocalKeeps ==
  ASSUME StackInv, NEW t \in Users, NEW l, NEW w, NEW b, Local(t, l, w, b),
         toPush' = toPush, live' = live, work'[Acceptor] = work[Acceptor]
  PROVE  StackInv'
<1>1. PICK c \in Seq(Nodes) : Whole(c)
  BY DEF StackInv
<1> USE DEF Local, Pushing, Popping
<1>2. /\ at'[t] = l /\ topSeen'[t] = w /\ belowSeen'[t] = b
      /\ \A u \in Users \ {t} : at'[u] = at[u] /\ topSeen'[u] = topSeen[u] /\ belowSeen'[u] = belowSeen[u]
  BY DEF StackInv, StackType
<1>3. StackType'
  BY DEF StackInv, StackType, stackMemory
<1>4. ASSUME NEW u \in Users
      PROVE  HandOK(u)'
  <2>1. CASE u = t
    BY <1>2, <2>1 DEF HandOK, stackMemory
  <2>2. CASE u # t
    <3>1. HandOK(u)
      BY DEF StackInv
    <3> QED
      BY <1>2, <2>2, <3>1 DEF HandOK, stackMemory
  <2> QED
    BY <2>1, <2>2
<1>5. Linked(c)' /\ Counts(c)' = Counts(c) /\ data' = data
  BY <1>1 DEF Whole, Linked, Counts, stackMemory
<1>6. Apart(c)'
  <2>1. at'[Acceptor] \in Popping => topSeen'[Acceptor].ptr \in On(c)
    <3>1. CASE Acceptor = t
      <4>1. top.ptr # NoNode => top.ptr \in On(c)
        BY <1>1 DEF Whole, Linked, On, Places
      <4>2. at[t] \in Popping => topSeen[t].ptr \in On(c)
        BY <1>1, <3>1 DEF Whole, Apart
      <4> QED
        BY <1>2, <3>1, <4>1, <4>2
    <3>2. CASE Acceptor # t
      BY <1>1, <1>2, <3>2, UsersFacts DEF Whole, Apart
    <3> QED
      BY <3>1, <3>2
  <2> QED
    BY <1>1, <2>1 DEF Whole, Apart, stackMemory
<1>7. Whole(c)'
  BY <1>1, <1>5, <1>6, WholeKept
<1> QED
  BY <1>1, <1>3, <1>4, <1>7 DEF StackInv

\* The steps of Push and Pop between their reads and their compare-and-swaps.
LEMMA SmallSteps ==
  ASSUME StackInv, NEW t \in Users,
         \/ PushRetry(t) \/ PopNext(t) \/ PopRetry(t)
         \/ t = Acceptor /\ (PopTop(t) \/ PopNothing(t)),
         toPush' = toPush, live' = live, work'[Acceptor] = work[Acceptor]
  PROVE  StackInv'
<1>1. Make(0, NoNode) \in Word
  BY MakeIs
<1>2. HandOK(t) /\ StackType /\ top \in Word
  BY DEF StackInv, StackType
<1>3. /\ node = [node EXCEPT ![t] = node[t]] /\ topSeen = [topSeen EXCEPT ![t] = topSeen[t]]
      /\ belowSeen = [belowSeen EXCEPT ![t] = belowSeen[t]]
      /\ topSeen[t] \in Word /\ belowSeen[t] \in Nodes \cup {NoNode}
  BY <1>2 DEF StackType
<1> USE DEF Pushing, Popping
<1>4. CASE PushRetry(t)
  <2>1. Local(t, "PushRead", topSeen[t], belowSeen[t])
    BY <1>2, <1>3, <1>4 DEF PushRetry, Move, HandOK, Local
  <2> QED
    BY <2>1, LocalKeeps
<1>5. CASE PopNext(t)
  <2>1. at[t] = "PopNext" /\ t = Acceptor /\ topSeen[t].ptr \in Nodes
    <3>1. PICK c \in Seq(Nodes) : Whole(c)
      BY DEF StackInv
    <3>2. at[t] = "PopNext" /\ t = Acceptor
      BY <1>2, <1>5 DEF PopNext, Move, HandOK
    <3> QED
      BY <3>1, <3>2 DEF Whole, Apart, Linked, On, Places
  <2>2. below[topSeen[t].ptr] \in Nodes \cup {NoNode}
    BY <1>2, <2>1 DEF StackType
  <2>3. Local(t, "PopCas", topSeen[t], below[topSeen[t].ptr])
    BY <1>2, <1>3, <1>5, <2>1, <2>2 DEF PopNext, Move, HandOK, Local
  <2> QED
    BY <2>3, LocalKeeps
<1>6. CASE PopRetry(t) \/ PopNothing(t)
  <2>1. at[t] \in {"PopCas", "empty"} /\ node[t] = NoNode
    BY <1>2, <1>6 DEF PopRetry, PopNothing, Return, Move, HandOK
  <2>2. Local(t, "out", Make(0, NoNode), NoNode)
    BY <1>1, <1>3, <1>6, <2>1 DEF PopRetry, PopNothing, Return, Move, Local
  <2> QED
    BY <2>2, LocalKeeps
<1>7. CASE PopTop(t) /\ t = Acceptor
  <2>1. node[t] = NoNode
    BY <1>2, <1>7 DEF PopTop, Move, HandOK
  <2>2. CASE top.ptr = NoNode
    <3>1. Local(t, "empty", topSeen[t], belowSeen[t])
      BY <1>3, <1>7, <2>1, <2>2 DEF PopTop, Move, Local
    <3> QED
      BY <3>1, LocalKeeps
  <2>3. CASE top.ptr # NoNode
    <3>1. Local(t, "PopNext", top, belowSeen[t])
      BY <1>2, <1>3, <1>7, <2>1, <2>3 DEF PopTop, Move, Local
    <3> QED
      BY <3>1, LocalKeeps
  <2> QED
    BY <2>2, <2>3
<1> QED
  BY <1>4, <1>5, <1>6, <1>7

\* A compare-and-swap of Push succeeds: _Top is what the node's link was set to,
\* however often _Top has changed in between.
LEMMA PushCasKeeps ==
  ASSUME StackInv, NEW t \in Users, PushCas(t),
         toPush' = toPush, live' = live, work' = work
  PROVE  StackInv'
<1>1. PICK c \in Seq(Nodes) : Whole(c)
  BY DEF StackInv
<1>2. /\ at[t] = "PushCas" /\ at' = [at EXCEPT ![t] = "out"]
      /\ node' = [node EXCEPT ![t] = NoNode] /\ belowSeen' = [belowSeen EXCEPT ![t] = NoNode]
      /\ topSeen' = [topSeen EXCEPT ![t] = Make(0, NoNode)]
      /\ top = topSeen[t] /\ top' = Make(top.tag + 1, node[t])
      /\ UNCHANGED <<below, data, free>>
  BY DEF PushCas, Return, Move
<1>3. /\ node[t] \in Nodes /\ node[t] \notin free /\ node[t] \notin On(c) /\ node[t] \in Counts(c)
      /\ \A u \in Users : node[u] = node[t] => u = t
  BY <1>1, <1>2, InHand DEF Pushing
<1>4. HandOK(t) /\ StackType
  BY DEF StackInv
<1>5. top' \in Word /\ top'.ptr = node[t] /\ Make(0, NoNode) \in Word
  <2>1. top.tag + 1 \in Int
    BY <1>4 DEF StackType, Word
  <2> QED
    BY <1>2, <1>3, <2>1, MakeIs, MakeWord
<1>6. StackType'
  BY <1>2, <1>4, <1>5 DEF StackType
<1>7. /\ at'[t] = "out" /\ node'[t] = NoNode
      /\ \A u \in Users \ {t} : /\ at'[u] = at[u] /\ topSeen'[u] = topSeen[u] /\ node'[u] = node[u]
                                /\ belowSeen'[u] = belowSeen[u]
  BY <1>2, <1>4 DEF StackType
<1>8. ASSUME NEW u \in Users
      PROVE  HandOK(u)'
  <2>1. CASE u = t
    BY <1>7, <2>1 DEF HandOK, Pushing, Popping
  <2>2. CASE u # t
    <3>1. HandOK(u)
      BY DEF StackInv
    <3> QED
      BY <1>2, <1>7, <2>2, <3>1 DEF HandOK
  <2> QED
    BY <2>1, <2>2
<1>9. PICK d \in Seq(Nodes) : /\ Len(d) = Len(c) + 1 /\ d[1] = node[t]
                              /\ \A i \in Places(c) : d[i + 1] = c[i]
  <2> DEFINE e == <<node[t]>> \o c
  <2>1. e \in Seq(Nodes) /\ Len(e) = Len(c) + 1 /\ e[1] = node[t]
        /\ \A i \in Places(c) : e[i + 1] = c[i]
    BY <1>1, <1>3 DEF Places
  <2> HIDE DEF e
  <2> QED
    BY <2>1
<1>10. \A i \in Places(d) : i = 1 \/ (i - 1 \in Places(c) /\ d[i] = c[i - 1])
  BY <1>1, <1>9 DEF Places
<1>11. \A i \in Places(c) : c[i] # node[t] /\ c[i] \in Nodes /\ i + 1 \in Places(d)
  BY <1>1, <1>3, <1>9 DEF Places, On
<1>12. On(d) = On(c) \cup {node[t]}
  <2>1. 1 \in Places(d)
    BY <1>9 DEF Places
  <2>2. \A i \in Places(d) : d[i] \in On(c) \cup {node[t]}
    BY <1>9, <1>10 DEF On
  <2>3. \A i \in Places(c) : c[i] \in On(d)
    BY <1>9, <1>11 DEF On
  <2>4. node[t] \in On(d)
    BY <1>9, <2>1 DEF On
  <2> QED
    BY <2>2, <2>3, <2>4 DEF On
<1>13. Linked(d)'
  <2>1. ASSUME NEW i \in Places(d), NEW j \in Places(d), d[i] = d[j]
        PROVE  i = j
    <3>1. \A k, l \in Places(c) : c[k] = c[l] => k = l
      BY <1>1 DEF Whole, Linked
    <3>2. i \in Int /\ j \in Int
      BY DEF Places
    <3> QED
      BY <1>9, <1>10, <1>11, <2>1, <3>1, <3>2
  <2>2. top'.ptr = IF d = <<>> THEN NoNode ELSE d[1]
    BY <1>5, <1>9
  <2>3. ASSUME NEW i \in Places(d)
        PROVE  below'[d[i]] = IF i = Len(d) THEN NoNode ELSE d[i + 1]
    <3>1. CASE i = 1
      <4>1. below'[d[i]] = top.ptr
        BY <1>2, <1>4, <1>9, <3>1 DEF HandOK
      <4>2. CASE c = <<>>
        BY <1>1, <1>9, <3>1, <4>1, <4>2 DEF Whole, Linked
      <4>3. CASE c # <<>>
        <5>1. top.ptr = c[1] /\ 1 \in Places(c) /\ d[1 + 1] = c[1] /\ Len(d) # 1
          BY <1>1, <1>9, <4>3 DEF Whole, Linked, Places
        <5> QED
          BY <3>1, <4>1, <5>1
      <4> QED
        BY <4>2, <4>3
    <3>2. CASE i # 1
      <4>1. i - 1 \in Places(c) /\ d[i] = c[i - 1]
        BY <1>10, <3>2
      <4>2. below'[d[i]] = IF i - 1 = Len(c) THEN NoNode ELSE c[(i - 1) + 1]
        BY <1>1, <1>2, <4>1 DEF Whole, Linked
      <4>3. i - 1 # Len(c) => i \in Places(c) /\ d[i + 1] = c[i] /\ (i - 1) + 1 = i
        BY <1>9, <4>1 DEF Places
      <4>4. i - 1 = Len(c) <=> i = Len(d)
        BY <1>9 DEF Places
      <4> QED
        BY <4>2, <4>3, <4>4
    <3> QED
      BY <3>1, <3>2
  <2> QED
    BY <2>1, <2>2, <2>3 DEF Linked
<1>14. Apart(d)'
  <2>1. Apart(c)
    BY <1>1 DEF Whole
  <2>2. \A u \in Users : node'[u] \in Nodes => u # t /\ node'[u] = node[u]
    BY <1>7, StackAssumption
  <2>3. at'[Acceptor] \in Popping => topSeen'[Acceptor].ptr \in On(d)
    BY <1>7, <1>12, <2>1, UsersFacts DEF Apart, Popping
  <2>4. free \cap On(d) = {}
    BY <1>3, <1>12, <2>1 DEF Apart
  <2>5. ASSUME NEW u \in Users, node'[u] \in Nodes
        PROVE  /\ node'[u] \notin free /\ node'[u] \notin On(d)
               /\ \A v \in Users : node'[v] = node'[u] => v = u
    <3>1. u # t /\ node'[u] = node[u]
      BY <2>2, <2>5
    <3>2. \A v \in Users : node'[v] = node'[u] => node[v] = node[u]
      BY <2>2, <2>5, <3>1
    <3>3. node[u] # node[t]
      BY <1>3, <3>1
    <3> QED
      BY <1>12, <2>1, <2>5, <3>1, <3>2, <3>3 DEF Apart
  <2> QED
    BY <1>2, <2>3, <2>4, <2>5 DEF Apart
<1>15. Counts(d)' = Counts(c)
  <2>1. ({node'[u] : u \in Users} \ {NoNode}) \cup {node[t]} = {node[u] : u \in Users} \ {NoNode}
    BY <1>3, <1>7, StackAssumption
  <2> QED
    BY <1>12, <2>1 DEF Counts
<1>16. Whole(d)'
  BY <1>1, <1>2, <1>13, <1>14, <1>15, WholeKept
<1> QED
  BY <1>6, <1>8, <1>9, <1>16 DEF StackInv

\* A compare-and-swap of Pop succeeds: the node it has seen has been at _Top all
\* along or is there again, and what was below it still is, because nobody else pops.
LEMMA PopCasKeeps ==
  ASSUME StackInv, NEW t \in Users, PopCas(t),
         toPush' = toPush, live' = live, work' = work
  PROVE  StackInv'
<1>1. PICK c \in Seq(Nodes) : Whole(c)
  BY DEF StackInv
<1>2. /\ at[t] = "PopCas" /\ at' = [at EXCEPT ![t] = "got"]
      /\ node' = [node EXCEPT ![t] = top.ptr]
      /\ top = topSeen[t] /\ top' = Make(top.tag + 1, belowSeen[t])
      /\ UNCHANGED <<below, data, free, topSeen, belowSeen>>
  BY DEF PopCas, Move
<1>3. HandOK(t) /\ StackType /\ t = Acceptor
  BY <1>2 DEF StackInv, HandOK, Popping
<1>4. node[t] = NoNode /\ belowSeen[t] = below[top.ptr] /\ top.ptr \in On(c)
  BY <1>1, <1>2, <1>3 DEF HandOK, Pushing, Popping, Whole, Apart
<1>5. c # <<>> /\ top.ptr = c[1] /\ 1 \in Places(c) /\ c[1] \in Nodes
      /\ below[c[1]] = IF 1 = Len(c) THEN NoNode ELSE c[1 + 1]
  <2>1. c # <<>>
    BY <1>4 DEF On, Places
  <2>2. 1 \in Places(c)
    BY <2>1 DEF Places
  <2>3. c[1] \in Nodes
    BY <2>2 DEF Places
  <2>4. Linked(c)
    BY <1>1 DEF Whole
  <2>5. top.ptr = c[1]
    BY <2>1, <2>4 DEF Linked
  <2>6. below[c[1]] = IF 1 = Len(c) THEN NoNode ELSE c[1 + 1]
    BY <2>2, <2>4 DEF Linked
  <2> QED
    BY <2>1, <2>2, <2>3, <2>5, <2>6
<1>6. top' \in Word /\ top'.ptr = below[c[1]]
  <2>1. top.tag + 1 \in Int /\ belowSeen[t] \in Nodes \cup {NoNode}
    BY <1>3 DEF StackType, Word
  <2> QED
    BY <1>2, <1>4, <1>5, <2>1, MakeIs, MakeWord
<1>7. StackType'
  BY <1>2, <1>3, <1>5, <1>6 DEF StackType
<1>8. /\ at'[t] = "got" /\ node'[t] = c[1]
      /\ \A u \in Users \ {t} : at'[u] = at[u] /\ node'[u] = node[u]
  BY <1>2, <1>3, <1>5 DEF StackType
<1>9. ASSUME NEW u \in Users
      PROVE  HandOK(u)'
  <2>1. CASE u = t
    BY <1>3, <1>5, <1>8, <2>1, StackAssumption DEF HandOK, Pushing, Popping
  <2>2. CASE u # t
    <3>1. HandOK(u)
      BY DEF StackInv
    <3> QED
      BY <1>2, <1>8, <2>2, <3>1 DEF HandOK
  <2> QED
    BY <2>1, <2>2
<1>10. PICK d \in Seq(Nodes) : Len(d) = Len(c) - 1 /\ \A i \in Places(d) : d[i] = c[i + 1]
  <2> DEFINE e == Tail(c)
  <2>1. e \in Seq(Nodes) /\ Len(e) = Len(c) - 1 /\ \A i \in Places(e) : e[i] = c[i + 1]
    BY <1>5 DEF Places
  <2> HIDE DEF e
  <2> QED
    BY <2>1
<1>11. \A i \in Places(d) : i + 1 \in Places(c) /\ i + 1 # 1 /\ (i = Len(d) <=> i + 1 = Len(c))
  BY <1>1, <1>10 DEF Places
<1>12. \A i, j \in Places(c) : c[i] = c[j] => i = j
  BY <1>1 DEF Whole, Linked
<1>13. On(c) = On(d) \cup {c[1]} /\ c[1] \notin On(d)
  <2>1. \A i \in Places(d) : d[i] \in On(c) /\ d[i] # c[1]
    BY <1>5, <1>10, <1>11, <1>12 DEF On
  <2>2. \A i \in Places(c) : c[i] = c[1] \/ c[i] \in On(d)
    <3> TAKE i \in Places(c)
    <3>1. CASE i # 1
      <4>1. i - 1 \in Places(d) /\ (i - 1) + 1 = i
        BY <1>10, <3>1 DEF Places
      <4> QED
        BY <1>10, <4>1 DEF On
    <3> QED
      BY <3>1
  <2>3. c[1] \in On(c)
    BY <1>5 DEF On
  <2> QED
    BY <2>1, <2>2, <2>3 DEF On
<1>14. Linked(d)'
  <2>1. ASSUME NEW i \in Places(d), NEW j \in Places(d), d[i] = d[j]
        PROVE  i = j
    <3>1. i + 1 = j + 1
      BY <1>10, <1>11, <1>12, <2>1
    <3> QED
      BY <3>1 DEF Places
  <2>2. top'.ptr = IF d = <<>> THEN NoNode ELSE d[1]
    <3>1. CASE Len(c) = 1
      <4>1. d = <<>>
        BY <1>10, <3>1
      <4> QED
        BY <1>5, <1>6, <3>1, <4>1
    <3>2. CASE Len(c) # 1
      <4>1. 1 \in Places(d) /\ d # <<>>
        BY <1>5, <1>10, <3>2 DEF Places
      <4> QED
        BY <1>5, <1>6, <1>10, <3>2, <4>1
    <3> QED
      BY <3>1, <3>2
  <2>3. ASSUME NEW i \in Places(d)
        PROVE  below'[d[i]] = IF i = Len(d) THEN NoNode ELSE d[i + 1]
    <3>1. below[c[i + 1]] = IF i + 1 = Len(c) THEN NoNode ELSE c[(i + 1) + 1]
      BY <1>1, <1>11 DEF Whole, Linked
    <3>2. i # Len(d) => d[i + 1] = c[(i + 1) + 1]
      BY <1>10 DEF Places
    <3> QED
      BY <1>2, <1>10, <1>11, <3>1, <3>2
  <2> QED
    BY <2>1, <2>2, <2>3 DEF Linked
<1>15. Apart(d)'
  <2>1. Apart(c)
    BY <1>1 DEF Whole
  <2>2. at'[Acceptor] \notin Popping
    BY <1>3, <1>8 DEF Popping
  <2>3. \A u \in Users \ {t} : node[u] \in Nodes => node[u] # c[1]
    BY <1>4, <1>5, <2>1 DEF Apart
  <2>4. ASSUME NEW u \in Users, node'[u] \in Nodes
        PROVE  /\ node'[u] \notin free /\ node'[u] \notin On(d)
               /\ \A v \in Users : node'[v] = node'[u] => v = u
    <3>1. CASE u = t
      <4>1. c[1] \notin free
        BY <1>13, <2>1 DEF Apart
      <4> QED
        BY <1>5, <1>8, <1>13, <2>3, <3>1, <4>1
    <3>2. CASE u # t
      BY <1>8, <1>13, <2>1, <2>3, <2>4, <3>2 DEF Apart
    <3> QED
      BY <3>1, <3>2
  <2>5. free \cap On(d) = {}
    BY <1>13, <2>1 DEF Apart
  <2> QED
    BY <1>2, <2>2, <2>4, <2>5 DEF Apart
<1>16. Counts(d)' = Counts(c)
  <2>1. {node'[u] : u \in Users} \ {NoNode} = ({node[u] : u \in Users} \ {NoNode}) \cup {c[1]}
    BY <1>4, <1>5, <1>8, StackAssumption
  <2> QED
    BY <1>13, <2>1 DEF Counts
<1>17. Whole(d)'
  BY <1>1, <1>2, <1>14, <1>15, <1>16, WholeKept
<1> QED
  BY <1>7, <1>9, <1>10, <1>17 DEF StackInv

\* A push begins: the index v, which was elsewhere, is on a node of t now.
LEMMA PushAllocKeeps ==
  ASSUME StackInv, NEW t \in Users, NEW v \in Slots, PushAlloc(t, v),
         Elsewhere(v) = 1, Elsewhere(v)' = 0,
         \A s \in Slots \ {v} : Elsewhere(s)' = Elsewhere(s),
         \A s \in Slots : s \in toPush' => ~live'[s]
  PROVE  StackInv'
<1>1. PICK c \in Seq(Nodes) : Whole(c)
  BY DEF StackInv
<1>2. at[t] = "out" /\ at' = [at EXCEPT ![t] = "PushRead"]
      /\ UNCHANGED <<top, below, topSeen, belowSeen>>
  BY DEF PushAlloc, Move
<1>3. PICK n \in free : /\ free' = free \ {n} /\ data' = [data EXCEPT ![n] = v]
                        /\ node' = [node EXCEPT ![t] = n]
  BY DEF PushAlloc
<1>4. HandOK(t) /\ StackType /\ n \in Nodes
  BY DEF StackInv, StackType
<1>5. StackType'
  BY <1>2, <1>3, <1>4 DEF StackType, Pushing
<1>6. /\ at'[t] = "PushRead" /\ node'[t] = n /\ node[t] = NoNode
      /\ \A u \in Users \ {t} : at'[u] = at[u] /\ node'[u] = node[u]
      /\ data'[n] = v /\ \A m \in Nodes \ {n} : data'[m] = data[m]
  BY <1>2, <1>3, <1>4 DEF StackType, HandOK, Pushing
<1>7. \A u \in Users : node[u] # n
  <2>1. Apart(c)
    BY <1>1 DEF Whole
  <2> QED
    BY <1>4, <2>1 DEF Apart
<1>8. ASSUME NEW u \in Users
      PROVE  HandOK(u)'
  <2>1. CASE u = t
    BY <1>4, <1>6, <2>1, StackAssumption DEF HandOK, Pushing, Popping
  <2>2. CASE u # t
    <3>1. HandOK(u)
      BY DEF StackInv
    <3> QED
      BY <1>2, <1>6, <2>2, <3>1 DEF HandOK
  <2> QED
    BY <2>1, <2>2
<1>9. n \notin On(c) /\ free \cap On(c) = {}
  BY <1>1 DEF Whole, Apart
<1>10. Linked(c)'
  BY <1>1, <1>2 DEF Whole, Linked
<1>11. Apart(c)'
  <2>1. Apart(c)
    BY <1>1 DEF Whole
  <2>2. at'[Acceptor] \in Popping => at[Acceptor] \in Popping
    BY <1>6, UsersFacts DEF Popping
  <2>3. \A u \in Users : node'[u] = IF u = t THEN n ELSE node[u]
    BY <1>6
  <2> QED
    BY <1>2, <1>3, <1>7, <1>9, <2>1, <2>2, <2>3 DEF Apart
<1>12. Counts(c)' = Counts(c) \cup {n} /\ n \notin Counts(c)
  <2>1. {node'[u] : u \in Users} \ {NoNode} = ({node[u] : u \in Users} \ {NoNode}) \cup {n}
    BY <1>4, <1>6, StackAssumption
  <2> QED
    BY <1>7, <1>9, <2>1 DEF Counts
<1>13. Counts(c) \subseteq Nodes
  BY <1>4 DEF Counts, On, Places, StackType
<1>14. \A s \in Slots \ {v} : With(c, s)' = With(c, s)
  BY <1>6, <1>12, <1>13 DEF With
<1>15. With(c, v)' = With(c, v) \cup {n}
  BY <1>6, <1>12, <1>13 DEF With
<1>16. ASSUME NEW s \in Slots
       PROVE  Placed(c, s)'
  <2>1. Placed(c, s)
    BY <1>1 DEF Whole
  <2>2. CASE s = v
    <3>1. With(c, v) = {}
      BY <2>1, <2>2 DEF Placed
    <3> QED
      BY <1>4, <1>15, <2>2, <3>1 DEF Placed
  <2>3. CASE s # v
    BY <1>14, <2>1, <2>3 DEF Placed
  <2> QED
    BY <2>2, <2>3
<1>17. \A m \in Counts(c)' : data'[m] \in Slots
  BY <1>1, <1>6, <1>12, <1>13 DEF Whole
<1> QED
  BY <1>5, <1>8, <1>10, <1>11, <1>16, <1>17 DEF StackInv, Whole

\* A pop ends: the index in the node of t is elsewhere now.
LEMMA PopFreeKeeps ==
  ASSUME StackInv, NEW t \in Users, PopFree(t), NEW v \in Slots, v = Taken(t),
         Elsewhere(v)' = Elsewhere(v) + 1,
         \A s \in Slots \ {v} : Elsewhere(s)' = Elsewhere(s),
         \A s \in Slots : s \in toPush' => ~live'[s]
  PROVE  StackInv'
<1>1. PICK c \in Seq(Nodes) : Whole(c)
  BY DEF StackInv
<1>2. /\ at[t] = "got" /\ at' = [at EXCEPT ![t] = "out"]
      /\ node' = [node EXCEPT ![t] = NoNode] /\ belowSeen' = [belowSeen EXCEPT ![t] = NoNode]
      /\ topSeen' = [topSeen EXCEPT ![t] = Make(0, NoNode)]
      /\ free' = free \cup {node[t]} /\ data' = [data EXCEPT ![node[t]] = Nothing]
      /\ UNCHANGED <<top, below>>
  BY DEF PopFree, Return, Move
<1>3. /\ node[t] \in Nodes /\ node[t] \notin On(c) /\ node[t] \in Counts(c) /\ data[node[t]] = v
      /\ \A u \in Users : node[u] = node[t] => u = t
  BY <1>1, <1>2, InHand DEF Taken
<1>4. StackType /\ Make(0, NoNode) \in Word
  BY MakeIs DEF StackInv
<1>5. StackType'
  BY <1>2, <1>3, <1>4 DEF StackType
<1>6. /\ at'[t] = "out" /\ node'[t] = NoNode
      /\ \A u \in Users \ {t} : /\ at'[u] = at[u] /\ node'[u] = node[u]
                                /\ topSeen'[u] = topSeen[u] /\ belowSeen'[u] = belowSeen[u]
      /\ \A m \in Nodes \ {node[t]} : data'[m] = data[m]
  BY <1>2, <1>3, <1>4 DEF StackType
<1>7. ASSUME NEW u \in Users
      PROVE  HandOK(u)'
  <2>1. CASE u = t
    BY <1>6, <2>1 DEF HandOK, Pushing, Popping
  <2>2. CASE u # t
    <3>1. HandOK(u)
      BY DEF StackInv
    <3> QED
      BY <1>2, <1>6, <2>2, <3>1 DEF HandOK
  <2> QED
    BY <2>1, <2>2
<1>8. Linked(c)'
  BY <1>1, <1>2 DEF Whole, Linked
<1>9. Apart(c)'
  <2>1. Apart(c)
    BY <1>1 DEF Whole
  <2>2. at'[Acceptor] \in Popping => at[Acceptor] \in Popping /\ topSeen'[Acceptor] = topSeen[Acceptor]
    BY <1>6, UsersFacts DEF Popping
  <2>3. \A u \in Users : node'[u] \in Nodes => u # t /\ node'[u] = node[u]
    BY <1>6, StackAssumption
  <2> QED
    BY <1>2, <1>3, <2>1, <2>2, <2>3 DEF Apart
<1>10. Counts(c)' = Counts(c) \ {node[t]}
  <2>1. {node'[u] : u \in Users} \ {NoNode} = ({node[u] : u \in Users} \ {NoNode}) \ {node[t]}
    BY <1>3, <1>6
  <2> QED
    BY <1>3, <2>1 DEF Counts
<1>11. Counts(c) \subseteq Nodes
  BY <1>4 DEF Counts, On, Places, StackType
<1>12. \A s \in Slots \ {v} : With(c, s)' = With(c, s)
  BY <1>3, <1>6, <1>10, <1>11 DEF With
<1>13. With(c, v)' = With(c, v) \ {node[t]} /\ node[t] \in With(c, v)
  BY <1>3, <1>6, <1>10, <1>11 DEF With
<1>14. ASSUME NEW s \in Slots
       PROVE  Placed(c, s)'
  <2>1. Placed(c, s)
    BY <1>1 DEF Whole
  <2>2. CASE s = v
    <3>1. Elsewhere(v) = 0 /\ With(c, v) = {node[t]}
      BY <1>13, <2>1, <2>2 DEF Placed
    <3>2. Elsewhere(v)' = 1 /\ With(c, v)' = {}
      BY <1>13, <3>1
    <3> QED
      BY <2>2, <3>2 DEF Placed
  <2>3. CASE s # v
    BY <1>12, <2>1, <2>3 DEF Placed
  <2> QED
    BY <2>2, <2>3
<1>15. \A m \in Counts(c)' : data'[m] \in Slots
  BY <1>1, <1>6, <1>10, <1>11 DEF Whole
<1> QED
  BY <1>5, <1>7, <1>8, <1>9, <1>14, <1>15 DEF StackInv, Whole

----------------------------------------------------------------------------
(***************************************************************************)
(* The sessions, their completions and their packets.                      *)
(***************************************************************************)

LEMMA PacketsAre ==
  /\ PacketsExact <=> taken = Packets(sending, queued, Slots)
  /\ PacketsExact' <=> taken' = Packets(sending', queued', Slots)
<1>1. PacketsExact <=> taken = Packets(sending, queued, Slots)
  BY DEF PacketsExact, Packets, MapThenSumSet, MapThenFoldSet
<1>2. PacketsExact' <=> taken' = Packets(sending', queued', Slots)
  BY DEF PacketsExact, Packets, MapThenSumSet, MapThenFoldSet
<1> QED
  BY <1>1, <1>2

LEMMA PacketsQuiet ==
  ASSUME PacketsExact, sending' = sending, queued' = queued, taken' = taken
  PROVE  PacketsExact'
BY PacketsAre, Zenon

\* Slot s gets x packets that are being sent and y that are queued.
LEMMA PacketsMove ==
  ASSUME SessionInv, PacketsExact, NEW s \in Slots, NEW x \in Nat, NEW y \in Nat,
         sending' = [sending EXCEPT ![s] = x], queued' = [queued EXCEPT ![s] = y],
         taken' = taken - sending[s] - queued[s] + x + y
  PROVE  PacketsExact'
<1>1. /\ sending \in [Slots -> Nat] /\ queued \in [Slots -> Nat]
      /\ sending' \in [Slots -> Nat] /\ queued' \in [Slots -> Nat]
  BY DEF SessionInv, SessionType
<1>2. IsFiniteSet(Slots)
  BY LifeAssumption
<1>3. sending'[s] = x /\ queued'[s] = y
      /\ \A u \in Slots \ {s} : sending[u] = sending'[u] /\ queued[u] = queued'[u]
  BY <1>1
<1>4. Packets(sending', queued', Slots)
        = Packets(sending, queued, Slots) - sending[s] - queued[s] + sending'[s] + queued'[s]
  <2>1. PICK a, b, c, d : a = sending /\ b = queued /\ c = sending' /\ d = queued'
    OBVIOUS
  <2>2. Packets(c, d, Slots) = Packets(a, b, Slots) - a[s] - b[s] + c[s] + d[s]
    <3>1. /\ a \in [Slots -> Nat] /\ b \in [Slots -> Nat]
          /\ c \in [Slots -> Nat] /\ d \in [Slots -> Nat]
          /\ \A z \in Slots \ {s} : a[z] = c[z] /\ b[z] = d[z]
      BY <1>1, <1>3, <2>1
    <3> QED
      BY <1>2, <3>1, PacketsChange
  <2> QED
    BY <2>1, <2>2
<1> QED
  BY <1>3, <1>4, PacketsAre

\* What StackInv says of the indices survives a step that moves none.
LEMMA IndicesMove ==
  ASSUME StackInv, UNCHANGED stackVars, \A s \in Slots : Elsewhere(s)' = Elsewhere(s),
         \A s \in Slots : s \in toPush' => ~live'[s]
  PROVE  StackInv'
<1>1. StackType' /\ \A t \in Users : HandOK(t)'
  BY DEF StackInv, StackType, HandOK, stackVars, stackMemory, stackLocals
<1>2. PICK c \in Seq(Nodes) : Whole(c)
  BY DEF StackInv
<1>3. Linked(c)' /\ Apart(c)' /\ Counts(c)' = Counts(c) /\ data' = data
  BY <1>2 DEF Whole, Linked, Apart, Counts, stackVars, stackMemory, stackLocals
<1>4. \A s : With(c, s)' = With(c, s)
  BY <1>3 DEF With
<1>5. \A s \in Slots : Placed(c, s)'
  BY <1>2, <1>4 DEF Whole, Placed
<1> QED
  BY <1>1, <1>2, <1>3, <1>5 DEF StackInv, Whole

\* Nothing of this has changed.
LEMMA AllQuiet ==
  ASSUME StackInv, SessionInv, PacketsExact,
         UNCHANGED <<stackVars, toPush, st, work, port, sessionVars>>
  PROVE  StackInv' /\ SessionInv' /\ PacketsExact'
<1>1. StackInv'
  BY StackQuiet DEF sessionVars
<1>2. SessionInv'
  BY DEF SessionInv, SessionType, WorkOK, DeadOK, PortOK, sessionVars
<1>3. PacketsExact'
  BY PacketsQuiet DEF sessionVars
<1> QED
  BY <1>1, <1>2, <1>3

\* The accept thread goes to l, with w in hand.
LEMMA AcceptorGoes ==
  ASSUME SessionInv, PacketsExact, UNCHANGED <<toPush, port, sessionVars>>,
         NEW l \in {"loop", "accept", "pop", "open", "ended"}, st' = [st EXCEPT ![Acceptor] = l],
         NEW w \in Slots \cup {-1}, work' = [work EXCEPT ![Acceptor] = w],
         w # -1 <=> l = "open"
  PROVE  SessionInv' /\ PacketsExact'
<1>1. /\ st'[Acceptor] = l /\ work'[Acceptor] = w
      /\ \A t \in Workers : st'[t] = st[t] /\ work'[t] = work[t]
  BY UsersFacts DEF SessionInv, SessionType
<1>2. SessionType'
  BY DEF SessionInv, SessionType, sessionVars
<1>3. WorkOK'
  BY <1>1 DEF SessionInv, WorkOK, sessionVars
<1>4. DeadOK' /\ PortOK'
  BY DEF SessionInv, DeadOK, PortOK, sessionVars
<1> QED
  BY <1>2, <1>3, <1>4, PacketsQuiet DEF SessionInv, sessionVars

LEMMA HeadAt ==
  ASSUME NEW S, NEW q \in Seq(S), q # <<>>
  PROVE  1 \in 1 .. Len(q) /\ q[1] = Head(q)
OBVIOUS

\* The completion at the head of the port is one of an operation of s.
HeadOf(s, ty) ==
  port # <<>> /\ \E ok \in BOOLEAN : Head(port) = [slot |-> s, type |-> ty, ok |-> ok]

\* What is done of all other operations stays done.
OthersDone(s, ty) ==
  \A u \in Slots, uy \in IoTypes :
    io[u][uy] = "done" /\ ~(u = s /\ uy = ty) => io'[u][uy] = "done"

LEMMA HeadIs ==
  ASSUME SessionInv, NEW s \in Slots, NEW ty \in IoTypes, HeadOf(s, ty)
  PROVE  /\ io[s][ty] = "done" /\ live[s]
         /\ \A t \in Workers : st[t] = "release" => work[t] # s
<1>0. PICK ok \in BOOLEAN : port # <<>> /\ Head(port) = [slot |-> s, type |-> ty, ok |-> ok]
  BY DEF HeadOf
<1>1. 1 \in 1 .. Len(port) /\ port[1] = [slot |-> s, type |-> ty, ok |-> ok]
  BY <1>0, HeadAt DEF SessionInv, SessionType
<1>2. port[1] # Zero /\ port[1].slot = s /\ port[1].type = ty
  <2>1. ty # "zero"
    BY DEF IoTypes
  <2> QED
    BY <1>1, <2>1 DEF Zero
<1>3. io[s][ty] = "done"
  BY <1>1, <1>2 DEF SessionInv, PortOK
<1> QED
  BY <1>3 DEF SessionInv, DeadOK, WorkOK

\* The head is taken: its operation may begin again, those of the others stay done.
LEMMA PortTaken ==
  ASSUME SessionInv, NEW s \in Slots, NEW ty \in IoTypes,
         HeadOf(s, ty), port' = Tail(port), OthersDone(s, ty)
  PROVE  PortOK' /\ port' \in Seq(Completions)
<1>0. PICK ok \in BOOLEAN : port # <<>> /\ Head(port) = [slot |-> s, type |-> ty, ok |-> ok]
  BY DEF HeadOf
<1>1. port \in Seq(Completions) /\ 1 \in 1 .. Len(port) /\ port[1] = [slot |-> s, type |-> ty, ok |-> ok]
  BY <1>0, HeadAt DEF SessionInv, SessionType
<1>2. port' \in Seq(Completions) /\ Len(port') = Len(port) - 1
      /\ \A i \in 1 .. Len(port') : i + 1 \in 1 .. Len(port) /\ port'[i] = port[i + 1]
  BY <1>0, <1>1
<1>3. port[1] # Zero
  BY <1>1 DEF Zero, IoTypes
<1>4. ASSUME NEW i \in 1 .. Len(port'), port'[i] # Zero
      PROVE  /\ port'[i].slot \in Slots /\ port'[i].type \in IoTypes
             /\ io'[port'[i].slot][port'[i].type] = "done"
             /\ \A j \in 1 .. Len(port') :
                  port'[j].slot = port'[i].slot /\ port'[j].type = port'[i].type => j = i
  <2>1. /\ port'[i].slot \in Slots /\ port'[i].type \in IoTypes
        /\ io[port'[i].slot][port'[i].type] = "done"
        /\ \A j \in 1 .. Len(port) :
             port[j].slot = port'[i].slot /\ port[j].type = port'[i].type => j = i + 1
    BY <1>2, <1>4 DEF SessionInv, PortOK
  <2>2. ~(port'[i].slot = s /\ port'[i].type = ty)
    <3>1. port[1].slot = s /\ port[1].type = ty
      BY <1>1
    <3>2. 1 # i + 1
      OBVIOUS
    <3> QED
      BY <1>1, <2>1, <3>1, <3>2
  <2>3. \A j \in 1 .. Len(port') :
          port'[j].slot = port'[i].slot /\ port'[j].type = port'[i].type => j = i
    <3> TAKE j \in 1 .. Len(port')
    <3>1. port'[j].slot = port'[i].slot /\ port'[j].type = port'[i].type => j + 1 = i + 1
      BY <1>2, <2>1
    <3> QED
      BY <3>1
  <2> QED
    BY <2>1, <2>2, <2>3 DEF OthersDone
<1> QED
  BY <1>2, <1>4 DEF PortOK

\* A completion comes: one of Stop's, or of an operation that is done now.
LEMMA PortGets ==
  ASSUME SessionInv, NEW c \in Completions, port' = Append(port, c),
         \/ c = Zero
         \/ /\ c.slot \in Slots /\ c.type \in IoTypes
            /\ io[c.slot][c.type] # "done" /\ io'[c.slot][c.type] = "done",
         \A u \in Slots, uy \in IoTypes : io[u][uy] = "done" => io'[u][uy] = "done"
  PROVE  PortOK' /\ port' \in Seq(Completions)
<1>1. port \in Seq(Completions) /\ Len(port) \in Nat
  BY DEF SessionInv, SessionType
<1>2. /\ port' \in Seq(Completions) /\ Len(port') = Len(port) + 1
      /\ port'[Len(port')] = c
      /\ \A i \in 1 .. Len(port') : i # Len(port') => i \in 1 .. Len(port) /\ port'[i] = port[i]
  BY <1>1
<1>3. \A u \in Slots : Zero.slot # u
  BY LifeAssumption DEF Zero
<1>4. ASSUME NEW i \in 1 .. Len(port'), port'[i] # Zero
      PROVE  /\ port'[i].slot \in Slots /\ port'[i].type \in IoTypes
             /\ io'[port'[i].slot][port'[i].type] = "done"
             /\ \A j \in 1 .. Len(port') :
                  port'[j].slot = port'[i].slot /\ port'[j].type = port'[i].type => j = i
  <2>1. CASE i = Len(port')
    <3>1. port'[i] = c /\ c.slot \in Slots /\ c.type \in IoTypes /\ io'[c.slot][c.type] = "done"
          /\ io[c.slot][c.type] # "done"
      BY <1>2, <1>4, <2>1
    <3>2. \A j \in 1 .. Len(port) : ~(port[j].slot = c.slot /\ port[j].type = c.type)
      <4> TAKE j \in 1 .. Len(port)
      <4>1. CASE port[j] = Zero
        BY <1>3, <3>1, <4>1
      <4>2. CASE port[j] # Zero
        BY <3>1, <4>2 DEF SessionInv, PortOK
      <4> QED
        BY <4>1, <4>2
    <3> QED
      BY <1>2, <2>1, <3>1, <3>2
  <2>2. CASE i # Len(port')
    <3>1. i \in 1 .. Len(port) /\ port'[i] = port[i] /\ port[i] # Zero
      BY <1>2, <1>4, <2>2
    <3>2. /\ port[i].slot \in Slots /\ port[i].type \in IoTypes
          /\ io[port[i].slot][port[i].type] = "done"
          /\ \A j \in 1 .. Len(port) :
               port[j].slot = port[i].slot /\ port[j].type = port[i].type => j = i
      BY <3>1 DEF SessionInv, PortOK
    <3>3. ~(c.slot = port[i].slot /\ c.type = port[i].type)
      BY <1>3, <3>2
    <3>4. \A j \in 1 .. Len(port') :
            port'[j].slot = port[i].slot /\ port'[j].type = port[i].type => j = i
      BY <1>2, <3>2, <3>3
    <3> QED
      BY <3>1, <3>2, <3>4
  <2> QED
    BY <2>1, <2>2
<1> QED
  BY <1>2, <1>4 DEF PortOK

----------------------------------------------------------------------------
(***************************************************************************)
(* Every step keeps them.                                                  *)
(***************************************************************************)

LEMMA MainKeepsExact ==
  ASSUME Exact,
         \/ StPort \/ StListen \/ StRun \/ StFails \/ SpFlag \/ SpListen \/ SpWait \/ SpPort
         \/ \E t \in Threads : StThread(t)
  PROVE  Exact'
<1>1. UNCHANGED <<stackVars, toPush, st, work, port, sessionVars>>
  BY DEF StPort, StListen, StRun, StFails, SpFlag, SpListen, SpWait, SpPort, StThread
<1> QED
  BY <1>1, AllQuiet DEF Exact

\* A finite set of numbers has a greatest one.
LEMMA MaxIn ==
  ASSUME NEW S \in SUBSET Nat, IsFiniteSet(S), S # {}
  PROVE  Max(S) \in S
<1> DEFINE F == {T \in SUBSET S : T # {} => \E x \in T : \A y \in T : x >= y}
<1>1. {} \in F
  OBVIOUS
<1>2. ASSUME NEW T \in SUBSET S, T # {}, \A x \in T : T \ {x} \in F
      PROVE  T \in F
  <2>1. PICK x \in T : TRUE
    BY <1>2
  <2>2. CASE T = {x}
    BY <2>2
  <2>3. CASE T # {x}
    <3>1. T \ {x} \in F /\ T \ {x} # {}
      BY <1>2, <2>1, <2>3
    <3>2. PICK y \in T \ {x} : \A z \in T \ {x} : y >= z
      BY <3>1
    <3>3. x \in Nat /\ y \in Nat /\ \A z \in T : z \in Nat
      OBVIOUS
    <3>4. CASE x >= y
      <4>1. \A z \in T : x >= z
        BY <3>2, <3>3, <3>4
      <4> QED
        BY <2>1, <4>1
    <3>5. CASE ~(x >= y)
      <4>1. \A z \in T : y >= z
        BY <3>2, <3>3, <3>5
      <4> QED
        BY <3>2, <4>1
    <3> QED
      BY <3>4, <3>5
  <2> QED
    BY <2>2, <2>3
<1>3. F = SUBSET S
  <2> HIDE DEF F
  <2>1. F \in SUBSET SUBSET S
    BY DEF F
  <2> QED
    BY <1>1, <1>2, <2>1, SizeInduction
<1>4. \E x \in S : \A y \in S : x >= y
  BY <1>3
<1> QED
  BY <1>4 DEF Max

LEMMA StPushKeeps ==
  ASSUME Exact, StPush
  PROVE  Exact'
<1>0. PICK v : v = Max(toPush)
  OBVIOUS
<1>1. /\ toPush # {} /\ PushAlloc(Main, v) /\ toPush' = toPush \ {v}
      /\ UNCHANGED <<st, work, port, sessionVars>>
  BY <1>0 DEF StPush
<1>2. v \in toPush /\ v \in Slots
  <2>1. toPush \subseteq Slots /\ IsFiniteSet(Slots) /\ Slots \subseteq Nat
    BY LifeAssumption DEF Exact, SessionInv, SessionType
  <2>2. IsFiniteSet(toPush) /\ toPush \in SUBSET Nat
    BY <2>1, FS_Subset
  <2> QED
    BY <1>0, <1>1, <2>1, <2>2, MaxIn
<1>3. Main \in Users
  BY LifeAssumption
<1>4. PICK c \in Seq(Nodes) : Whole(c)
  BY DEF Exact, StackInv
<1>5. Elsewhere(v) = 1 /\ work[Acceptor] # v /\ ~live[v]
  <2>1. Placed(c, v)
    BY <1>2, <1>4 DEF Whole
  <2> QED
    BY <1>2, <2>1 DEF Placed, Elsewhere
<1>6. /\ Elsewhere(v)' = 0
      /\ \A s \in Slots \ {v} : Elsewhere(s)' = Elsewhere(s)
      /\ \A s \in Slots : s \in toPush' => ~live'[s]
  <2>1. \A s \in Slots : s \in toPush => ~live[s]
    BY <1>4 DEF Whole, Placed
  <2> QED
    BY <1>1, <1>5, <2>1 DEF Elsewhere, sessionVars
<1>7. StackInv'
  BY <1>1, <1>2, <1>3, <1>5, <1>6, PushAllocKeeps DEF Exact
<1>8. SessionInv' /\ PacketsExact'
  BY <1>1, PacketsQuiet DEF Exact, SessionInv, SessionType, WorkOK, DeadOK, PortOK, sessionVars
<1> QED
  BY <1>7, <1>8 DEF Exact

LEMMA SpPostKeeps ==
  ASSUME Exact, SpPost
  PROVE  Exact'
<1>1. /\ UNCHANGED <<stackVars, toPush, st, work, sessionVars>>
      /\ port' = Append(port, Zero)
  BY DEF SpPost
<1>2. Zero \in Completions
  BY DEF Zero, Completions
<1>3. PortOK' /\ port' \in Seq(Completions)
  BY <1>1, <1>2, PortGets DEF Exact, sessionVars
<1>4. SessionInv'
  BY <1>1, <1>3 DEF Exact, SessionInv, SessionType, WorkOK, DeadOK, sessionVars
<1> QED
  BY <1>1, <1>4, PacketsQuiet, StackQuiet DEF Exact, sessionVars

\* Stop gives back what the sessions that live have left; the others have nothing.
LEMMA SpCleanKeeps ==
  ASSUME Exact, SpClean
  PROVE  Exact'
<1>1. /\ UNCHANGED <<stackVars, toPush, st, work, port, live, io, isSending>>
      /\ sending' = [s \in Slots |-> 0] /\ queued' = [s \in Slots |-> 0]
  BY DEF SpClean
<1>2. taken' = taken - Packets(sending, queued, {s \in Slots : live[s]})
  BY DEF SpClean, LeftOver, Packets, MapThenSumSet, MapThenFoldSet
<1>3. IsFiniteSet(Slots)
  BY LifeAssumption
<1>4. Packets(sending, queued, Slots) = Packets(sending, queued, {s \in Slots : live[s]})
  <2>1. sending \in [Slots -> Nat] /\ queued \in [Slots -> Nat]
    BY DEF Exact, SessionInv, SessionType
  <2>2. \A s \in Slots \ {s \in Slots : live[s]} : sending[s] = 0 /\ queued[s] = 0
    BY DEF Exact, SessionInv, DeadOK
  <2> QED
    BY <1>3, <2>1, <2>2, PacketsRest
<1>5. Packets(sending', queued', Slots) = 0
  <2>1. PICK a : a = [s \in Slots |-> 0]
    OBVIOUS
  <2>2. a \in [Slots -> Nat] /\ \A s \in Slots \ {} : a[s] = 0
    BY <2>1
  <2>3. Packets(a, a, Slots) = Packets(a, a, {})
    BY <1>3, <2>2, PacketsRest
  <2> QED
    BY <1>1, <2>1, <2>3, PacketsNone
<1>6. taken' = 0
  <2>1. Packets(sending, queued, Slots) \in Nat
    BY <1>3, PacketsTake DEF Exact, SessionInv, SessionType
  <2> QED
    BY <1>2, <1>4, <2>1, PacketsAre DEF Exact
<1>7. SessionInv'
  BY <1>1 DEF Exact, SessionInv, SessionType, WorkOK, DeadOK, PortOK
<1> QED
  BY <1>1, <1>5, <1>6, <1>7, PacketsAre, StackQuiet DEF Exact

\* The accept thread, but for the steps that take an index to another place.
LEMMA AcceptKeepsExact ==
  ASSUME Exact, LifeInv, AcTest \/ Accept \/ AcceptFails \/ AcPop \/ AcFull
  PROVE  Exact'
<1> USE UsersFacts DEF Exact
<1>1. work[Acceptor] \in Slots \cup {-1} /\ st[Acceptor] \in {"loop", "accept", "pop", "open", "release", "ended"}
      /\ work = [work EXCEPT ![Acceptor] = work[Acceptor]] /\ st = [st EXCEPT ![Acceptor] = st[Acceptor]]
  BY DEF SessionInv, SessionType
<1>2. CASE AcTest \/ Accept \/ AcceptFails
  <2>1. /\ UNCHANGED <<stackVars, toPush, work, port, sessionVars>> /\ st[Acceptor] # "open"
        /\ \E l \in {"loop", "accept", "pop", "ended"} : st' = [st EXCEPT ![Acceptor] = l]
    BY <1>2 DEF AcTest, Accept, AcceptFails, At, Goto, mainVars
  <2>2. work[Acceptor] = -1
    BY <2>1 DEF SessionInv, WorkOK
  <2>3. SessionInv' /\ PacketsExact'
    BY <1>1, <2>1, <2>2, AcceptorGoes
  <2> QED
    BY <2>1, <2>3, StackQuiet DEF sessionVars
<1>3. CASE AcPop
  <2>1. UNCHANGED <<toPush, st, work, port, sessionVars>> /\ PopTop(Acceptor)
    BY <1>3 DEF AcPop, lifeVars, mainVars
  <2>2. StackInv'
    BY <2>1, SmallSteps DEF sessionVars
  <2>3. SessionInv' /\ PacketsExact'
    BY <2>1, PacketsQuiet DEF SessionInv, SessionType, WorkOK, DeadOK, PortOK, sessionVars
  <2> QED
    BY <2>2, <2>3
<1>4. CASE AcFull
  <2>1. /\ UNCHANGED <<toPush, work, port, sessionVars>> /\ PopNothing(Acceptor)
        /\ st' = [st EXCEPT ![Acceptor] = "loop"] /\ at[Acceptor] = "empty"
    BY <1>4 DEF AcFull, PopNothing, Return, Move, Goto, mainVars
  <2>2. StackInv'
    BY <2>1, SmallSteps DEF sessionVars
  <2>3. st[Acceptor] = "pop"
    BY <2>1 DEF LifeInv, PopOK
  <2>4. work[Acceptor] = -1
    BY <2>3 DEF SessionInv, WorkOK
  <2>5. SessionInv' /\ PacketsExact'
    BY <1>1, <2>1, <2>4, AcceptorGoes
  <2> QED
    BY <2>2, <2>5
<1> QED
  BY <1>2, <1>3, <1>4

\* The index the accept thread has in hand is in no other place.
LEMMA InWork ==
  ASSUME StackInv, NEW s \in Slots, work[Acceptor] = s
  PROVE  /\ Elsewhere(s) = 1 /\ s \notin toPush /\ ~live[s]
         /\ \A u \in Slots : u \in toPush => ~live[u]
<1>1. PICK c \in Seq(Nodes) : Whole(c)
  BY DEF StackInv
<1>2. Placed(c, s) /\ \A u \in Slots : u \in toPush => ~live[u]
  BY <1>1 DEF Whole, Placed
<1> QED
  BY <1>2 DEF Placed, Elsewhere

LEMMA AcGotKeeps ==
  ASSUME Exact, LifeInv, AcGot
  PROVE  Exact'
<1> USE UsersFacts DEF Exact
<1>0. PICK v : v = Taken(Acceptor)
  OBVIOUS
<1>1. /\ PopFree(Acceptor) /\ work' = [work EXCEPT ![Acceptor] = v]
      /\ st' = [st EXCEPT ![Acceptor] = "open"] /\ UNCHANGED <<toPush, port, sessionVars>>
  BY <1>0 DEF AcGot, Goto, mainVars
<1>2. at[Acceptor] = "got" /\ st[Acceptor] = "pop"
  BY <1>1 DEF PopFree, Return, Move, LifeInv, PopOK
<1>3. PICK c \in Seq(Nodes) : Whole(c)
  BY DEF StackInv
<1>4. v \in Slots
  BY <1>0, <1>2, <1>3, InHand DEF Taken
<1>5. work[Acceptor] = -1 /\ v # -1
  BY <1>2, <1>4, LifeAssumption DEF SessionInv, WorkOK
<1>6. work'[Acceptor] = v
  BY <1>1 DEF SessionInv, SessionType
<1>7. -1 \notin Slots
  BY LifeAssumption
<1>8. /\ Elsewhere(v)' = Elsewhere(v) + 1
      /\ \A s \in Slots \ {v} : Elsewhere(s)' = Elsewhere(s)
      /\ \A s \in Slots : s \in toPush' => ~live'[s]
  <2>1. \A s \in Slots : s \in toPush => ~live[s]
    BY <1>3 DEF Whole, Placed
  <2>2. \A s : s \in toPush' \/ live'[s] <=> s \in toPush \/ live[s]
    BY <1>1 DEF sessionVars
  <2>3. Elsewhere(v)' = Elsewhere(v) + 1
    BY <1>4, <1>5, <1>6, <1>7, <2>2 DEF Elsewhere
  <2>4. \A s \in Slots \ {v} : Elsewhere(s)' = Elsewhere(s)
    BY <1>5, <1>6, <1>7, <2>2 DEF Elsewhere
  <2> QED
    BY <1>1, <2>1, <2>3, <2>4 DEF sessionVars
<1>9. StackInv'
  BY <1>0, <1>1, <1>4, <1>8, PopFreeKeeps
<1>10. SessionInv' /\ PacketsExact'
  BY <1>1, <1>4, <1>5, AcceptorGoes
<1> QED
  BY <1>9, <1>10

LEMMA AcRejectKeeps ==
  ASSUME Exact, AcReject
  PROVE  Exact'
<1> USE UsersFacts DEF Exact
<1>0. PICK v : v = work[Acceptor]
  OBVIOUS
<1>1. /\ PushAlloc(Acceptor, v) /\ work' = [work EXCEPT ![Acceptor] = -1]
      /\ st[Acceptor] = "open"
      /\ st' = [st EXCEPT ![Acceptor] = "loop"] /\ UNCHANGED <<toPush, port, sessionVars>>
  BY <1>0 DEF AcReject, Goto, Drop, At, mainVars
<1>2. v \in Slots
  BY <1>0, <1>1 DEF SessionInv, SessionType, WorkOK
<1>3. Elsewhere(v) = 1 /\ v \notin toPush /\ ~live[v] /\ \A u \in Slots : u \in toPush => ~live[u]
  BY <1>0, <1>2, InWork
<1>4. work'[Acceptor] = -1 /\ -1 \notin Slots
  BY <1>1, LifeAssumption DEF SessionInv, SessionType
<1>5. Elsewhere(v)' = 0 /\ \A s \in Slots \ {v} : Elsewhere(s)' = Elsewhere(s)
  BY <1>0, <1>1, <1>2, <1>3, <1>4 DEF Elsewhere, sessionVars
<1>6. \A s \in Slots : s \in toPush' => ~live'[s]
  BY <1>1, <1>3 DEF sessionVars
<1>7. StackInv'
  BY <1>1, <1>2, <1>3, <1>5, <1>6, PushAllocKeeps
<1>8. SessionInv' /\ PacketsExact'
  BY <1>1, AcceptorGoes
<1> QED
  BY <1>7, <1>8

LEMMA AcOpenKeeps ==
  ASSUME Exact, AcOpen
  PROVE  Exact'
<1> USE UsersFacts DEF Exact
<1>1. PICK s : s = work[Acceptor]
  OBVIOUS
<1>2. /\ st[Acceptor] = "open" /\ st' = [st EXCEPT ![Acceptor] = "loop"]
      /\ work' = [work EXCEPT ![Acceptor] = -1]
      /\ live' = [live EXCEPT ![s] = TRUE] /\ io' = [io EXCEPT ![s].recv = "posted"]
      /\ isSending' = [isSending EXCEPT ![s] = FALSE] /\ sending' = [sending EXCEPT ![s] = 0]
      /\ UNCHANGED <<stackVars, toPush, port, queued, taken>>
  BY <1>1 DEF AcOpen, Goto, Drop, At, mainVars
<1>3. s \in Slots
  BY <1>1, <1>2 DEF SessionInv, SessionType, WorkOK
<1>4. Elsewhere(s) = 1 /\ s \notin toPush /\ ~live[s] /\ \A u \in Slots : u \in toPush => ~live[u]
  BY <1>1, <1>3, InWork
<1>5. /\ SessionType /\ work'[Acceptor] = -1 /\ -1 \notin Slots /\ live'[s] = TRUE
      /\ \A u \in Slots \ {s} : live'[u] = live[u] /\ io'[u] = io[u] /\ sending'[u] = sending[u]
                                /\ isSending'[u] = isSending[u]
      /\ io'[s]["recv"] = "posted" /\ io'[s]["send"] = io[s]["send"] /\ sending'[s] = 0
      /\ isSending'[s] = FALSE
      /\ sending[s] = 0 /\ queued[s] = 0 /\ \A ty \in IoTypes : io[s][ty] = "none"
  <2>1. SessionType /\ -1 \notin Slots
    BY LifeAssumption DEF SessionInv
  <2>2. work'[Acceptor] = -1 /\ live'[s] = TRUE /\ sending'[s] = 0 /\ isSending'[s] = FALSE
        /\ \A u \in Slots \ {s} : live'[u] = live[u] /\ io'[u] = io[u] /\ sending'[u] = sending[u]
                                  /\ isSending'[u] = isSending[u]
    BY <1>2, <1>3, <2>1 DEF SessionType
  <2>3. io'[s]["recv"] = "posted" /\ io'[s]["send"] = io[s]["send"]
    BY <1>2, <1>3, <2>1 DEF SessionType, IoTypes
  <2> QED
    BY <1>3, <1>4, <2>1, <2>2, <2>3 DEF SessionInv, DeadOK
<1>6. StackInv'
  <2>1. \A u \in Slots : Elsewhere(u)' = Elsewhere(u)
    BY <1>1, <1>2, <1>4, <1>5 DEF Elsewhere
  <2>2. \A u \in Slots : u \in toPush' => ~live'[u]
    BY <1>2, <1>4, <1>5
  <2> QED
    BY <1>2, <2>1, <2>2, IndicesMove
<1>7. SessionType'
  <2>1. io' \in [Slots -> [IoTypes -> {"none", "posted", "done"}]]
    BY <1>2, <1>3, <1>5 DEF SessionType, IoTypes
  <2> QED
    BY <1>2, <1>3, <1>5, <2>1 DEF SessionType
<1>8. WorkOK'
  <2>1. /\ st'[Acceptor] = "loop"
        /\ \A t \in Workers : st'[t] = st[t] /\ work'[t] = work[t]
    BY <1>2, <1>5 DEF SessionType
  <2>2. \A t \in Workers : st[t] = "release" => work[t] # s
    BY <1>4 DEF SessionInv, WorkOK
  <2> QED
    BY <1>5, <2>1, <2>2 DEF SessionInv, WorkOK
<1>9. DeadOK'
  BY <1>2, <1>5 DEF SessionInv, DeadOK, IoTypes
<1>10. PortOK'
  <2>1. \A u \in Slots, uy \in IoTypes : io[u][uy] = "done" => io'[u][uy] = "done"
    BY <1>5
  <2> QED
    BY <1>2, <2>1 DEF SessionInv, PortOK
<1>11. PacketsExact'
  <2>1. sending' = sending
    BY <1>2, <1>5 DEF SessionType
  <2> QED
    BY <1>2, <2>1, PacketsQuiet
<1> QED
  BY <1>6, <1>7, <1>8, <1>9, <1>10, <1>11 DEF SessionInv

\* Worker t is done with s: if nothing of it is under way any more, t releases it.
LEMMA SettleKeeps ==
  ASSUME SessionInv, NEW t \in Workers, NEW s \in Slots, st[t] = "loop", live[s], live' = live,
         \A u \in Workers : st[u] = "release" => work[u] # s,
         \A u \in Slots \ {s} : io'[u] = io[u],
         \/ UNCHANGED <<st, work>>
         \/ /\ \A ty \in IoTypes : io'[s][ty] = "none"
            /\ Goto(t, "release") /\ work' = [work EXCEPT ![t] = s]
  PROVE  /\ WorkOK' /\ work'[Acceptor] = work[Acceptor]
         /\ st' \in [Threads -> {"loop", "accept", "pop", "open", "release", "ended"}]
         /\ work' \in [Threads -> Slots \cup {-1}]
<1> USE UsersFacts
<1>1. CASE UNCHANGED <<st, work>>
  BY <1>1 DEF SessionInv, SessionType, WorkOK
<1>2. CASE /\ \A ty \in IoTypes : io'[s][ty] = "none"
           /\ Goto(t, "release") /\ work' = [work EXCEPT ![t] = s]
  <2>1. /\ st'[t] = "release" /\ work'[t] = s
        /\ \A u \in Threads \ {t} : st'[u] = st[u] /\ work'[u] = work[u]
        /\ st' \in [Threads -> {"loop", "accept", "pop", "open", "release", "ended"}]
        /\ work' \in [Threads -> Slots \cup {-1}]
    BY <1>2 DEF SessionInv, SessionType, Goto
  <2>2. WorkOK'
    BY <1>2, <2>1 DEF SessionInv, WorkOK
  <2> QED
    BY <2>1, <2>2
<1> QED
  BY <1>1, <1>2

LEMMA TakeZeroKeeps ==
  ASSUME Exact, NEW t \in Workers, TakeZero(t)
  PROVE  Exact'
<1> USE UsersFacts DEF Exact
<1>1. /\ st[t] = "loop" /\ port # <<>> /\ port' = Tail(port)
      /\ st' = [st EXCEPT ![t] = "ended"] /\ UNCHANGED <<stackVars, toPush, work, sessionVars>>
  BY DEF TakeZero, Takes, At, Goto, mainVars
<1>2. port \in Seq(Completions)
  BY DEF SessionInv, SessionType
<1>3. port' \in Seq(Completions) /\ Len(port') = Len(port) - 1
      /\ \A i \in 1 .. Len(port') : i + 1 \in 1 .. Len(port) /\ port'[i] = port[i + 1]
  BY <1>1, <1>2
<1>4. PortOK'
  <2>1. ASSUME NEW i \in 1 .. Len(port'), port'[i] # Zero
        PROVE  /\ port'[i].slot \in Slots /\ port'[i].type \in IoTypes
               /\ io'[port'[i].slot][port'[i].type] = "done"
               /\ \A j \in 1 .. Len(port') :
                    port'[j].slot = port'[i].slot /\ port'[j].type = port'[i].type => j = i
    <3>1. /\ port'[i].slot \in Slots /\ port'[i].type \in IoTypes
          /\ io[port'[i].slot][port'[i].type] = "done"
          /\ \A j \in 1 .. Len(port) :
               port[j].slot = port'[i].slot /\ port[j].type = port'[i].type => j = i + 1
      BY <1>3, <2>1 DEF SessionInv, PortOK
    <3>2. \A j \in 1 .. Len(port') :
            port'[j].slot = port'[i].slot /\ port'[j].type = port'[i].type => j = i
      <4> TAKE j \in 1 .. Len(port')
      <4>1. port'[j].slot = port'[i].slot /\ port'[j].type = port'[i].type => j + 1 = i + 1
        BY <1>3, <3>1
      <4> QED
        BY <4>1
    <3> QED
      BY <1>1, <3>1, <3>2 DEF sessionVars
  <2> QED
    BY <2>1 DEF PortOK
<1>5. WorkOK'
  <2>1. /\ st'[Acceptor] = st[Acceptor] /\ st'[t] = "ended"
        /\ \A u \in Workers \ {t} : st'[u] = st[u]
    BY <1>1 DEF SessionInv, SessionType
  <2> QED
    BY <1>1, <2>1 DEF SessionInv, WorkOK, sessionVars
<1>6. SessionType' /\ DeadOK'
  BY <1>1, <1>3 DEF SessionInv, SessionType, DeadOK, sessionVars
<1> QED
  BY <1>1, <1>4, <1>5, <1>6, PacketsQuiet, StackQuiet DEF SessionInv, sessionVars

LEMMA TakeRecvKeeps ==
  ASSUME Exact, NEW t \in Workers, NEW s \in Slots, NEW n \in Answers, TakeRecv(t, s, n)
  PROVE  Exact'
<1> USE UsersFacts DEF Exact
<1>1. PICK sends \in BOOLEAN : sends = (n > 0 /\ ~isSending[s])
  OBVIOUS
<1>2. /\ HeadOf(s, "recv") /\ port' = Tail(port)
      /\ isSending' = [isSending EXCEPT ![s] = isSending[s] \/ sends]
      /\ sending' = [sending EXCEPT ![s] = IF sends THEN 1 ELSE sending[s]]
      /\ queued' = [queued EXCEPT ![s] = queued[s] + n - IF sends THEN 1 ELSE 0]
      /\ io' = [io EXCEPT ![s].recv = "posted", ![s].send = IF sends THEN "posted" ELSE @]
      /\ taken' = taken + n
      /\ UNCHANGED <<stackVars, toPush, st, work, live>>
  BY <1>1 DEF TakeRecv, Takes, HeadOf, mainVars
<1>3. "recv" \in IoTypes /\ "send" \in IoTypes /\ "recv" # "send" /\ IoTypes = {"recv", "send"}
  BY DEF IoTypes
<1>4. /\ io[s]["recv"] = "done" /\ live[s]
      /\ \A u \in Workers : st[u] = "release" => work[u] # s
  BY <1>2, <1>3, HeadIs
<1>5. n \in Nat /\ queued[s] \in Nat /\ sending[s] \in Nat /\ SessionType
  BY LifeAssumption DEF SessionInv, SessionType
<1>6. PICK x \in Nat, y \in Nat :
        /\ x = (IF sends THEN 1 ELSE sending[s]) /\ y = queued[s] + n - (IF sends THEN 1 ELSE 0)
  <2>1. sends => n > 0
    BY <1>1
  <2>2. queued[s] + n - (IF sends THEN 1 ELSE 0) \in Nat
    BY <1>5, <2>1
  <2> QED
    BY <1>5, <2>2
<1>7. sends => sending[s] = 0 /\ io[s]["send"] = "none"
  BY <1>1 DEF SessionInv, DeadOK
<1>8. PacketsExact'
  <2>1. x + y = sending[s] + queued[s] + n
    BY <1>5, <1>6, <1>7
  <2>2. taken \in Int
    <3>1. Packets(sending, queued, Slots) \in Nat
      BY <1>5, PacketsTake, LifeAssumption DEF SessionType
    <3> QED
      BY <3>1, PacketsAre
  <2>3. taken' = taken - sending[s] - queued[s] + x + y
    <3>1. PICK i, j, k : i = taken /\ j = sending[s] /\ k = queued[s]
      OBVIOUS
    <3>2. i \in Int /\ j \in Nat /\ k \in Nat /\ x + y = j + k + n
      BY <1>5, <2>1, <2>2, <3>1
    <3>3. i + n = i - j - k + x + y
      BY <1>5, <3>2
    <3> QED
      BY <1>2, <3>1, <3>3, Zenon
  <2>4. sending' = [sending EXCEPT ![s] = x] /\ queued' = [queued EXCEPT ![s] = y]
    BY <1>2, <1>6
  <2> QED
    BY <2>3, <2>4, PacketsMove
<1>9. /\ io' \in [Slots -> [IoTypes -> {"none", "posted", "done"}]]
      /\ io'[s]["recv"] = "posted"
      /\ io'[s]["send"] = IF sends THEN "posted" ELSE io[s]["send"]
      /\ \A u \in Slots \ {s} : io'[u] = io[u]
  BY <1>2, <1>3, <1>5 DEF SessionType
<1>10. PortOK' /\ port' \in Seq(Completions)
  <2>1. OthersDone(s, "recv")
    BY <1>3, <1>7, <1>9 DEF OthersDone
  <2> QED
    BY <1>2, <1>3, <2>1, PortTaken
<1>11. SessionType'
  BY <1>2, <1>5, <1>6, <1>9, <1>10 DEF SessionType
<1>12. WorkOK'
  BY <1>2, <1>4, <1>9 DEF SessionInv, WorkOK
<1>13. DeadOK'
  <2>1. \A u \in Slots \ {s} : /\ sending'[u] = sending[u] /\ queued'[u] = queued[u]
                               /\ isSending'[u] = isSending[u] /\ live'[u] = live[u]
    BY <1>2, <1>5 DEF SessionType
  <2>2. live'[s] /\ (~isSending'[s] => ~isSending[s] /\ ~sends) /\ sending'[s] = x
    BY <1>2, <1>4, <1>5, <1>6 DEF SessionType
  <2>3. ~isSending'[s] => sending'[s] = 0 /\ io'[s]["send"] = "none"
    BY <1>6, <1>9, <2>2 DEF SessionInv, DeadOK
  <2> QED
    BY <1>9, <2>1, <2>2, <2>3 DEF SessionInv, DeadOK
<1> QED
  BY <1>2, <1>8, <1>10, <1>11, <1>12, <1>13, StackQuiet DEF SessionInv

LEMMA TakeSendKeeps ==
  ASSUME Exact, NEW t \in Workers, NEW s \in Slots, TakeSend(t, s)
  PROVE  Exact'
<1> USE UsersFacts DEF Exact
<1>1. /\ HeadOf(s, "send") /\ port' = Tail(port)
      /\ st[t] = "loop"
      /\ sending' = [sending EXCEPT ![s] = queued[s]]
      /\ queued' = [queued EXCEPT ![s] = 0]
      /\ isSending' = [isSending EXCEPT ![s] = queued[s] > 0]
      /\ io' = [io EXCEPT ![s].send = IF queued[s] > 0 THEN "posted" ELSE "none"]
      /\ taken' = taken - sending[s]
      /\ \/ UNCHANGED <<st, work>>
         \/ /\ \A ty \in IoTypes : io'[s][ty] = "none"
            /\ Goto(t, "release") /\ work' = [work EXCEPT ![t] = s]
      /\ UNCHANGED <<stackVars, toPush, live>>
  BY DEF TakeSend, Takes, HeadOf, At, Settle, mainVars
<1>2. "recv" \in IoTypes /\ "send" \in IoTypes /\ "recv" # "send" /\ IoTypes = {"recv", "send"}
  BY DEF IoTypes
<1>3. /\ io[s]["send"] = "done" /\ live[s]
      /\ \A u \in Workers : st[u] = "release" => work[u] # s
  BY <1>1, <1>2, HeadIs
<1>4. queued[s] \in Nat /\ sending[s] \in Nat /\ SessionType
  BY DEF SessionInv, SessionType
<1>5. PacketsExact'
  <2>1. taken \in Int
    <3>1. Packets(sending, queued, Slots) \in Nat
      BY <1>4, PacketsTake, LifeAssumption DEF SessionType
    <3> QED
      BY <3>1, PacketsAre
  <2>2. taken' = taken - sending[s] - queued[s] + queued[s] + 0
    BY <1>1, <1>4, <2>1
  <2> QED
    BY <1>1, <1>4, <2>2, PacketsMove
<1>6. /\ io' \in [Slots -> [IoTypes -> {"none", "posted", "done"}]]
      /\ io'[s]["recv"] = io[s]["recv"]
      /\ io'[s]["send"] = IF queued[s] > 0 THEN "posted" ELSE "none"
      /\ \A u \in Slots \ {s} : io'[u] = io[u]
  BY <1>1, <1>2, <1>4 DEF SessionType
<1>7. PortOK' /\ port' \in Seq(Completions)
  <2>1. OthersDone(s, "send")
    BY <1>2, <1>6 DEF OthersDone
  <2> QED
    BY <1>1, <1>2, <2>1, PortTaken
<1>8. /\ WorkOK' /\ work'[Acceptor] = work[Acceptor]
      /\ st' \in [Threads -> {"loop", "accept", "pop", "open", "release", "ended"}]
      /\ work' \in [Threads -> Slots \cup {-1}]
  BY <1>1, <1>3, <1>6, SettleKeeps
<1>9. SessionType'
  <2>1. isSending' \in [Slots -> BOOLEAN] /\ sending' \in [Slots -> Nat] /\ queued' \in [Slots -> Nat]
    BY <1>1, <1>4 DEF SessionType
  <2> QED
    BY <1>1, <1>4, <1>6, <1>7, <1>8, <2>1 DEF SessionType
<1>10. DeadOK'
  <2>1. \A u \in Slots \ {s} : /\ sending'[u] = sending[u] /\ queued'[u] = queued[u]
                               /\ isSending'[u] = isSending[u] /\ live'[u] = live[u]
    BY <1>1, <1>4 DEF SessionType
  <2>2. live'[s] /\ (isSending'[s] <=> queued[s] > 0) /\ sending'[s] = queued[s]
    BY <1>1, <1>3, <1>4 DEF SessionType
  <2> QED
    BY <1>4, <1>6, <2>1, <2>2 DEF SessionInv, DeadOK
<1> QED
  BY <1>1, <1>5, <1>7, <1>8, <1>9, <1>10, StackQuiet DEF SessionInv

LEMMA TakeFailureKeeps ==
  ASSUME Exact, NEW t \in Workers, NEW s \in Slots, NEW ty \in IoTypes, TakeFailure(t, s, ty)
  PROVE  Exact'
<1> USE UsersFacts DEF Exact
<1>1. /\ HeadOf(s, ty) /\ port' = Tail(port)
      /\ st[t] = "loop"
      /\ io' = [io EXCEPT ![s][ty] = "none"]
      /\ \/ UNCHANGED <<st, work>>
         \/ /\ \A uy \in IoTypes : io'[s][uy] = "none"
            /\ Goto(t, "release") /\ work' = [work EXCEPT ![t] = s]
      /\ UNCHANGED <<stackVars, toPush, live, isSending, sending, queued, taken>>
  BY DEF TakeFailure, Takes, HeadOf, At, Settle, mainVars
<1>2. /\ io[s][ty] = "done" /\ live[s]
      /\ \A u \in Workers : st[u] = "release" => work[u] # s
  BY <1>1, HeadIs
<1>3. SessionType
  BY DEF SessionInv
<1>4. /\ io' \in [Slots -> [IoTypes -> {"none", "posted", "done"}]]
      /\ io'[s][ty] = "none" /\ \A uy \in IoTypes \ {ty} : io'[s][uy] = io[s][uy]
      /\ \A u \in Slots \ {s} : io'[u] = io[u]
  BY <1>1, <1>3 DEF SessionType
<1>5. PortOK' /\ port' \in Seq(Completions)
  <2>1. OthersDone(s, ty)
    BY <1>4 DEF OthersDone
  <2> QED
    BY <1>1, <2>1, PortTaken
<1>6. /\ WorkOK' /\ work'[Acceptor] = work[Acceptor]
      /\ st' \in [Threads -> {"loop", "accept", "pop", "open", "release", "ended"}]
      /\ work' \in [Threads -> Slots \cup {-1}]
  BY <1>1, <1>2, <1>4, SettleKeeps
<1>7. SessionType'
  BY <1>1, <1>3, <1>4, <1>5, <1>6 DEF SessionType
<1>8. DeadOK'
  BY <1>1, <1>2, <1>4 DEF SessionInv, DeadOK, IoTypes
<1> QED
  BY <1>1, <1>5, <1>6, <1>7, <1>8, PacketsQuiet, StackQuiet DEF SessionInv

LEMMA ReleaseKeeps ==
  ASSUME Exact, NEW t \in Workers, Release(t)
  PROVE  Exact'
<1> USE UsersFacts DEF Exact
<1>1. PICK s : s = work[t]
  OBVIOUS
<1>2. /\ st[t] = "release" /\ st' = [st EXCEPT ![t] = "loop"] /\ work' = [work EXCEPT ![t] = -1]
      /\ live' = [live EXCEPT ![s] = FALSE] /\ taken' = taken - (sending[s] + queued[s])
      /\ sending' = [sending EXCEPT ![s] = 0] /\ queued' = [queued EXCEPT ![s] = 0]
      /\ PushAlloc(t, s) /\ UNCHANGED <<toPush, port, io, isSending>>
  BY <1>1 DEF Release, At, Goto, Drop, LeftOver, mainVars
<1>3. /\ s \in Slots /\ live[s] /\ \A ty \in IoTypes : io[s][ty] = "none"
      /\ \A u \in Workers : st[u] = "release" /\ work[u] = s => u = t
  BY <1>1, <1>2 DEF SessionInv, WorkOK
<1>4. SessionType /\ sending[s] \in Nat /\ queued[s] \in Nat
  BY <1>3 DEF SessionInv, SessionType
<1>5. /\ live'[s] = FALSE /\ sending'[s] = 0 /\ queued'[s] = 0
      /\ \A u \in Slots \ {s} : live'[u] = live[u] /\ sending'[u] = sending[u] /\ queued'[u] = queued[u]
      /\ st'[t] = "loop" /\ \A u \in Threads \ {t} : st'[u] = st[u] /\ work'[u] = work[u]
      /\ work'[Acceptor] = work[Acceptor] /\ st'[Acceptor] = st[Acceptor]
  BY <1>2, <1>3, <1>4 DEF SessionType
<1>6. PICK c \in Seq(Nodes) : Whole(c)
  BY DEF StackInv
<1>7. Elsewhere(s) = 1 /\ s \notin toPush /\ work[Acceptor] # s
  <2>1. Placed(c, s)
    BY <1>3, <1>6 DEF Whole
  <2> QED
    BY <1>3, <2>1 DEF Placed, Elsewhere
<1>8. /\ Elsewhere(s)' = 0
      /\ \A u \in Slots \ {s} : Elsewhere(u)' = Elsewhere(u)
      /\ \A u \in Slots : u \in toPush' => ~live'[u]
  <2>1. \A u \in Slots : u \in toPush => ~live[u]
    BY <1>6 DEF Whole, Placed
  <2> QED
    BY <1>2, <1>5, <1>7, <2>1 DEF Elsewhere
<1>9. StackInv'
  BY <1>2, <1>3, <1>7, <1>8, PushAllocKeeps
<1>10. SessionType'
  BY <1>2, <1>3, <1>4 DEF SessionType
<1>11. WorkOK'
  BY <1>2, <1>3, <1>5 DEF SessionInv, WorkOK
<1>12. DeadOK' /\ PortOK'
  <2>1. PortOK'
    BY <1>2 DEF SessionInv, PortOK
  <2>2. ~live'[s] => sending'[s] = 0 /\ queued'[s] = 0 /\ \A ty \in IoTypes : io'[s][ty] = "none"
    BY <1>2, <1>3, <1>5
  <2>3. ~isSending'[s] => sending'[s] = 0 /\ io'[s]["send"] = "none"
    BY <1>2, <1>3, <1>5 DEF IoTypes
  <2>4. \A u \in Slots \ {s} :
          /\ live'[u] = live[u] /\ sending'[u] = sending[u] /\ queued'[u] = queued[u]
          /\ io'[u] = io[u] /\ isSending'[u] = isSending[u]
    BY <1>2, <1>5
  <2>5. DeadOK'
    BY <2>2, <2>3, <2>4 DEF SessionInv, DeadOK
  <2> QED
    BY <2>1, <2>5
<1>13. PacketsExact'
  <2>1. taken \in Int
    <3>1. Packets(sending, queued, Slots) \in Nat
      BY <1>4, PacketsTake, LifeAssumption DEF SessionType
    <3> QED
      BY <3>1, PacketsAre
  <2>2. taken' = taken - sending[s] - queued[s] + 0 + 0
    BY <1>2, <1>4, <2>1
  <2> QED
    BY <1>2, <1>3, <2>2, PacketsMove
<1> QED
  BY <1>9, <1>10, <1>11, <1>12, <1>13 DEF SessionInv

LEMMA SystemKeepsExact ==
  ASSUME Exact,
         \/ \E t \in Users : InStack(t)
         \/ \E s \in Slots, ty \in IoTypes, ok \in BOOLEAN : IoDone(s, ty, ok)
  PROVE  Exact'
<1> USE UsersFacts DEF Exact
<1>1. ASSUME NEW t \in Users, InStack(t)
      PROVE  Exact'
  <2>1. StackStep(t) /\ UNCHANGED <<toPush, st, work, port, sessionVars>>
    BY <1>1 DEF InStack, lifeVars, mainVars
  <2>2. toPush' = toPush /\ live' = live /\ work' = work /\ work'[Acceptor] = work[Acceptor]
    BY <2>1 DEF sessionVars
  <2>3. StackInv'
    BY <2>1, <2>2, SmallSteps, PushReadKeeps, PushCasKeeps, PopCasKeeps DEF StackStep
  <2>4. SessionInv' /\ PacketsExact'
    BY <2>1, PacketsQuiet DEF SessionInv, SessionType, WorkOK, DeadOK, PortOK, sessionVars
  <2> QED
    BY <2>3, <2>4
<1>2. ASSUME NEW s \in Slots, NEW ty \in IoTypes, NEW ok \in BOOLEAN, IoDone(s, ty, ok)
      PROVE  Exact'
  <2>1. PICK c : c = [slot |-> s, type |-> ty, ok |-> ok]
    OBVIOUS
  <2>2. /\ io[s][ty] = "posted" /\ io' = [io EXCEPT ![s][ty] = "done"] /\ port' = Append(port, c)
        /\ UNCHANGED <<stackVars, toPush, st, work, live, isSending, sending, queued, taken>>
    BY <1>2, <2>1 DEF IoDone, mainVars
  <2>3. SessionType
    BY DEF SessionInv
  <2>4. /\ io' \in [Slots -> [IoTypes -> {"none", "posted", "done"}]]
        /\ io'[s][ty] = "done" /\ \A uy \in IoTypes \ {ty} : io'[s][uy] = io[s][uy]
        /\ \A u \in Slots \ {s} : io'[u] = io[u]
    BY <2>2, <2>3 DEF SessionType
  <2>5. c \in Completions /\ c.slot = s /\ c.type = ty
    BY <2>1, LifeAssumption DEF Completions
  <2>6. PortOK' /\ port' \in Seq(Completions)
    <3>1. \A u \in Slots, uy \in IoTypes : io[u][uy] = "done" => io'[u][uy] = "done"
      BY <2>4
    <3> QED
      BY <2>2, <2>4, <2>5, <3>1, PortGets
  <2>7. live[s] /\ \A t \in Workers : st[t] = "release" => work[t] # s
    BY <2>2 DEF SessionInv, DeadOK, WorkOK
  <2>8. SessionType' /\ WorkOK' /\ DeadOK'
    BY <2>2, <2>3, <2>4, <2>6, <2>7 DEF SessionInv, SessionType, WorkOK, DeadOK, IoTypes
  <2> QED
    BY <2>2, <2>6, <2>8, PacketsQuiet, StackQuiet DEF SessionInv
<1> QED
  BY <1>1, <1>2

----------------------------------------------------------------------------
\* All indices are still to be pushed, and no packet is taken.
LEMMA ExactInit == Init => ExactInv
<1> SUFFICES ASSUME Init PROVE ExactInv
  OBVIOUS
<1> USE UsersFacts
<1>1. PICK a : a = [s \in Slots |-> 0]
  OBVIOUS
<1>2. /\ top = Make(0, NoNode) /\ below = [n \in Nodes |-> NoNode]
      /\ data = [n \in Nodes |-> Nothing] /\ free = Nodes
      /\ at = [t \in Users |-> "out"] /\ node = [t \in Users |-> NoNode]
      /\ belowSeen = [t \in Users |-> NoNode] /\ topSeen = [t \in Users |-> Make(0, NoNode)]
  BY DEF Init, StackInit
<1>3. /\ toPush = Slots /\ st = [t \in Threads |-> "loop"] /\ work = [t \in Threads |-> -1]
      /\ port = <<>> /\ live = [s \in Slots |-> FALSE] /\ isSending = [s \in Slots |-> FALSE]
      /\ io = [s \in Slots |-> [ty \in IoTypes |-> "none"]]
      /\ sending = a /\ queued = a /\ taken = 0
  BY <1>1 DEF Init
<1>4. PacketsExact
  <2>1. a \in [Slots -> Nat] /\ \A s \in Slots \ {} : a[s] = 0
    BY <1>1
  <2>2. Packets(a, a, Slots) = Packets(a, a, {})
    <3>1. IsFiniteSet(Slots)
      BY LifeAssumption
    <3> QED
      BY <2>1, <3>1, PacketsRest
  <2> QED
    BY <1>3, <2>2, PacketsNone, PacketsAre
<1>5. Make(0, NoNode) \in Word /\ Make(0, NoNode).ptr = NoNode
  BY MakeIs, MakeWord
<1>6. StackType /\ \A t \in Users : HandOK(t)
  BY <1>2, <1>5 DEF StackType, HandOK, Pushing, Popping
<1>7. Whole(<<>>)
  <2>1. <<>> \in Seq(Nodes) /\ Places(<<>>) = {} /\ On(<<>>) = {}
    BY DEF Places, On
  <2>2. Linked(<<>>)
    BY <1>2, <1>5, <2>1 DEF Linked
  <2>3. Apart(<<>>)
    BY <1>2, <2>1, StackAssumption DEF Apart, Popping
  <2>4. Counts(<<>>) = {}
    BY <1>2, <2>1 DEF Counts
  <2>5. \A s \in Slots : Placed(<<>>, s)
    <3> TAKE s \in Slots
    <3>1. With(<<>>, s) = {}
      BY <2>4 DEF With
    <3>2. s # -1
      BY LifeAssumption
    <3>3. Elsewhere(s) = 1 /\ ~live[s]
      BY <1>3, <3>2 DEF Elsewhere
    <3> QED
      BY <3>1, <3>3 DEF Placed
  <2> QED
    BY <2>2, <2>3, <2>4, <2>5 DEF Whole
<1>8. StackInv
  <2>1. <<>> \in Seq(Nodes)
    OBVIOUS
  <2> QED
    BY <1>6, <1>7, <2>1 DEF StackInv
<1>9. SessionType
  BY <1>1, <1>3 DEF SessionType
<1>10. -1 \notin Slots /\ st[Acceptor] = "loop" /\ work[Acceptor] = -1
       /\ \A t \in Workers : st[t] # "release"
  BY <1>3, LifeAssumption
<1>11. WorkOK /\ DeadOK /\ PortOK
  BY <1>1, <1>3, <1>10 DEF WorkOK, DeadOK, PortOK, IoTypes
<1> QED
  BY <1>4, <1>8, <1>9, <1>11 DEF ExactInv, SessionInv

\* After the destructor all threads have ended, and nothing happens to a packet.
LEMMA NothingAfter ==
  ASSUME LifeInv, main = "freed", Next
  PROVE  main' = "freed" /\ UNCHANGED <<sending, queued, taken>>
<1>1. ~running /\ \A t \in begun : st[t] = "ended"
  BY DEF LifeInv, MainOK, AllEnded
<1>2. ~Started /\ ~StFails /\ ~SpFlag /\ ~Stopped
  BY DEF Started, StPort, StListen, StPush, StRun, StThread, StFails, SpFlag, Stopped,
         SpListen, SpPost, SpWait, SpClean, SpPort, Destroy, MainGo
<1>3. \A t \in Workers : ~WkStep(t)
  <2> TAKE t \in Workers
  <2>1. ~At(t, "loop") /\ ~At(t, "release")
    BY <1>1 DEF At
  <2>2. \A c : ~Takes(t, c)
    BY <2>1 DEF Takes
  <2> QED
    BY <2>1, <2>2, Zenon DEF WkStep, TakeZero, Release, TakeRecv, TakeSend, TakeFailure
<1>4. CASE AcStep \/ Accept \/ AcceptFails
  <2>1. ~AcOpen
    BY <1>1 DEF AcOpen, At
  <2> QED
    BY <1>4, <2>1 DEF AcStep, AcTest, Accept, AcceptFails, AcPop, AcFull, AcGot, AcReject,
                      mainVars, sessionVars, lifeVars
<1>5. CASE \E t \in Users : InStack(t)
  BY <1>5 DEF InStack, lifeVars, mainVars, sessionVars
<1>6. CASE \E s \in Slots, ty \in IoTypes, ok \in BOOLEAN : IoDone(s, ty, ok)
  BY <1>6 DEF IoDone, mainVars
<1> QED
  BY <1>2, <1>3, <1>4, <1>5, <1>6 DEF Next

\* Every step but the destructor's.
LEMMA NextKeepsExact ==
  ASSUME Exact, LifeInv, Next
  PROVE  Exact' \/ Destroy
<1>1. CASE Started \/ StFails \/ SpFlag \/ Stopped
  BY <1>1, MainKeepsExact, StPushKeeps, SpPostKeeps, SpCleanKeeps DEF Started, Stopped
<1>2. CASE AcStep \/ Accept \/ AcceptFails
  BY <1>2, AcceptKeepsExact, AcGotKeeps, AcRejectKeeps, AcOpenKeeps DEF AcStep
<1>3. ASSUME NEW t \in Workers, WkStep(t)
      PROVE  Exact'
  <2>1. CASE TakeZero(t) \/ Release(t)
    BY <2>1, TakeZeroKeeps, ReleaseKeeps
  <2>2. CASE \E s \in Slots : TakeSend(t, s)
    BY <2>2, TakeSendKeeps
  <2>3. CASE \E s \in Slots : \E n \in Answers : TakeRecv(t, s, n)
    BY <2>3, TakeRecvKeeps
  <2>4. CASE \E s \in Slots : \E ty \in IoTypes : TakeFailure(t, s, ty)
    BY <2>4, TakeFailureKeeps
  <2> QED
    BY <1>3, <2>1, <2>2, <2>3, <2>4 DEF WkStep
<1>4. CASE \E t \in Users : InStack(t)
  BY <1>4, SystemKeepsExact
<1>5. CASE \E s \in Slots, ty \in IoTypes, ok \in BOOLEAN : IoDone(s, ty, ok)
  BY <1>5, SystemKeepsExact
<1> QED
  BY <1>1, <1>2, <1>3, <1>4, <1>5 DEF Next

LEMMA ExactInvariant == Spec => []ExactInv
<1>1. LifeInv /\ ExactInv /\ [Next]_vars => ExactInv'
  <2> SUFFICES ASSUME LifeInv, ExactInv, [Next]_vars PROVE ExactInv'
    OBVIOUS
  <2>1. CASE main = "freed"
    <3>1. main' = "freed" /\ UNCHANGED <<sending, queued, taken>>
      BY <2>1, NothingAfter DEF vars, lifeVars, mainVars, sessionVars
    <3> QED
      BY <3>1, PacketsQuiet DEF ExactInv
  <2>2. CASE main # "freed"
    <3>1. Exact
      BY <2>2 DEF ExactInv, Exact
    <3>2. CASE UNCHANGED vars
      <4>1. UNCHANGED <<stackVars, toPush, st, work, port, sessionVars>>
        BY <3>2 DEF vars, lifeVars, mainVars
      <4> QED
        BY <3>1, <4>1, AllQuiet DEF Exact, ExactInv
    <3>3. CASE Destroy
      <4>1. main' = "freed" /\ UNCHANGED <<sending, queued, taken>>
        BY <3>3 DEF Destroy, MainGo, sessionVars
      <4> QED
        BY <3>1, <4>1, PacketsQuiet DEF Exact, ExactInv
    <3>4. CASE Next /\ ~Destroy
      BY <3>1, <3>4, NextKeepsExact DEF Exact, ExactInv
    <3> QED
      BY <3>2, <3>3, <3>4
  <2> QED
    BY <2>1, <2>2
<1> QED
  BY <1>1, ExactInit, LifeInvariant, PTL DEF Spec

\* From the first push to the destructor every index is in one place: no two
\* connections get the same session and none is lost, though Push and Pop work
\* on nodes that are used again at once.
THEOREM NoIndexLost == Spec => []IndexExact
<1>1. ExactInv => IndexExact
  BY IndicesExact DEF ExactInv, IndexExact
<1> QED
  BY <1>1, ExactInvariant, PTL

\* Every packet is given back once, wherever its session is when it ends.
THEOREM PacketsReturned == Spec => []PacketsExact
<1>1. ExactInv => PacketsExact
  BY DEF ExactInv
<1> QED
  BY <1>1, ExactInvariant, PTL

=============================================================================
