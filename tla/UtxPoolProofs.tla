---------------------------- MODULE UtxPoolProofs ----------------------------
(* Theorems about UtxPool, for any number of threads and of transactions.   *)
EXTENDS UtxPool, FiniteSetTheorems, TLAPS

USE UtxAssumption

-----------------------------------------------------------------------------
(* Types.                                                                  *)

\* No Remover is a Putter, and both are threads.
LEMMA Threads ==
  /\ \A t \in Putter : t \in Thread /\ t \notin Remover
  /\ \A t \in Remover : t \in Thread /\ t \notin Putter
BY DEF Thread

LEMMA NothingReadType == NothingRead \in [address : Address, ids : SUBSET Tx]
<1>1. (CHOOSE a \in Address : TRUE) \in Address
  OBVIOUS
<1> QED
  BY <1>1 DEF NothingRead

LEMMA InitType == UtxInit => UtxTypeOK
<1> SUFFICES ASSUME UtxInit
             PROVE  UtxTypeOK
  OBVIOUS
<1>1. job \in [Thread -> Tx]
  <2>1. (CHOOSE x \in Tx : TRUE) \in Tx
    OBVIOUS
  <2> QED
    BY <2>1 DEF UtxInit
<1>2. read \in [Putter -> [address : Address, ids : SUBSET Tx]]
  BY NothingReadType DEF UtxInit
<1>3. at = [t \in Thread |-> "idle"]
  BY DEF UtxInit
<1> QED
  BY <1>1, <1>2, <1>3, Threads DEF UtxInit, UtxTypeOK, PutSteps, RemoveSteps

\* A step of putIfNew keeps the types.
LEMMA PutterType ==
  ASSUME UtxTypeOK, NEW t \in Putter, PutterStep(t)
  PROVE  UtxTypeOK'
<1> USE Threads DEF PutSteps, RemoveSteps, outside, sweepVars
<1>1. CASE \E x \in Tx : Put(t, x)
  BY <1>1 DEF UtxTypeOK, Put, TurnTo, Idle, SharedWith
<1>2. CASE Validate(t)
  BY <1>2 DEF UtxTypeOK, Validate
<1>3. CASE AddPortfolio(t)
  BY <1>3 DEF UtxTypeOK, AddPortfolio, Goto, AddressesToAdd, HasPortfolio
<1>4. CASE ReadIds(t)
  BY <1>4 DEF UtxTypeOK, ReadIds
<1>5. CASE WriteIds(t)
  BY <1>5, NothingReadType DEF UtxTypeOK, WriteIds, Goto, WithThis
<1>6. CASE PutTransaction(t)
  BY <1>6 DEF UtxTypeOK, PutTransaction
<1> QED
  BY <1>1, <1>2, <1>3, <1>4, <1>5, <1>6 DEF PutterStep

\* A step of a removal keeps the types.
LEMMA RemoverType ==
  ASSUME UtxTypeOK, NEW t \in Remover, RemoverStep(t)
  PROVE  UtxTypeOK'
<1> USE Threads DEF PutSteps, RemoveSteps, outside, sweepVars
<1>1. CASE \E x \in Tx : RemoveAll(t, x)
  BY <1>1 DEF UtxTypeOK, RemoveAll, TurnTo, Idle, SharedWith
<1>2. CASE \E x \in Tx : LookAt(t, x)
  <2>1. PICK x \in Tx : LookAt(t, x)
    BY <1>2
  <2>2. CASE x \in pool \cap Unwanted(t)
    BY <2>1, <2>2 DEF UtxTypeOK, LookAt, TurnTo, SharedWith
  <2>3. CASE x \notin pool \cap Unwanted(t)
    BY <2>1, <2>3 DEF UtxTypeOK, LookAt
  <2> QED
    BY <2>2, <2>3
<1>3. CASE \E x \in Tx : RemovePacked(t, x)
  BY <1>3 DEF UtxTypeOK, RemovePacked, TurnTo, SharedWith
<1>4. CASE \E c \in {"packUnconfirmed", "doCleanup"} : Sweep(t, c)
  BY <1>4 DEF UtxTypeOK, Sweep, SweepAll, Idle
<1>5. CASE EndSweep(t)
  BY <1>5 DEF UtxTypeOK, EndSweep
<1>6. CASE EndPacking(t)
  BY <1>6 DEF UtxTypeOK, EndPacking
<1>7. CASE RemovePortfolio(t)
  <2>1. CASE at[t] = "forget"
    BY <1>7, <2>1 DEF UtxTypeOK, RemovePortfolio, Goto, AddressesToClear, AfterForget
  <2>2. CASE at[t] = "forgetFirst"
    BY <1>7, <2>2 DEF UtxTypeOK, RemovePortfolio, Goto, AddressesToClear
  <2> QED
    BY <1>7, <2>1, <2>2 DEF RemovePortfolio
<1>8. CASE ClearIds(t)
  <2>1. CASE at[t] = "clear"
    BY <1>8, <2>1 DEF UtxTypeOK, ClearIds, Goto, AfterForget
  <2>2. CASE at[t] = "clearFirst"
    BY <1>8, <2>2 DEF UtxTypeOK, ClearIds, Goto
  <2> QED
    BY <1>8, <2>1, <2>2 DEF ClearIds
<1>9. CASE DropEntry(t)
  BY <1>9 DEF UtxTypeOK, DropEntry
<1> QED
  BY <1>1, <1>2, <1>3, <1>4, <1>5, <1>6, <1>7, <1>8, <1>9 DEF RemoverStep

LEMMA StepType == UtxTypeOK /\ [UtxNext]_utxVars => UtxTypeOK'
<1> SUFFICES ASSUME UtxTypeOK, [UtxNext]_utxVars
             PROVE  UtxTypeOK'
  OBVIOUS
<1>1. CASE ChainChanges
  BY <1>1 DEF UtxTypeOK, ChainChanges, sweepVars
<1>2. CASE \E x \in Tx : Expire(x)
  BY <1>2 DEF UtxTypeOK, Expire, sweepVars
<1>3. CASE UNCHANGED utxVars
  BY <1>3 DEF UtxTypeOK, utxVars, sweepVars, outside
<1> QED
  BY <1>1, <1>2, <1>3, PutterType, RemoverType DEF UtxNext

\* Every variable of the pool always has its type.
THEOREM UtxTypeCorrect == UtxSpec => []UtxTypeOK
<1> QED
  BY InitType, StepType, PTL DEF UtxSpec

-----------------------------------------------------------------------------
(* The limit.  A putter that has seen room keeps it until it is done, and   *)
(* there is one such room for each putter.                                  *)

Late == {t \in Putter : at[t] # "idle"}

RoomKept == Cardinality(pool) + Cardinality(Late) < MaxSize + Cardinality(Putter)

\* What is counted is finite.
Countable ==
  /\ IsFiniteSet(pool) /\ Cardinality(pool) \in Nat
  /\ IsFiniteSet(Late) /\ Cardinality(Late) \in Nat
  /\ Cardinality(Late) <= Cardinality(Putter)
  /\ Cardinality(Putter) \in Nat \ {0}

LEMMA Finite == UtxTypeOK => Countable
<1> SUFFICES ASSUME UtxTypeOK
             PROVE  /\ IsFiniteSet(pool) /\ IsFiniteSet(Late)
                    /\ Cardinality(Late) <= Cardinality(Putter)
                    /\ Cardinality(Putter) \in Nat \ {0}
  BY FS_CardinalityType DEF Countable
<1>1. IsFiniteSet(pool)
  BY FS_Subset DEF UtxTypeOK
<1>2. Late \in SUBSET Putter
  BY DEF Late
<1>3. Cardinality(Putter) # 0
  BY FS_EmptySet
<1> QED
  BY <1>1, <1>2, <1>3, FS_Subset, FS_CardinalityType

LEMMA FiniteNext == UtxTypeOK' => Countable'
BY Finite, PTL

\* A step that neither fills the pool nor brings a putter past the check
LEMMA NoneMore ==
  ASSUME UtxTypeOK, UtxTypeOK', RoomKept, pool' \subseteq pool, Late' \subseteq Late
  PROVE  RoomKept'
<1>1. Cardinality(pool') <= Cardinality(pool)
  BY Finite, FS_Subset DEF Countable
<1>2. Cardinality(Late') <= Cardinality(Late)
  BY Finite, FS_Subset DEF Countable
<1> QED
  BY <1>1, <1>2, Finite, FiniteNext DEF RoomKept, Countable

LEMMA PutterRoom ==
  ASSUME UtxTypeOK, UtxTypeOK', RoomKept, NEW t \in Putter, PutterStep(t)
  PROVE  RoomKept'
<1> USE Threads
<1>1. CASE \E x \in Tx : Put(t, x)
  <2>1. Cardinality(pool) < MaxSize /\ pool' = pool
    BY <1>1 DEF Put, HasRoom
  <2> QED
    BY FiniteNext, <2>1, Finite DEF RoomKept, Countable
<1>2. CASE Validate(t) \/ AddPortfolio(t) \/ ReadIds(t) \/ WriteIds(t)
  <2>1. pool' = pool
    BY <1>2 DEF Validate, AddPortfolio, ReadIds, WriteIds
  <2>2. at[t] # "idle" /\ \A u \in Thread \ {t} : at'[u] = at[u]
    BY <1>2 DEF Validate, AddPortfolio, ReadIds, WriteIds, Goto, UtxTypeOK
  <2>3. Late' \subseteq Late
    BY <2>2 DEF Late
  <2> QED
    BY <2>1, <2>3, NoneMore
<1>3. CASE PutTransaction(t)
  <2>1. Cardinality(pool') <= Cardinality(pool) + 1
    <3>1. pool' = pool \cup {job[t]}
      BY <1>3 DEF PutTransaction
    <3>2. IsFiniteSet(pool) /\ Cardinality(pool) \in Nat
      BY Finite DEF Countable
    <3>3. Cardinality(pool \cup {job[t]}) = IF job[t] \in pool THEN Cardinality(pool)
                                                             ELSE Cardinality(pool) + 1
      BY <3>2, FS_AddElement
    <3> QED
      BY <3>1, <3>2, <3>3
  <2>2. t \in Late
    BY <1>3 DEF PutTransaction, Late
  <2>3. Late' = Late \ {t}
    BY <1>3 DEF PutTransaction, Late, UtxTypeOK
  <2>4. Cardinality(Late') = Cardinality(Late) - 1
    BY <2>2, <2>3, FS_RemoveElement, Finite DEF Countable
  <2> QED
    BY FiniteNext, <2>1, <2>4, Finite DEF RoomKept, Countable
<1> QED
  BY <1>1, <1>2, <1>3 DEF PutterStep

LEMMA RemoverRoom ==
  ASSUME UtxTypeOK, UtxTypeOK', RoomKept, NEW t \in Remover, RemoverStep(t)
  PROVE  RoomKept'
<1> USE Threads DEF RemoverStep, RemoveAll, LookAt, RemovePacked, Sweep, EndSweep,
                    EndPacking, RemovePortfolio, ClearIds, DropEntry, TurnTo, Goto
<1>1. pool' \subseteq pool
  OBVIOUS
<1>2. \A u \in Thread \ {t} : at'[u] = at[u]
  BY DEF UtxTypeOK
<1>3. Late' \subseteq Late
  BY <1>2 DEF Late
<1> QED
  BY <1>1, <1>3, NoneMore

LEMMA StepRoom == UtxTypeOK /\ UtxTypeOK' /\ RoomKept /\ [UtxNext]_utxVars => RoomKept'
<1> SUFFICES ASSUME UtxTypeOK, UtxTypeOK', RoomKept, [UtxNext]_utxVars
             PROVE  RoomKept'
  OBVIOUS
<1>1. CASE ChainChanges \/ (\E x \in Tx : Expire(x)) \/ UNCHANGED utxVars
  <2>1. pool' = pool /\ at' = at
    BY <1>1 DEF ChainChanges, Expire, utxVars
  <2> QED
    BY <2>1, NoneMore DEF Late
<1> QED
  BY <1>1, PutterRoom, RemoverRoom DEF UtxNext

LEMMA InitRoom == UtxInit => RoomKept
<1> SUFFICES ASSUME UtxInit
             PROVE  RoomKept
  OBVIOUS
<1>1. pool = {} /\ Late = {}
  BY Threads DEF UtxInit, Late
<1>2. Cardinality(Putter) \in Nat
  BY FS_CardinalityType
<1> QED
  BY <1>1, <1>2, FS_EmptySet, InitType, Finite DEF RoomKept, Countable

LEMMA RoomIsEnough == UtxTypeOK /\ RoomKept => OvershootBounded
BY Finite DEF RoomKept, Countable, OvershootBounded

\* However many threads put at a time, the pool exceeds its limit by less than one
\* transaction for each of them.
THEOREM OvershootCorrect == UtxSpec => []OvershootBounded
<1>1. UtxInit => UtxTypeOK /\ RoomKept
  BY InitType, InitRoom
<1>2. UtxTypeOK /\ RoomKept /\ [UtxNext]_utxVars => UtxTypeOK' /\ RoomKept'
  BY StepType, StepRoom
<1> QED
  BY <1>1, <1>2, RoomIsEnough, PTL DEF UtxSpec

-----------------------------------------------------------------------------
(* The spendings of an address are those of the pool, for any number of    *)
(* threads and transactions, while no two threads work on the address.     *)

HIDE UtxAssumption

-----------------------------------------------------------------------------
(* The invariant, for one address.                                          *)

\* The three maps agree about the transaction.
Consistent(x, a) == (x \in portfolios <=> x \in pool) /\ (x \in ids[a] <=> x \in pool)

On(t, a) == Working(t) /\ a \in Touches[job[t]]

\* At most one thread works on the address.
Alone(a) == \A t, u \in Thread : On(t, a) /\ On(u, a) => t = u

\* Transactions nobody works on
Rested(a) ==
  \A x \in Tx : a \in Touches[x] /\ (\A t \in Thread : Working(t) => job[t] # x)
                  => Consistent(x, a)

\* The transaction of a thread, between two of its steps
HalfPut(t, a) ==
  /\ job[t] \in portfolios /\ job[t] \notin pool
  /\ IF at[t] = "write" /\ read[t].address = a
       THEN read[t].ids = ids[a] /\ a \notin todo[t] /\ job[t] \notin ids[a]
       ELSE job[t] \in ids[a] <=> a \notin todo[t]

HalfForgotten(t, a) == job[t] \notin portfolios /\ (job[t] \in ids[a] <=> a \in todo[t])

InWork(t, a) ==
  /\ at[t] \in {"validate", "portfolio"} => Consistent(job[t], a)
  /\ at[t] = "forgetFirst" => Consistent(job[t], a) /\ job[t] \in pool
  /\ at[t] \in {"read", "write"} => HalfPut(t, a)
  /\ at[t] = "put" => job[t] \in portfolios /\ job[t] \in ids[a]
  /\ at[t] = "forget" => job[t] \in portfolios /\ job[t] \in ids[a] /\ job[t] \notin pool
  /\ at[t] = "clear" => HalfForgotten(t, a) /\ job[t] \notin pool
  /\ at[t] = "clearFirst" => HalfForgotten(t, a) /\ job[t] \in pool
  /\ at[t] = "drop" => job[t] \notin portfolios /\ job[t] \notin ids[a] /\ job[t] \in pool

Worked(a) == \A t \in Thread : On(t, a) => InWork(t, a)

\* A thread changes the ids of addresses of its transaction only.
Focused ==
  /\ \A t \in Thread : at[t] \in {"read", "write", "clear", "clearFirst"}
                         => todo[t] \subseteq Touches[job[t]]
  /\ \A t \in Putter : at[t] = "write" => read[t].address \in Touches[job[t]]

Settled(a) == Alone(a) /\ Rested(a) /\ Worked(a)

CountInv == Focused /\ \A a \in Address \ contended : Settled(a)

\* It is enough.
LEMMA CountIsEnough == UtxTypeOK /\ CountInv => CountedUnlessContended
<1> SUFFICES ASSUME UtxTypeOK, CountInv, NEW a \in Address \ contended,
                    \A t \in Thread : Working(t) => a \notin Touches[job[t]]
             PROVE  Counted(a) = Due(a)
  BY DEF CountedUnlessContended
<1>1. \A x \in Tx : a \in Touches[x] => Consistent(x, a)
  BY DEF CountInv, Settled, Rested
<1>2. pool \subseteq Tx /\ ids[a] \subseteq Tx /\ portfolios \subseteq Tx
  BY DEF UtxTypeOK
<1> QED
  BY <1>1, <1>2 DEF Counted, Due, Consistent

LEMMA CountAtStart == UtxInit => CountInv
<1> SUFFICES ASSUME UtxInit
             PROVE  CountInv
  OBVIOUS
<1>1. \A t \in Thread : at[t] = "idle" /\ ~Working(t)
  BY DEF UtxInit, Working
<1>2. \A t \in Putter : at[t] = "idle"
  BY <1>1, Threads
<1>3. \A a \in Address, x \in Tx : Consistent(x, a)
  BY DEF UtxInit, Consistent
<1> QED
  BY <1>1, <1>2, <1>3 DEF CountInv, Focused, Settled, Alone, Rested, Worked, On

-----------------------------------------------------------------------------
(* What the steps of one thread have in common.                             *)

\* A step of t changes nothing of another thread, and of the maps, at this address,
\* at most the transaction of t.
Local(t, a) ==
  /\ \A u \in Thread \ {t} : at'[u] = at[u] /\ job'[u] = job[u] /\ todo'[u] = todo[u]
  /\ \A u \in Putter \ {t} : read'[u] = read[u]
  /\ \A x \in Tx \ {job'[t]} : a \in Touches[x] =>
       /\ x \in pool' <=> x \in pool
       /\ x \in portfolios' <=> x \in portfolios
       /\ x \in ids'[a] <=> x \in ids[a]
  /\ a \notin Touches[job'[t]] => ids'[a] = ids[a]
  /\ Working(t) => job'[t] = job[t]

LEMMA StillAlone ==
  ASSUME NEW a \in Address, NEW t \in Thread, Alone(a), Local(t, a), Working(t)' => Working(t)
  PROVE  Alone(a)'
<1>1. \A u \in Thread : On(u, a)' => On(u, a)
  BY DEF Local, On, Working
<1> QED
  BY <1>1 DEF Alone

\* Whoever turns to a transaction of an address that is worked on is seen.
LEMMA AloneTurned ==
  ASSUME UtxTypeOK, NEW a \in Address \ contended', NEW t \in Thread, NEW x \in Tx, NEW step,
         TurnTo(t, x, step), Alone(a), Local(t, a)
  PROVE  /\ Alone(a)'
         /\ a \in Touches[x] => \A u \in Thread \ {t} : ~On(u, a)
<1>1. job'[t] = x
  BY DEF TurnTo, UtxTypeOK
<1>2. a \in Touches[x] => \A u \in Thread \ {t} : ~On(u, a)
  BY DEF TurnTo, SharedWith, On
<1>3. \A u \in Thread \ {t} : On(u, a)' <=> On(u, a)
  BY DEF Local, On, Working
<1>4. On(t, a)' => a \in Touches[x]
  BY <1>1 DEF On
<1> QED
  BY <1>2, <1>3, <1>4 DEF Alone

\* A step keeps the rest; what is left to show is about its own transaction.
LEMMA Frame ==
  ASSUME UtxTypeOK, NEW a \in Address, NEW t \in Thread, Settled(a), Local(t, a), Alone(a)',
         Working(t) \/ Working(t)',
         On(t, a)' => InWork(t, a)',
         /\ a \in Touches[job'[t]] /\ ~Working(t)'
         /\ \A u \in Thread \ {t} : Working(u) => job[u] # job'[t]
         => Consistent(job[t], a)'
  PROVE  Settled(a)'
<1>1. \A u \in Thread \ {t} : Working(u)' <=> Working(u)
  BY DEF Local, Working
<1>2. Rested(a)'
  <2> SUFFICES ASSUME NEW x \in Tx, a \in Touches[x],
                      \A u \in Thread : Working(u)' => job'[u] # x
               PROVE  Consistent(x, a)'
    BY DEF Rested
  <2>1. CASE x = job'[t]
    BY <2>1, <1>1 DEF Local
  <2>2. CASE x # job'[t]
    <3>1. \A u \in Thread : Working(u) => job[u] # x
      BY <1>1, <2>2 DEF Local
    <3>2. Consistent(x, a)
      BY <3>1 DEF Settled, Rested
    <3> QED
      BY <3>2, <2>2 DEF Local, Consistent
  <2> QED
    BY <2>1, <2>2
<1>3. Worked(a)'
  <2> SUFFICES ASSUME NEW u \in Thread \ {t}, On(u, a)'
               PROVE  InWork(u, a)'
    BY DEF Worked
  <2>1. On(u, a) /\ job'[u] = job[u] /\ at'[u] = at[u] /\ todo'[u] = todo[u]
    BY <1>1 DEF Local, On
  <2>2. InWork(u, a)
    BY <2>1 DEF Settled, Worked
  <2>3. at[u] = "write" => read'[u] = read[u]
    <3>1. at[u] = "write" => u \in Putter
      BY DEF UtxTypeOK, Thread, PutSteps
    <3> QED
      BY <3>1 DEF Local
  <2>4. a \notin Touches[job'[t]]
    <3>1. CASE Working(t)'
      BY <3>1 DEF Alone, On
    <3>2. CASE Working(t)
      BY <2>1, <3>2 DEF Settled, Alone, On, Local
    <3> QED
      BY <3>1, <3>2
  <2>5. job[u] \in Tx \ {job'[t]} /\ a \in Touches[job[u]] /\ ids'[a] = ids[a]
    BY <2>1, <2>4 DEF On, UtxTypeOK, Local
  <2> QED
    BY <2>1, <2>2, <2>3, <2>5 DEF Local, InWork, HalfPut, HalfForgotten, Consistent
<1> QED
  BY <1>2, <1>3 DEF Settled

\* A step between two pieces of work
LEMMA Quiet ==
  ASSUME NEW a \in Address, NEW t \in Thread, Settled(a),
         UNCHANGED <<pool, portfolios, ids, job, todo, read>>,
         \A u \in Thread \ {t} : at'[u] = at[u], ~Working(t), ~Working(t)'
  PROVE  Settled(a)'
<1>1. \A u \in Thread : Working(u)' <=> Working(u)
  BY DEF Working
<1>2. \A u \in Thread : On(u, a)' <=> On(u, a)
  BY <1>1 DEF On
<1>3. \A u \in Thread : On(u, a) => at'[u] = at[u]
  BY DEF On
<1>4. \A u \in Thread : On(u, a) /\ InWork(u, a) => InWork(u, a)'
  BY <1>3 DEF InWork, HalfPut, HalfForgotten, Consistent
<1>5. Alone(a)'
  BY <1>2 DEF Settled, Alone
<1>6. Rested(a)'
  BY <1>1 DEF Settled, Rested, Consistent
<1> QED
  BY <1>2, <1>4, <1>5, <1>6 DEF Settled, Worked

-----------------------------------------------------------------------------
(* Steps of putIfNew.                                                       *)

\* Of a transaction that a thread turns to, the maps agree.
LEMMA ConsistentTurned ==
  ASSUME UtxTypeOK, NEW a \in Address \ contended', NEW t \in Thread, NEW x \in Tx, NEW step,
         TurnTo(t, x, step), Settled(a), Local(t, a), ~Working(t), a \in Touches[x]
  PROVE  Consistent(x, a)
<1>1. \A u \in Thread \ {t} : ~On(u, a)
  BY AloneTurned DEF Settled
<1>2. \A u \in Thread : Working(u) => job[u] # x
  BY <1>1 DEF On
<1> QED
  BY <1>2 DEF Settled, Rested

LEMMA PutSettled ==
  ASSUME UtxTypeOK, NEW t \in Putter, NEW x \in Tx, Put(t, x),
         NEW a \in Address \ contended', Settled(a)
  PROVE  Settled(a)'
<1> USE Threads
<1>1. TurnTo(t, x, "validate") /\ ~Working(t) /\ UNCHANGED <<pool, portfolios, ids, todo, read>>
  BY DEF Put, Idle, Working
<1>2. job'[t] = x /\ at'[t] = "validate" /\ Working(t)'
  BY <1>1 DEF TurnTo, UtxTypeOK, Working
<1>3. Local(t, a)
  BY <1>1 DEF Local, TurnTo, UtxTypeOK
<1>4. Alone(a)'
  BY <1>1, <1>3, AloneTurned DEF Settled
<1>5. a \in Touches[x] => Consistent(x, a)
  BY <1>1, <1>3, ConsistentTurned
<1>6. On(t, a)' => InWork(t, a)'
  BY <1>1, <1>2, <1>5 DEF On, InWork, Consistent
<1> QED
  BY <1>2, <1>3, <1>4, <1>6, Frame

LEMMA ValidateSettled ==
  ASSUME UtxTypeOK, NEW t \in Putter, Validate(t), NEW a \in Address, Settled(a)
  PROVE  Settled(a)'
<1> USE Threads
<1>1. UNCHANGED <<pool, portfolios, ids, job, todo, read>> /\ Working(t)
  BY DEF Validate, Working
<1>2. Local(t, a)
  BY <1>1 DEF Local, Validate, UtxTypeOK
<1>3. Alone(a)'
  BY <1>1, <1>2, StillAlone DEF Settled
<1>4. a \in Touches[job[t]] => Consistent(job[t], a)
  BY <1>1 DEF Settled, Worked, On, InWork, Validate
<1>5. at'[t] \in {"portfolio", "idle"}
  BY DEF Validate, UtxTypeOK
<1>6. On(t, a)' => InWork(t, a)'
  BY <1>1, <1>4, <1>5 DEF On, InWork, Consistent, Working
<1> QED
  BY <1>1, <1>2, <1>3, <1>4, <1>6, Frame DEF Consistent

LEMMA AddPortfolioSettled ==
  ASSUME UtxTypeOK, NEW t \in Putter, AddPortfolio(t), NEW a \in Address, Settled(a)
  PROVE  Settled(a)'
<1> USE Threads
<1>1. UNCHANGED <<pool, ids, job, read>> /\ Working(t) /\ Working(t)'
  BY DEF AddPortfolio, Working, Goto, UtxTypeOK
<1>2. Local(t, a)
  BY <1>1 DEF Local, AddPortfolio, Goto, UtxTypeOK
<1>3. Alone(a)'
  BY <1>1, <1>2, StillAlone DEF Settled
<1>4. a \in Touches[job[t]] => Consistent(job[t], a)
  BY <1>1 DEF Settled, Worked, On, InWork, AddPortfolio
<1>5. a \in Touches[job[t]] => job[t] \in portfolios'
  BY DEF AddPortfolio, HasPortfolio
<1>6. On(t, a)' => InWork(t, a)'
  <2> SUFFICES ASSUME a \in Touches[job[t]]
               PROVE  InWork(t, a)'
    BY <1>1 DEF On
  <2>1. CASE job[t] \in portfolios
    <3>1. at'[t] = "put"
      BY <2>1 DEF AddPortfolio, Goto, AddressesToAdd, UtxTypeOK
    <3> QED
      BY <1>1, <1>4, <1>5, <2>1, <3>1 DEF InWork, Consistent
  <2>2. CASE job[t] \notin portfolios
    <3>1. at'[t] = "read" /\ todo'[t] = Touches[job[t]]
      BY <2>2 DEF AddPortfolio, Goto, AddressesToAdd, UtxTypeOK
    <3> QED
      BY <1>1, <1>4, <1>5, <2>2, <3>1 DEF InWork, HalfPut, Consistent
  <2> QED
    BY <2>1, <2>2
<1> QED
  BY <1>1, <1>2, <1>3, <1>6, Frame

LEMMA ReadIdsSettled ==
  ASSUME UtxTypeOK, NEW t \in Putter, ReadIds(t), NEW a \in Address, Settled(a)
  PROVE  Settled(a)'
<1> USE Threads
<1>1. UNCHANGED <<pool, portfolios, ids, job>> /\ Working(t) /\ Working(t)'
  BY DEF ReadIds, Working, UtxTypeOK
<1>2. Local(t, a)
  BY <1>1 DEF Local, ReadIds, UtxTypeOK
<1>3. Alone(a)'
  BY <1>1, <1>2, StillAlone DEF Settled
<1>4. On(t, a) => HalfPut(t, a) /\ at[t] = "read"
  BY DEF Settled, Worked, InWork, ReadIds
<1>5. PICK b \in todo[t] : /\ read' = [read EXCEPT ![t] = [address |-> b, ids |-> ids[b]]]
                           /\ todo' = [todo EXCEPT ![t] = @ \ {b}]
  BY DEF ReadIds
<1>6. /\ read'[t].address = b /\ read'[t].ids = ids[b]
      /\ todo'[t] = todo[t] \ {b} /\ at'[t] = "write"
  BY <1>5 DEF ReadIds, UtxTypeOK
<1>7. On(t, a)' => InWork(t, a)'
  BY <1>1, <1>4, <1>6 DEF On, InWork, HalfPut
<1> QED
  BY <1>1, <1>2, <1>3, <1>7, Frame

LEMMA WriteIdsSettled ==
  ASSUME UtxTypeOK, Focused, NEW t \in Putter, WriteIds(t), NEW a \in Address, Settled(a)
  PROVE  Settled(a)'
<1> USE Threads
<1>1. UNCHANGED <<pool, portfolios, job>> /\ Working(t) /\ Working(t)'
  BY DEF WriteIds, Working, Goto, UtxTypeOK
<1>2. On(t, a) => HalfPut(t, a) /\ at[t] = "write"
  BY DEF Settled, Worked, InWork, WriteIds
<1>3. ids'[a] = IF a = read[t].address THEN read[t].ids \cup {job[t]} ELSE ids[a]
  BY DEF WriteIds, WithThis, UtxTypeOK
<1>4. read[t].address \in Touches[job[t]]
  BY DEF Focused, WriteIds
<1>5. \A x \in Tx \ {job[t]} : a \in Touches[x] => (x \in ids'[a] <=> x \in ids[a])
  BY <1>1, <1>2, <1>3, <1>4 DEF On, HalfPut
<1>6. Local(t, a)
  BY <1>1, <1>3, <1>4, <1>5 DEF Local, WriteIds, Goto, UtxTypeOK
<1>7. Alone(a)'
  BY <1>1, <1>6, StillAlone DEF Settled
<1>8. todo'[t] = todo[t] /\ at'[t] = IF todo[t] = {} THEN "put" ELSE "read"
  BY DEF WriteIds, Goto, UtxTypeOK
<1>9. On(t, a)' => InWork(t, a)'
  BY <1>1, <1>2, <1>3, <1>8 DEF On, InWork, HalfPut
<1> QED
  BY <1>1, <1>6, <1>7, <1>9, Frame

LEMMA PutTransactionSettled ==
  ASSUME UtxTypeOK, NEW t \in Putter, PutTransaction(t), NEW a \in Address, Settled(a)
  PROVE  Settled(a)'
<1> USE Threads
<1>1. UNCHANGED <<portfolios, ids, job>> /\ Working(t) /\ ~Working(t)'
  BY DEF PutTransaction, Working, UtxTypeOK
<1>2. Local(t, a)
  BY <1>1 DEF Local, PutTransaction, UtxTypeOK
<1>3. Alone(a)'
  BY <1>1, <1>2, StillAlone DEF Settled
<1>4. a \in Touches[job[t]] => Consistent(job[t], a)'
  BY <1>1 DEF Settled, Worked, On, InWork, PutTransaction, Consistent
<1> QED
  BY <1>1, <1>2, <1>3, <1>4, Frame DEF On, Consistent

-----------------------------------------------------------------------------
(* Steps of the removals.                                                   *)

\* The entry goes, before what is known of it.
LEMMA EntryTaken ==
  ASSUME UtxTypeOK, NEW t \in Remover, NEW x \in pool, ~Working(t),
         TurnTo(t, x, "forget"), pool' = pool \ {x},
         UNCHANGED <<portfolios, ids, todo, read>>,
         NEW a \in Address \ contended', Settled(a)
  PROVE  Settled(a)'
<1> USE Threads
<1>0. x \in Tx
  BY DEF UtxTypeOK
<1>1. job'[t] = x /\ at'[t] = "forget" /\ Working(t)'
  BY <1>0 DEF TurnTo, UtxTypeOK, Working
<1>2. Local(t, a)
  BY <1>0 DEF Local, TurnTo, UtxTypeOK
<1>3. Alone(a)'
  BY <1>0, <1>2, AloneTurned DEF Settled
<1>4. a \in Touches[x] => Consistent(x, a)
  BY <1>0, <1>2, ConsistentTurned
<1>5. On(t, a)' => InWork(t, a)'
  BY <1>1, <1>4 DEF On, InWork, Consistent
<1> QED
  BY <1>1, <1>2, <1>3, <1>5, Frame

LEMMA RemoveAllSettled ==
  ASSUME UtxTypeOK, NEW t \in Remover, NEW x \in Tx, RemoveAll(t, x),
         NEW a \in Address \ contended', Settled(a)
  PROVE  Settled(a)'
<1> USE Threads
<1>1. ~Working(t)
  BY DEF RemoveAll, Idle, Working
<1>2. CASE x \in pool
  BY <1>1, <1>2, EntryTaken DEF RemoveAll
<1>3. CASE x \notin pool
  <2>1. UNCHANGED <<pool, portfolios, ids, job, todo, read>>
    BY <1>3 DEF RemoveAll
  <2>2. ~Working(t)' /\ \A u \in Thread \ {t} : at'[u] = at[u]
    BY <1>3 DEF RemoveAll, Working, UtxTypeOK
  <2> QED
    BY <1>1, <2>1, <2>2, Quiet
<1> QED
  BY <1>2, <1>3

LEMMA RemovePackedSettled ==
  ASSUME UtxTypeOK, NEW t \in Remover, NEW x \in Tx, RemovePacked(t, x),
         NEW a \in Address \ contended', Settled(a)
  PROVE  Settled(a)'
<1>1. ~Working(t)
  BY DEF RemovePacked, Working
<1> QED
  BY <1>1, EntryTaken DEF RemovePacked

LEMMA LookAtSettled ==
  ASSUME UtxTypeOK, NEW t \in Remover, NEW x \in Tx, LookAt(t, x),
         NEW a \in Address \ contended', Settled(a)
  PROVE  Settled(a)'
<1> USE Threads
<1>1. ~Working(t) /\ UNCHANGED <<pool, portfolios, ids, todo, read>>
  BY DEF LookAt, Working
<1>2. CASE x \in pool \cap Unwanted(t)
  <2>1. TurnTo(t, x, "forgetFirst")
    BY <1>2 DEF LookAt
  <2>2. job'[t] = x /\ at'[t] = "forgetFirst" /\ Working(t)'
    BY <2>1 DEF TurnTo, UtxTypeOK, Working
  <2>3. Local(t, a)
    BY <1>1, <2>1 DEF Local, TurnTo, UtxTypeOK
  <2>4. Alone(a)'
    BY <2>1, <2>3, AloneTurned DEF Settled
  <2>5. a \in Touches[x] => Consistent(x, a)
    BY <1>1, <2>1, <2>3, ConsistentTurned
  <2>6. On(t, a)' => InWork(t, a)'
    BY <1>1, <1>2, <2>2, <2>5 DEF On, InWork, Consistent
  <2> QED
    BY <2>2, <2>3, <2>4, <2>6, Frame
<1>3. CASE x \notin pool \cap Unwanted(t)
  <2>1. UNCHANGED <<at, job>>
    BY <1>3 DEF LookAt
  <2>2. ~Working(t)'
    BY <1>1, <2>1 DEF Working
  <2> QED
    BY <1>1, <2>1, <2>2, Quiet
<1> QED
  BY <1>2, <1>3

LEMMA BetweenSettled ==
  ASSUME UtxTypeOK, NEW t \in Remover, NEW a \in Address, Settled(a),
         \/ \E c \in {"packUnconfirmed", "doCleanup"} : Sweep(t, c)
         \/ EndSweep(t)
         \/ EndPacking(t)
  PROVE  Settled(a)'
<1> USE Threads DEF Sweep, EndSweep, EndPacking
<1>1. ~Working(t) /\ UNCHANGED <<pool, portfolios, ids, job, todo, read>>
  BY DEF Idle, Working
<1>2. ~Working(t)'
  BY DEF Working, UtxTypeOK
<1>3. \A u \in Thread \ {t} : at'[u] = at[u]
  BY DEF UtxTypeOK
<1> QED
  BY <1>1, <1>2, <1>3, Quiet

LEMMA RemovePortfolioSettled ==
  ASSUME UtxTypeOK, NEW t \in Remover, RemovePortfolio(t), NEW a \in Address, Settled(a)
  PROVE  Settled(a)'
<1> USE Threads
<1>1. UNCHANGED <<pool, ids, job, read>> /\ Working(t) /\ portfolios' = portfolios \ {job[t]}
  BY DEF RemovePortfolio, Working
<1>2. \A u \in Thread \ {t} : at'[u] = at[u] /\ todo'[u] = todo[u]
  BY DEF RemovePortfolio, Goto, UtxTypeOK
<1>3. Local(t, a)
  BY <1>1, <1>2 DEF Local
<1>4. Alone(a)'
  BY <1>1, <1>3, StillAlone DEF Settled
<1>5. ASSUME a \in Touches[job[t]]
      PROVE  Working(t)' /\ InWork(t, a)'
  <2>1. InWork(t, a)
    BY <1>1, <1>5 DEF Settled, Worked, On
  <2>2. CASE at[t] = "forget"
    <3>1. job[t] \in portfolios /\ job[t] \in ids[a] /\ job[t] \notin pool
      BY <2>1, <2>2 DEF InWork
    <3>2. at'[t] = "clear" /\ todo'[t] = Touches[job[t]]
      BY <1>5, <2>2, <3>1 DEF RemovePortfolio, Goto, AddressesToClear, UtxTypeOK
    <3> QED
      BY <1>1, <1>5, <3>1, <3>2 DEF InWork, HalfForgotten, Working
  <2>3. CASE at[t] = "forgetFirst"
    <3>1. Consistent(job[t], a) /\ job[t] \in pool
      BY <2>1, <2>3 DEF InWork
    <3>2. at'[t] = "clearFirst" /\ todo'[t] = Touches[job[t]]
      BY <1>5, <2>3, <3>1 DEF RemovePortfolio, Goto, AddressesToClear, UtxTypeOK, Consistent
    <3> QED
      BY <1>1, <1>5, <3>1, <3>2 DEF InWork, HalfForgotten, Working, Consistent
  <2> QED
    BY <2>2, <2>3 DEF RemovePortfolio
<1> QED
  BY <1>1, <1>3, <1>4, <1>5, Frame DEF On

LEMMA ClearIdsSettled ==
  ASSUME UtxTypeOK, Focused, NEW t \in Remover, ClearIds(t), NEW a \in Address, Settled(a)
  PROVE  Settled(a)'
<1> USE Threads
<1>1. UNCHANGED <<pool, portfolios, job, read>> /\ Working(t)
  BY DEF ClearIds, Working
<1>2. PICK b \in todo[t] : /\ ids' = [ids EXCEPT ![b] = @ \ {job[t]}]
                           /\ IF at[t] = "clear"
                                THEN Goto(t, todo[t] \ {b}, "clear", AfterForget(t))
                                ELSE Goto(t, todo[t] \ {b}, "clearFirst", "drop")
  BY DEF ClearIds
<1>3. \A u \in Thread \ {t} : at'[u] = at[u] /\ todo'[u] = todo[u]
  BY <1>2 DEF Goto, UtxTypeOK
<1>4. b \in Touches[job[t]]
  BY DEF Focused, ClearIds
<1>5. ids'[a] = IF a = b THEN ids[a] \ {job[t]} ELSE ids[a]
  BY <1>2 DEF UtxTypeOK
<1>6. Local(t, a)
  BY <1>1, <1>3, <1>4, <1>5 DEF Local
<1>7. Alone(a)'
  BY <1>1, <1>6, StillAlone DEF Settled
<1>8. todo'[t] = todo[t] \ {b}
  BY <1>2 DEF Goto, UtxTypeOK
<1>9. ASSUME a \in Touches[job[t]]
      PROVE  /\ Working(t)' => InWork(t, a)'
             /\ ~Working(t)' => Consistent(job[t], a)'
  <2>1. InWork(t, a)
    BY <1>1, <1>9 DEF Settled, Worked, On
  <2>2. CASE at[t] = "clear"
    <3>1. at'[t] = IF todo[t] \ {b} = {} THEN AfterForget(t) ELSE "clear"
      BY <1>2, <2>2 DEF Goto, UtxTypeOK
    <3>2. HalfForgotten(t, a) /\ job[t] \notin pool
      BY <2>1, <2>2 DEF InWork
    <3>3. CASE todo[t] \ {b} = {}
      BY <1>1, <1>5, <3>1, <3>2, <3>3 DEF AfterForget, Working, HalfForgotten, Consistent
    <3>4. CASE todo[t] \ {b} # {}
      BY <1>1, <1>5, <1>8, <3>1, <3>2, <3>4 DEF InWork, Working, HalfForgotten
    <3> QED
      BY <3>3, <3>4
  <2>3. CASE at[t] = "clearFirst"
    <3>1. at'[t] = IF todo[t] \ {b} = {} THEN "drop" ELSE "clearFirst"
      BY <1>2, <2>3 DEF Goto, UtxTypeOK
    <3>2. HalfForgotten(t, a) /\ job[t] \in pool
      BY <2>1, <2>3 DEF InWork
    <3> QED
      BY <1>1, <1>5, <1>8, <3>1, <3>2 DEF InWork, Working, HalfForgotten
  <2> QED
    BY <2>2, <2>3 DEF ClearIds
<1> QED
  BY <1>1, <1>6, <1>7, <1>9, Frame DEF On

LEMMA DropEntrySettled ==
  ASSUME UtxTypeOK, NEW t \in Remover, DropEntry(t), NEW a \in Address, Settled(a)
  PROVE  Settled(a)'
<1> USE Threads
<1>1. /\ UNCHANGED <<portfolios, ids, job, todo, read>> /\ pool' = pool \ {job[t]}
      /\ Working(t) /\ ~Working(t)'
  BY DEF DropEntry, Working, UtxTypeOK
<1>2. Local(t, a)
  BY <1>1 DEF Local, DropEntry, UtxTypeOK
<1>3. Alone(a)'
  BY <1>1, <1>2, StillAlone DEF Settled
<1>4. a \in Touches[job[t]] => Consistent(job[t], a)'
  BY <1>1 DEF Settled, Worked, On, InWork, DropEntry, Consistent
<1> QED
  BY <1>1, <1>2, <1>3, <1>4, Frame DEF On

-----------------------------------------------------------------------------
(* The theorem.                                                             *)

\* Nobody takes up an address that is not of its transaction.
LEMMA StepFocused == UtxTypeOK /\ Focused /\ [UtxNext]_utxVars => Focused'
<1> SUFFICES ASSUME UtxTypeOK, Focused, [UtxNext]_utxVars
             PROVE  Focused'
  OBVIOUS
<1> USE Threads DEF Focused
<1>1. ASSUME NEW t \in Putter, PutterStep(t)
      PROVE  Focused'
  <2>1. CASE \E x \in Tx : Put(t, x)
    BY <2>1 DEF Put, TurnTo, UtxTypeOK, Idle
  <2>2. CASE Validate(t)
    BY <2>2 DEF Validate, UtxTypeOK
  <2>3. CASE AddPortfolio(t)
    BY <2>3 DEF AddPortfolio, Goto, AddressesToAdd, UtxTypeOK
  <2>4. CASE ReadIds(t)
    BY <2>4 DEF ReadIds, UtxTypeOK
  <2>5. CASE WriteIds(t)
    BY <2>5 DEF WriteIds, Goto, UtxTypeOK
  <2>6. CASE PutTransaction(t)
    BY <2>6 DEF PutTransaction, UtxTypeOK
  <2> QED
    BY <1>1, <2>1, <2>2, <2>3, <2>4, <2>5, <2>6 DEF PutterStep
<1>2. ASSUME NEW t \in Remover, RemoverStep(t)
      PROVE  Focused'
  <2>1. CASE \E x \in Tx : RemoveAll(t, x)
    BY <2>1 DEF RemoveAll, TurnTo, UtxTypeOK, Idle
  <2>2. CASE \E x \in Tx : LookAt(t, x)
    BY <2>2 DEF LookAt, TurnTo, UtxTypeOK
  <2>3. CASE \E x \in Tx : RemovePacked(t, x)
    BY <2>3 DEF RemovePacked, TurnTo, UtxTypeOK
  <2>4. CASE \/ \E c \in {"packUnconfirmed", "doCleanup"} : Sweep(t, c)
             \/ EndSweep(t)
             \/ EndPacking(t)
             \/ DropEntry(t)
    BY <2>4 DEF Sweep, EndSweep, EndPacking, DropEntry, UtxTypeOK
  <2>5. CASE RemovePortfolio(t)
    BY <2>5 DEF RemovePortfolio, Goto, AddressesToClear, AfterForget, UtxTypeOK
  <2>6. CASE ClearIds(t)
    BY <2>6 DEF ClearIds, Goto, AfterForget, UtxTypeOK
  <2> QED
    BY <1>2, <2>1, <2>2, <2>3, <2>4, <2>5, <2>6 DEF RemoverStep
<1>3. CASE ChainChanges \/ (\E x \in Tx : Expire(x)) \/ UNCHANGED utxVars
  BY <1>3 DEF ChainChanges, Expire, utxVars
<1> QED
  BY <1>1, <1>2, <1>3 DEF UtxNext

\* What has been contended stays so.
LEMMA ContendedGrows == [UtxNext]_utxVars => contended \subseteq contended'
BY DEF UtxNext, PutterStep, RemoverStep, Put, Validate, AddPortfolio, ReadIds, WriteIds,
       PutTransaction, RemoveAll, LookAt, RemovePacked, Sweep, EndSweep, EndPacking,
       RemovePortfolio, ClearIds, DropEntry, ChainChanges, Expire, TurnTo, utxVars

LEMMA StepSettled ==
  ASSUME UtxTypeOK, Focused, [UtxNext]_utxVars, NEW a \in Address \ contended', Settled(a)
  PROVE  Settled(a)'
<1>1. ASSUME NEW t \in Putter, PutterStep(t)
      PROVE  Settled(a)'
  BY <1>1, PutSettled, ValidateSettled, AddPortfolioSettled, ReadIdsSettled, WriteIdsSettled,
     PutTransactionSettled DEF PutterStep
<1>2. ASSUME NEW t \in Remover, RemoverStep(t)
      PROVE  Settled(a)'
  BY <1>2, RemoveAllSettled, LookAtSettled, RemovePackedSettled, BetweenSettled,
     RemovePortfolioSettled, ClearIdsSettled, DropEntrySettled DEF RemoverStep
<1>3. CASE ChainChanges \/ (\E x \in Tx : Expire(x)) \/ UNCHANGED utxVars
  <2>1. UNCHANGED <<pool, portfolios, ids, at, job, todo, read>>
    BY <1>3 DEF ChainChanges, Expire, utxVars
  <2> QED
    BY <2>1 DEF Settled, Alone, Rested, Worked, On, Working, InWork, HalfPut, HalfForgotten,
                Consistent
<1> QED
  BY <1>1, <1>2, <1>3 DEF UtxNext

\* While nobody works on an address, and no two threads ever have at the same time,
\* the spendings that count for it are those of the transactions in the pool.
THEOREM CountedCorrect == UtxSpec => []CountedUnlessContended
<1>1. UtxInit => UtxTypeOK /\ CountInv
  BY InitType, CountAtStart
<1>2. UtxTypeOK /\ CountInv /\ [UtxNext]_utxVars => UtxTypeOK' /\ CountInv'
  BY StepType, StepFocused, StepSettled, ContendedGrows DEF CountInv
<1> QED
  BY <1>1, <1>2, CountIsEnough, PTL DEF UtxSpec
=============================================================================
