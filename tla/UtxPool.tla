------------------------------- MODULE UtxPool -------------------------------
(***************************************************************************)
(* UtxPoolImpl: the pool of unconfirmed transactions, and the portfolios   *)
(* by which the unconfirmed spendings of an address are known.             *)
(*                                                                         *)
(* Several threads put (REST, the network, the matcher, appenders that     *)
(* return transactions), several remove (appenders, the cleanup, the       *)
(* miner).  Each access to one of the three concurrent maps is a step:     *)
(*   pool        the map transactions of the pool                          *)
(*   portfolios  transactionPortfolios, by transaction                     *)
(*   ids         transactions of PessimisticPortfolios, by address         *)
(* Of a portfolio only matters which addresses it changes.  The limit in   *)
(* bytes works like the limit in transactions.                             *)
(***************************************************************************)
EXTENDS Integers, FiniteSets

CONSTANTS
  Tx,
  Address,
  Touches,   \* [Tx -> SUBSET Address]: addresses with a pessimistic portfolio
  Putter,    \* threads that call putIfNew
  Remover,   \* threads that remove
  MaxSize,   \* utx.max-size
  MaxPuts    \* bound of the model: how often putIfNew is called

ASSUME UtxAssumption ==
  /\ Touches \in [Tx -> SUBSET Address]
  /\ Tx # {} /\ Address # {}
  /\ IsFiniteSet(Tx) /\ IsFiniteSet(Putter)
  /\ Putter # {} /\ Putter \cap Remover = {}
  /\ MaxSize \in Nat \ {0}
  /\ MaxPuts \in Nat

Thread == Putter \cup Remover

VARIABLES
  pool, portfolios, ids,
  valid,      \* transactions that are valid now
  expired,    \* transactions that are too old now
  at,         \* [Thread -> the step that is next]
  job,        \* [Thread -> the transaction it works on]
  todo,       \* [Thread -> addresses whose ids it still has to change]
  read,       \* [Putter -> what getOrDefault has returned]
  left,       \* [Remover -> entries that removeIf has still to look at]
  call,       \* [Remover -> "removeAll", "packUnconfirmed" or "doCleanup"]
  puts,       \* calls of putIfNew so far
  contended   \* history: addresses that two calls have worked on at a time

sweepVars == <<left, call>>
outside == <<valid, expired, puts>>
utxVars == <<pool, portfolios, ids, at, job, todo, read, contended, sweepVars, outside>>

-----------------------------------------------------------------------------

NothingRead == [address |-> CHOOSE a \in Address : TRUE, ids |-> {}]

Idle(t) == at[t] = "idle"

\* Between the first and the last step for a transaction
Working(t) == at[t] \notin {"idle", "sweep", "packed"}

\* Addresses that the work of other threads has in common with a transaction
SharedWith(t, x) == {a \in Touches[x] : \E u \in Thread \ {t} : Working(u) /\ a \in Touches[job[u]]}

\* The thread turns to the transaction.
TurnTo(t, x, step) ==
  /\ at' = [at EXCEPT ![t] = step]
  /\ job' = [job EXCEPT ![t] = x]
  /\ contended' = contended \cup SharedWith(t, x)

\* Step over the addresses, if there are any, to the step after them
Goto(t, addresses, step, next) ==
  /\ todo' = [todo EXCEPT ![t] = addresses]
  /\ at' = [at EXCEPT ![t] = IF addresses = {} THEN next ELSE step]

-----------------------------------------------------------------------------
(* putIfNew.                                                               *)

\* Mutated: one more than the limit
RoomWithOneMore == Cardinality(pool) <= MaxSize

HasRoom == Cardinality(pool) < MaxSize

Put(t, x) ==
  /\ puts < MaxPuts
  /\ Idle(t)
  /\ HasRoom
  /\ TurnTo(t, x, "validate")
  /\ puts' = puts + 1
  /\ UNCHANGED <<pool, portfolios, ids, valid, expired, todo, read, sweepVars>>

\* The differ, after which the result stands, whatever happens to the chain
Validate(t) ==
  /\ at[t] = "validate"
  /\ at' = [at EXCEPT ![t] = IF job[t] \in valid THEN "portfolio" ELSE "idle"]
  /\ UNCHANGED <<pool, portfolios, ids, job, todo, read, contended, sweepVars, outside>>

HasPortfolio(x) == Touches[x] # {}

\* Mutated: isDefined for isEmpty
AddressesOfSecond(x) == IF x \in portfolios THEN Touches[x] ELSE {}

\* Only who has added the portfolio adds the ids
AddressesToAdd(x) == IF x \in portfolios THEN {} ELSE Touches[x]

\* transactionPortfolios.put, unless the transaction changes no portfolio
AddPortfolio(t) ==
  /\ at[t] = "portfolio"
  /\ portfolios' = portfolios \cup {x \in {job[t]} : HasPortfolio(x)}
  /\ Goto(t, AddressesToAdd(job[t]), "read", "put")
  /\ UNCHANGED <<pool, ids, job, read, contended, sweepVars, outside>>

\* transactions.getOrDefault ...
ReadIds(t) ==
  /\ at[t] = "read"
  /\ \E a \in todo[t] :
       /\ read' = [read EXCEPT ![t] = [address |-> a, ids |-> ids[a]]]
       /\ todo' = [todo EXCEPT ![t] = @ \ {a}]
  /\ at' = [at EXCEPT ![t] = "write"]
  /\ UNCHANGED <<pool, portfolios, ids, job, contended, sweepVars, outside>>

WithThis(t) == read[t].ids \cup {job[t]}

\* ... and transactions.put
WriteIds(t) ==
  /\ at[t] = "write"
  /\ ids' = [ids EXCEPT ![read[t].address] = WithThis(t)]
  /\ read' = [read EXCEPT ![t] = NothingRead]
  /\ Goto(t, todo[t], "read", "put")
  /\ UNCHANGED <<pool, portfolios, job, contended, sweepVars, outside>>

PutTransaction(t) ==
  /\ at[t] = "put"
  /\ pool' = pool \cup {job[t]}
  /\ at' = [at EXCEPT ![t] = "idle"]
  /\ UNCHANGED <<portfolios, ids, job, todo, read, contended, sweepVars, outside>>

-----------------------------------------------------------------------------
(* removeAll, packUnconfirmed and the cleanup.                             *)

\* removeIf over the entries there are now
SweepAll(t, c) ==
  /\ left' = [left EXCEPT ![t] = pool]
  /\ call' = [call EXCEPT ![t] = c]

\* removeAll and packUnconfirmed look for expired transactions, doCleanup for
\* all that are not valid any more.
Unwanted(t) == IF call[t] = "doCleanup" THEN expired \cup (Tx \ valid) ELSE expired

\* removeAll, of one transaction of an appended block.  The entry goes first, then
\* what afterRemove does, then the expired ones.
RemoveAll(t, x) ==
  /\ Idle(t)
  /\ pool' = pool \ {x}
  /\ IF x \in pool THEN TurnTo(t, x, "forget") /\ UNCHANGED left
                   ELSE /\ at' = [at EXCEPT ![t] = "sweep"]
                        /\ left' = [left EXCEPT ![t] = pool]
                        /\ UNCHANGED <<job, contended>>
  /\ call' = [call EXCEPT ![t] = "removeAll"]
  /\ UNCHANGED <<portfolios, ids, todo, read, outside>>

\* packUnconfirmed, which looks for expired ones first, and doCleanup
Sweep(t, c) ==
  /\ Idle(t)
  /\ at' = [at EXCEPT ![t] = "sweep"]
  /\ SweepAll(t, c)
  /\ UNCHANGED <<pool, portfolios, ids, job, todo, read, contended, outside>>

\* The predicate of removeIf on the next entry; what it does to the portfolios
\* comes before the entry goes.
LookAt(t, x) ==
  /\ at[t] = "sweep"
  /\ x \in left[t]
  /\ left' = [left EXCEPT ![t] = @ \ {x}]
  /\ IF x \in pool \cap Unwanted(t) THEN TurnTo(t, x, "forgetFirst")
                                   ELSE UNCHANGED <<at, job, contended>>
  /\ UNCHANGED <<pool, portfolios, ids, todo, read, call, outside>>

EndSweep(t) ==
  /\ at[t] = "sweep"
  /\ left[t] = {}
  /\ at' = [at EXCEPT ![t] = IF call[t] = "packUnconfirmed" THEN "packed" ELSE "idle"]
  /\ UNCHANGED <<pool, portfolios, ids, job, todo, read, contended, sweepVars, outside>>

\* Of those that were packed, some did not fit to the others and are removed.
RemovePacked(t, x) ==
  /\ at[t] = "packed"
  /\ x \in pool
  /\ pool' = pool \ {x}
  /\ TurnTo(t, x, "forget")
  /\ UNCHANGED <<portfolios, ids, todo, read, sweepVars, outside>>

EndPacking(t) ==
  /\ at[t] = "packed"
  /\ at' = [at EXCEPT ![t] = "idle"]
  /\ UNCHANGED <<pool, portfolios, ids, job, todo, read, contended, sweepVars, outside>>

\* transactionPortfolios.remove
AddressesToClear(x) == IF x \in portfolios THEN Touches[x] ELSE {}

\* What comes after a portfolio and its ids have gone
AfterForget(t) == IF call[t] = "removeAll" THEN "sweep" ELSE "packed"

RemovePortfolio(t) ==
  /\ at[t] \in {"forget", "forgetFirst"}
  /\ portfolios' = portfolios \ {job[t]}
  /\ IF at[t] = "forget"
       THEN /\ Goto(t, AddressesToClear(job[t]), "clear", AfterForget(t))
            /\ left' = [left EXCEPT ![t] = pool]
       ELSE /\ Goto(t, AddressesToClear(job[t]), "clearFirst", "drop")
            /\ UNCHANGED left
  /\ UNCHANGED <<pool, ids, job, read, contended, call, outside>>

\* computeIfPresent is atomic.
ClearIds(t) ==
  /\ at[t] \in {"clear", "clearFirst"}
  /\ \E a \in todo[t] :
       /\ ids' = [ids EXCEPT ![a] = @ \ {job[t]}]
       /\ IF at[t] = "clear"
            THEN /\ Goto(t, todo[t] \ {a}, "clear", AfterForget(t))
                 /\ left' = [left EXCEPT ![t] = pool]
            ELSE /\ Goto(t, todo[t] \ {a}, "clearFirst", "drop")
                 /\ UNCHANGED left
  /\ UNCHANGED <<pool, portfolios, job, read, contended, call, outside>>

DropEntry(t) ==
  /\ at[t] = "drop"
  /\ pool' = pool \ {job[t]}
  /\ at' = [at EXCEPT ![t] = "sweep"]
  /\ UNCHANGED <<portfolios, ids, job, todo, read, contended, sweepVars, outside>>

\* The chain decides which transactions are valid, the clock which are too old.
ChainChanges ==
  /\ valid' \in SUBSET (Tx \ expired)
  /\ UNCHANGED <<pool, portfolios, ids, at, job, todo, read, contended, sweepVars, expired, puts>>

Expire(x) ==
  /\ expired' = expired \cup {x}
  /\ valid' = valid \ {x}
  /\ UNCHANGED <<pool, portfolios, ids, at, job, todo, read, contended, sweepVars, puts>>

UtxInit ==
  /\ pool = {} /\ portfolios = {} /\ ids = [a \in Address |-> {}]
  /\ valid = Tx /\ expired = {}
  /\ at = [t \in Thread |-> "idle"]
  /\ job = [t \in Thread |-> CHOOSE x \in Tx : TRUE]
  /\ todo = [t \in Thread |-> {}]
  /\ read = [t \in Putter |-> NothingRead]
  /\ left = [t \in Remover |-> {}]
  /\ call = [t \in Remover |-> "doCleanup"]
  /\ puts = 0 /\ contended = {}

PutterStep(t) ==
  \/ \E x \in Tx : Put(t, x)
  \/ Validate(t)
  \/ AddPortfolio(t)
  \/ ReadIds(t)
  \/ WriteIds(t)
  \/ PutTransaction(t)

RemoverStep(t) ==
  \/ \E x \in Tx : RemoveAll(t, x) \/ LookAt(t, x) \/ RemovePacked(t, x)
  \/ \E c \in {"packUnconfirmed", "doCleanup"} : Sweep(t, c)
  \/ EndSweep(t)
  \/ EndPacking(t)
  \/ RemovePortfolio(t)
  \/ ClearIds(t)
  \/ DropEntry(t)

UtxNext ==
  \/ \E t \in Putter : PutterStep(t)
  \/ \E t \in Remover : RemoverStep(t)
  \/ ChainChanges
  \/ \E x \in Tx : Expire(x)

UtxSpec == UtxInit /\ [][UtxNext]_utxVars

-----------------------------------------------------------------------------
(* Properties.                                                             *)

\* getAggregated: whose spendings count for an address
Counted(a) == {x \in ids[a] \cap portfolios : a \in Touches[x]}

\* Those of the pool that should
Due(a) == {x \in pool : a \in Touches[x]}

PutSteps == {"validate", "portfolio", "read", "write", "put"}
RemoveSteps == {"sweep", "forget", "clear", "forgetFirst", "clearFirst", "drop", "packed"}

\* The type invariant of the pool's variables; only transactions that change a
\* portfolio have an entry among the portfolios.
UtxTypeOK ==
  /\ pool \subseteq Tx /\ valid \subseteq Tx /\ expired \subseteq Tx
  /\ portfolios \subseteq {x \in Tx : Touches[x] # {}}
  /\ ids \in [Address -> SUBSET Tx]
  /\ at \in [Thread -> {"idle"} \cup PutSteps \cup RemoveSteps]
  /\ \A t \in Putter : at[t] \notin RemoveSteps
  /\ \A t \in Remover : at[t] \notin PutSteps
  /\ job \in [Thread -> Tx]
  /\ todo \in [Thread -> SUBSET Address]
  /\ read \in [Putter -> [address : Address, ids : SUBSET Tx]]
  /\ left \in [Remover -> SUBSET Tx]
  /\ call \in [Remover -> {"removeAll", "packUnconfirmed", "doCleanup"}]
  /\ puts \in 0 .. MaxPuts
  /\ contended \subseteq Address

\* The size is looked at before the transaction is validated, so threads together
\* exceed the limit, but by at most one transaction for each of the others.
OvershootBounded == Cardinality(pool) < MaxSize + Cardinality(Putter)

\* While nobody works on an address its spendings are those of the pool, unless two
\* threads have worked on it at the same time before.
CountedUnlessContended ==
  \A a \in Address \ contended :
    (\A t \in Thread : Working(t) => a \notin Touches[job[t]]) => Counted(a) = Due(a)
=============================================================================
