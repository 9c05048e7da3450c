--------------------------- MODULE OperationsProofs ---------------------------
(***************************************************************************)
(* Proofs about Operations.  The server executes one command at a time: a  *)
(* lemma says what a command of an operation may do to a board, to the     *)
(* union and to lifetimes, and another what every step is: a command of    *)
(* some operation, that then goes on or is hurt, or none.                  *)
(***************************************************************************)
EXTENDS Operations, FiniteSetTheorems, WellFoundedInduction, TLAPS

-----------------------------------------------------------------------------
(* Lemmas about the operators.                                             *)

\* The members of a finite set that have fewer than TopK below them are at most
\* TopK: counting those below is injective.
LEMMA LowestIsSmall ==
  ASSUME NEW S \in SUBSET Nat, IsFiniteSet(S)
  PROVE  /\ Lowest(S) \subseteq S /\ IsFiniteSet(Lowest(S))
         /\ Cardinality(Lowest(S)) \in Nat /\ Cardinality(Lowest(S)) <= TopK
<1> DEFINE Below(m) == {n \in S : n < m}
           rank == [m \in Lowest(S) |-> Cardinality(Below(m))]
<1>1. Lowest(S) \subseteq S /\ IsFiniteSet(Lowest(S))
  BY FS_Subset DEF Lowest
<1>2. \A m \in S : IsFiniteSet(Below(m)) /\ Cardinality(Below(m)) \in Nat
  <2> SUFFICES ASSUME NEW m \in S PROVE IsFiniteSet(Below(m)) /\ Cardinality(Below(m)) \in Nat
    OBVIOUS
  <2>1. IsFiniteSet(Below(m))
    BY FS_Subset
  <2>. QED
    BY <2>1, FS_CardinalityType
<1>3. TopK \in Nat \ {0}
  BY BoardsAssumption
<1>4. rank \in [Lowest(S) -> 0..(TopK - 1)]
  <2>1. ASSUME NEW m \in Lowest(S) PROVE Cardinality(Below(m)) \in 0..(TopK - 1)
    <3>1. m \in S /\ Cardinality(Below(m)) < TopK
      BY <2>1 DEF Lowest
    <3>. HIDE DEF Below
    <3>. QED
      BY <1>2, <1>3, <3>1
  <2>. QED
    BY <2>1
<1>5. ASSUME NEW m \in S, NEW n \in S, m < n
      PROVE  Cardinality(Below(m)) # Cardinality(Below(n))
  <2>1. Below(m) \subseteq Below(n) /\ m \in Below(n) /\ m \notin Below(m)
    <3>1. m \in Nat /\ n \in Nat /\ \A l \in S : l \in Nat
      OBVIOUS
    <3>2. \A l \in S : l < m => l < n
      BY <1>5, <3>1
    <3>3. ~(m < m)
      BY <3>1
    <3>. QED
      BY <1>5, <3>2, <3>3
  <2>. HIDE DEF Below
  <2>. QED
    BY <1>2, <2>1, FS_Subset
<1>6. rank \in Injection(Lowest(S), 0..(TopK - 1))
  <2>1. ASSUME NEW m \in Lowest(S), NEW n \in Lowest(S), rank[m] = rank[n]
        PROVE  m = n
    <3>1. m \in S /\ n \in S /\ m \in Nat /\ n \in Nat
      BY <1>1
    <3>2. Cardinality(Below(m)) = Cardinality(Below(n))
      BY <2>1
    <3>3. ~(m < n) /\ ~(n < m)
      BY <1>5, <3>1, <3>2
    <3>. QED
      BY <3>1, <3>3
  <2>2. DOMAIN rank = Lowest(S)
    OBVIOUS
  <2>. QED
    BY <1>4, <2>1, <2>2 DEF Injection, IsInjective
<1>7. IsFiniteSet(0..(TopK - 1)) /\ Cardinality(0..(TopK - 1)) = TopK
  BY <1>3, FS_Interval
<1>8. Cardinality(Lowest(S)) <= TopK
  <2>. HIDE DEF rank
  <2>. QED
    BY <1>6, <1>7, FS_Injection
<1>. QED
  BY <1>1, <1>8, FS_CardinalityType

\* The sources of a union are finitely many.
LEMMA SourcesAreFinite == IsFiniteSet(Sources)
<1> DEFINE I == {j \in 0..(PerTag - 1) : j < FanIn}
           board == [i \in I |-> BoardKey(i)]
<1>1. IsFiniteSet(I)
  <2>1. IsFiniteSet(0..(PerTag - 1))
    BY FS_Interval, BoardsAssumption
  <2>. QED
    BY <2>1, FS_Subset
<1>2. board \in Surjection(I, Sources)
  BY DEF Surjection, Sources
<1>. HIDE DEF board, I
<1>. QED
  BY <1>1, <1>2, FS_Surjection

\* No board is the union of boards.
LEMMA UnionIsNoBoard == UnionKey \notin BoardKeys
BY DEF UnionKey, BoardKeys, BoardKey

\* A batch is a finite set of natural numbers.
LEMMA BatchFacts ==
  \A b \in Batches : b \subseteq Nat /\ IsFiniteSet(b)
BY BoardsAssumption
-----------------------------------------------------------------------------
(* What a command does.                                                    *)

Members(k) == Entry(k).members

\* The entries are records, with finitely many members in the workload that has
\* boards.
DbInv ==
  /\ \A k \in DOMAIN db : /\ db[k] = [members |-> db[k].members, expires |-> db[k].expires]
                          /\ db[k].expires \in BOOLEAN
  /\ settings.workload = "zset" =>
       \A k \in DOMAIN db : db[k].members \subseteq Nat /\ IsFiniteSet(db[k].members)

\* A command changes a board in two ways, and the union in two.
BoardsChange(c) ==
  \A k : \/ Members(k)' = Members(k)
         \/ Members(k)' = Lowest(Members(k))
         \/ c.name = "ZADD" /\ k \in c.keys /\ Members(k)' = Members(k) \cup c.members
         \/ c.name = "ZUNIONSTORE" /\ k \in c.keys

\* A trim reaches its keys.
Trimmed(c) ==
  c.name = "ZREMRANGEBYRANK" => \A k \in c.keys : Members(k)' = Lowest(Members(k))

\* A key that does not expire was such a one before, or was written.
LifetimesChange(c) ==
  \A k \in DOMAIN db' : ~db'[k].expires =>
    \/ k \in DOMAIN db /\ ~db[k].expires /\ (c.name \in {"EXPIRE", "SET"} => k \notin c.keys)
    \/ c.name \in {"MSET", "HSET", "ZADD", "ZUNIONSTORE"} /\ k \in c.keys
    \/ c.name = "SET" /\ k \in c.keys /\ ~settings.expires

LEMMA MembersFacts ==
  ASSUME DbInv, settings.workload = "zset", NEW k
  PROVE  Members(k) \subseteq Nat /\ IsFiniteSet(Members(k))
BY FS_EmptySet DEF DbInv, Members, Entry

LEMMA UnionIsFinite ==
  ASSUME DbInv, settings.workload = "zset"
  PROVE  Union(Sources) \subseteq Nat /\ IsFiniteSet(Union(Sources))
<1> DEFINE f == [k \in Sources |-> Members(k)]
           T == {Members(k) : k \in Sources}
<1>1. f \in Surjection(Sources, T)
  BY DEF Surjection
<1>2. IsFiniteSet(T)
  <2>. HIDE DEF f, T
  <2>. QED
    BY <1>1, SourcesAreFinite, FS_Surjection
<1>3. \A S \in T : S \subseteq Nat /\ IsFiniteSet(S)
  BY MembersFacts
<1>4. Union(Sources) = UNION T
  BY DEF Union, Members
<1>. HIDE DEF T
<1>. QED
  BY <1>2, <1>3, <1>4, FS_UNION

\* The batch of a late or present command is finite.
Sound(c) == /\ settings.workload = "zset" => c.name \notin {"SET", "MSET", "HSET"}
            /\ c.name = "ZADD" => /\ settings.workload = "zset"
                                  /\ c.members \subseteq Nat /\ IsFiniteSet(c.members)

LEMMA DoneKeepsDb ==
  ASSUME DbInv, settings.expires \in BOOLEAN, settings' = settings, NEW c, Sound(c), db' = Done(c)
  PROVE  DbInv'
<1> USE DEF Done, With, Entry, DbInv
<1>1. CASE c.name \in {"SET", "MSET"}
  BY <1>1, FS_EmptySet DEF Sound
<1>2. CASE c.name = "HSET"
  BY <1>2 DEF Sound
<1>3. CASE c.name = "ZADD"
  BY <1>3, FS_Union, FS_EmptySet DEF Sound
<1>4. CASE c.name = "EXPIRE"
  BY <1>4
<1>5. CASE c.name = "ZREMRANGEBYRANK"
  BY <1>5, LowestIsSmall
<1>6. CASE c.name = "ZUNIONSTORE"
  BY <1>6, UnionIsFinite
<1>7. CASE c.name \notin {"SET", "MSET", "HSET", "ZADD", "EXPIRE", "ZREMRANGEBYRANK", "ZUNIONSTORE"}
  BY <1>7
<1>. QED
  BY <1>1, <1>2, <1>3, <1>4, <1>5, <1>6, <1>7

LEMMA DoneChangesBoards ==
  ASSUME DbInv, settings.workload = "zset", NEW c, Sound(c), db' = Done(c)
  PROVE  BoardsChange(c) /\ Trimmed(c)
<1> USE DEF Done, With, Entry, DbInv, Members, BoardsChange, Trimmed
<1>1. CASE c.name \in {"SET", "MSET", "HSET"}
  BY <1>1 DEF Sound
<1>3. CASE c.name = "ZADD"
  BY <1>3
<1>4. CASE c.name = "EXPIRE"
  BY <1>4
<1>5. CASE c.name = "ZREMRANGEBYRANK"
  BY <1>5 DEF Lowest
<1>6. CASE c.name = "ZUNIONSTORE"
  BY <1>6
<1>7. CASE c.name \notin {"SET", "MSET", "HSET", "ZADD", "EXPIRE", "ZREMRANGEBYRANK", "ZUNIONSTORE"}
  BY <1>7
<1>. QED
  BY <1>1, <1>3, <1>4, <1>5, <1>6, <1>7

LEMMA DoneChangesLifetimes ==
  ASSUME DbInv, settings.expires \in BOOLEAN, NEW c, db' = Done(c)
  PROVE  LifetimesChange(c)
<1> USE DEF Done, With, Entry, DbInv, LifetimesChange
<1>1. CASE c.name \in {"SET", "MSET", "HSET", "ZADD"}
  BY <1>1
<1>4. CASE c.name = "EXPIRE"
  BY <1>4
<1>5. CASE c.name = "ZREMRANGEBYRANK"
  BY <1>5
<1>6. CASE c.name = "ZUNIONSTORE"
  BY <1>6
<1>7. CASE c.name \notin {"SET", "MSET", "HSET", "ZADD", "EXPIRE", "ZREMRANGEBYRANK", "ZUNIONSTORE"}
  BY <1>7
<1>. QED
  BY <1>1, <1>4, <1>5, <1>6, <1>7
-----------------------------------------------------------------------------
(* The commands of operations.                                             *)

LEMMA ServerFacts ==
  ASSUME ServerInv
  PROVE  DbInv /\ settings.expires \in BOOLEAN
BY DEF ServerInv, TypeOK, DbInv, Settings

LEMMA CommandsAreSound ==
  ASSUME ServerInv, NEW o \in Ops, NEW c, CommandOf(c, o)
  PROVE  Sound(c)
BY DEF CommandOf, Sound, Writing, ServerInv, TypeOK, Settings, Workloads

LEMMA CommandFacts ==
  ASSUME NEW o \in Ops, AtWork(o), ServerInv
  PROVE  /\ CommandOf(Command(o), o) /\ Sound(Command(o))
         /\ pc[o] = "write" => Command(o).name = Writing /\ Command(o).keys = target[o]
         /\ pc[o] = "expire" => Command(o).name = "EXPIRE" /\ Command(o).keys = target[o]
         /\ pc[o] = "read" => Command(o).name = "READ"
         /\ pc[o] = "trim" => Command(o).name = "ZREMRANGEBYRANK" /\ Command(o).keys = target[o]
         /\ pc[o] = "union" => Command(o).name = "ZUNIONSTORE" /\ Command(o).keys = {UnionKey}
         /\ pc[o] = "trim union" =>
              Command(o).name = "ZREMRANGEBYRANK" /\ Command(o).keys = {UnionKey}
         /\ pc[o] = "expire union" =>
              Command(o).name = "EXPIRE" /\ Command(o).keys = {UnionKey}
<1>1. pc[o] \in {"write", "expire", "read", "trim", "union", "trim union", "expire union"}
  BY DEF ServerInv, TypeOK, AtWork
<1>2. CommandOf(Command(o), o)
  BY <1>1 DEF Command, CommandOf
<1>. QED
  BY <1>1, <1>2, CommandsAreSound DEF Command

\* The command that a step executes on the server, if any: one of an operation
\* that is at it, or one that is late, or a part of an EXPIRE.
Executes(c) ==
  /\ db' = Done(c)
  /\ Sound(c)
  /\ \/ \E o \in Ops : AtWork(o) /\ c = Command(o)
     \/ \E o \in hurt : CommandOf(c, o)
     \/ c.name = "EXPIRE"

\* What a failed operation leaves on the server.
LEMMA ErrsExecutes ==
  ASSUME ServerInv, NEW o \in Ops, Errs(o)
  PROVE  db' = db \/ \E c : Executes(c)
<1> DEFINE c == Command(o)
<1>1. AtWork(o)
  BY DEF Errs
<1>2. CASE db' = db
  BY <1>2
<1>3. ASSUME NEW ks \in SUBSET c.keys, c.name = "EXPIRE", db' = Done([c EXCEPT !.keys = ks])
      PROVE  \E d : Executes(d)
  <2> DEFINE d == [c EXCEPT !.keys = ks]
  <2>1. d.name = "EXPIRE"
    BY <1>1, <1>3, CommandFacts DEF Command, AtWork, ServerInv, TypeOK
  <2>2. Executes(d)
    BY <1>3, <2>1 DEF Executes, Sound
  <2>. QED
    BY <2>2
<1>4. CASE db' = Done([c EXCEPT !.keys = c.keys])
  <2>1. [c EXCEPT !.keys = c.keys] = c
    BY <1>1 DEF Command, AtWork, ServerInv, TypeOK
  <2>2. Executes(c)
    BY <1>1, <1>4, <2>1, CommandFacts DEF Executes
  <2>. QED
    BY <2>2
<1>. QED
  BY <1>2, <1>3, <1>4 DEF Errs

\* Where an operation goes after its command.
LEMMA GoesFacts ==
  ASSUME NEW o \in Ops, NEW ok \in BOOLEAN, ServerInv, AtWork(o), Goes(o, ok)
  PROVE  /\ pc' \in [Ops -> {"idle", "write", "expire", "read", "trim", "union", "trim union",
                             "expire union", "done"}]
         /\ pc'[o] # "idle"
         /\ \A p \in Ops \ {o} : pc'[p] = pc[p]
         /\ pc[o] = "trim union" /\ ok /\ settings.expires => pc'[o] = "expire union"
         /\ pc[o] = "union" /\ ok => pc'[o] = "trim union"
         /\ pc[o] = "write" /\ ok /\ settings.expires /\ settings.workload # "setget" =>
              pc'[o] = "expire"
         /\ ok /\ ~cancelled =>
              /\ pc[o] = "write" => pc'[o] \in {"expire", "read"}
              /\ pc[o] = "expire" => pc'[o] = "read"
              /\ pc[o] = "read" /\ settings.workload = "zset" => pc'[o] = "trim"
<1>1. /\ pc \in [Ops -> {"idle", "write", "expire", "read", "trim", "union", "trim union",
                         "expire union", "done"}]
      /\ settings.expires \in BOOLEAN
  BY ServerFacts DEF ServerInv, TypeOK
<1>2. PICK next \in {"expire", "read", "trim", "union", "trim union", "expire union", "done"} :
        After(o, ok, next) /\ pc' = [pc EXCEPT ![o] = next]
  BY DEF Goes
<1>. QED
  BY <1>1, <1>2 DEF After, AfterUnionTrim

-----------------------------------------------------------------------------
(* The inductive invariant.                                                *)

LEMMA InitServerInv == Init => ServerInv
<1> SUFFICES ASSUME Init PROVE ServerInv
  OBVIOUS
<1>1. DOMAIN db = {}
  BY DEF Init
<1>2. TypeOK
  BY <1>1 DEF Init, TypeOK
<1>. QED
  BY <1>1, <1>2, FS_EmptySet DEF Init, ServerInv

\* A command keeps what is said of the server's entries.
LEMMA ExecutesKeepsDb ==
  ASSUME ServerInv, settings' = settings, NEW c, Executes(c)
  PROVE  DbInv'
BY ServerFacts, DoneKeepsDb DEF Executes

\* Operations that do not begin keep what they write.
LEMMA CommandsStay ==
  ASSUME ServerInv, UNCHANGED <<settings, target, batch>>,
         hurt \subseteq hurt', hurt' \subseteq Ops, NEW c, NEW o \in hurt, CommandOf(c, o)
  PROVE  \E p \in hurt' : CommandOf(c, p)'
BY DEF CommandOf, Writing

LEMMA ServerStep ==
  ASSUME ServerInv, [Next]_vars
  PROVE  ServerInv'
<1>1. ASSUME NEW o \in Ops, Begin(o)
      PROVE  ServerInv'
  <2>1. /\ UNCHANGED <<settings, cancelled, db, late, hurt>> /\ o \notin hurt
        /\ pc' = [pc EXCEPT ![o] = "write"]
        /\ \A p \in Ops \ {o} : target'[p] = target[p] /\ batch'[p] = batch[p]
        /\ DOMAIN target' = Ops /\ DOMAIN batch' = Ops
    BY <1>1 DEF Begin, ServerInv, TypeOK
  <2>2. settings.workload = "zset" =>
          /\ target'[o] \subseteq BoardKeys
          /\ batch'[o] \subseteq Nat /\ IsFiniteSet(batch'[o])
    <3> SUFFICES ASSUME settings.workload = "zset"
                 PROVE  /\ target'[o] \subseteq BoardKeys
                        /\ batch'[o] \subseteq Nat /\ IsFiniteSet(batch'[o])
      OBVIOUS
    <3>1. DOMAIN target = Ops /\ DOMAIN batch = Ops
      BY DEF ServerInv, TypeOK
    <3>2. PICK k \in BoardKeys, b \in Batches :
            target' = [target EXCEPT ![o] = {k}] /\ batch' = [batch EXCEPT ![o] = b]
      BY <1>1 DEF Begin
    <3>3. target'[o] = {k} /\ batch'[o] = b
      BY <3>1, <3>2
    <3>. QED
      BY <3>3, BatchFacts
  <2>3. \A c \in late' : \E p \in hurt' : CommandOf(c, p)'
    <3> SUFFICES ASSUME NEW c \in late, NEW p \in hurt, CommandOf(c, p)
                 PROVE  CommandOf(c, p)'
      BY <2>1 DEF ServerInv
    <3>1. p \in Ops \ {o}
      BY <2>1 DEF ServerInv, TypeOK
    <3>. QED
      BY <2>1, <3>1 DEF CommandOf, Writing
  <2>4. TypeOK'
    BY <2>1 DEF ServerInv, TypeOK
  <2>. QED
    BY <2>1, <2>2, <2>3, <2>4 DEF ServerInv, TypeOK
<1>2. ASSUME UNCHANGED <<settings, target, batch>>, DbInv', cancelled' \in BOOLEAN,
             hurt \subseteq hurt', hurt' \subseteq Ops,
             pc' \in [Ops -> {"idle", "write", "expire", "read", "trim", "union",
                              "trim union", "expire union", "done"}],
             \A o \in Ops : pc'[o] = "idle" => pc[o] = "idle" /\ o \notin hurt',
             \A c \in late' : c \in late \/ \E o \in hurt' : CommandOf(c, o)
      PROVE  ServerInv'
  <2>1. \A c \in late' : \E o \in hurt' : CommandOf(c, o)'
    <3> SUFFICES ASSUME NEW c \in late' PROVE \E o \in hurt' : CommandOf(c, o)'
      OBVIOUS
    <3>1. \E o \in hurt' : CommandOf(c, o)
      BY <1>2 DEF ServerInv
    <3>. QED
      BY <1>2, <3>1 DEF CommandOf, Writing
  <2>2. TypeOK'
    BY <1>2 DEF TypeOK, ServerInv, DbInv
  <2>. QED
    BY <1>2, <2>1, <2>2 DEF ServerInv, DbInv
<1>3. ASSUME NEW o \in Ops, Succeeds(o)
      PROVE  ServerInv'
  <2>1. AtWork(o) /\ Executes(Command(o)) /\ settings' = settings
    BY <1>3, CommandFacts DEF Succeeds, Executes
  <2>2. DbInv'
    BY <2>1, ExecutesKeepsDb
  <2>3. /\ pc' \in [Ops -> {"idle", "write", "expire", "read", "trim", "union", "trim union",
                            "expire union", "done"}]
        /\ pc'[o] # "idle" /\ \A p \in Ops \ {o} : pc'[p] = pc[p]
    BY <1>3, <2>1, GoesFacts DEF Succeeds
  <2>. QED
    BY <1>2, <1>3, <2>2, <2>3 DEF Succeeds, ServerInv, TypeOK
<1>4. ASSUME NEW o \in Ops, Resent(o)
      PROVE  ServerInv'
  <2>1. AtWork(o) /\ Executes(Command(o)) /\ settings' = settings
    BY <1>4, CommandFacts DEF Resent, Executes
  <2>2. DbInv'
    BY <2>1, ExecutesKeepsDb
  <2>. QED
    BY <1>2, <1>4, <2>2 DEF Resent, ServerInv, TypeOK
<1>5. ASSUME NEW o \in Ops, Errs(o)
      PROVE  ServerInv'
  <2>1. AtWork(o) /\ UNCHANGED <<settings, cancelled, target, batch>> /\ hurt' = hurt \cup {o}
    BY <1>5 DEF Errs
  <2>2. DbInv'
    <3>1. CASE db' = db
      BY <2>1, <3>1, ServerFacts DEF DbInv
    <3>. QED
      BY <1>5, <2>1, <3>1, ErrsExecutes, ExecutesKeepsDb
  <2>3. /\ pc' \in [Ops -> {"idle", "write", "expire", "read", "trim", "union", "trim union",
                            "expire union", "done"}]
        /\ pc'[o] # "idle" /\ \A p \in Ops \ {o} : pc'[p] = pc[p]
    BY <1>5, <2>1, GoesFacts DEF Errs
  <2>4. \A c \in late' : c \in late \/ c = Command(o)
    BY <1>5 DEF Errs
  <2>5. \A c \in late' : c \in late \/ \E p \in hurt' : CommandOf(c, p)
    BY <2>1, <2>4, CommandFacts
  <2>. QED
    BY <1>2, <2>1, <2>2, <2>3, <2>5 DEF ServerInv, TypeOK
<1>6. ASSUME NEW c \in late, DoneLate(c)
      PROVE  ServerInv'
  <2>1. \E o \in hurt : CommandOf(c, o) /\ o \in Ops
    BY DEF ServerInv, TypeOK
  <2>2. Executes(c) /\ settings' = settings
    BY <1>6, <2>1, CommandsAreSound DEF DoneLate, Executes
  <2>3. DbInv'
    BY <2>2, ExecutesKeepsDb
  <2>. QED
    BY <1>2, <1>6, <2>3 DEF DoneLate, ServerInv, TypeOK
<1>7. ASSUME NEW k \in DOMAIN db, KeyExpires(k)
      PROVE  ServerInv'
  <2>1. DbInv'
    BY <1>7, ServerFacts DEF KeyExpires, DbInv
  <2>. QED
    BY <1>2, <1>7, <2>1 DEF KeyExpires, ServerInv, TypeOK
<1>8. CASE Cancel
  <2>1. DbInv'
    BY <1>8, ServerFacts DEF Cancel, DbInv
  <2>. QED
    BY <1>2, <1>8, <2>1 DEF Cancel, ServerInv, TypeOK, AtWork
<1>9. CASE UNCHANGED vars
  <2>1. DbInv'
    BY <1>9, ServerFacts DEF vars, DbInv
  <2>. QED
    BY <1>2, <1>9, <2>1 DEF vars, ServerInv, TypeOK
<1>. QED
  BY <1>1, <1>3, <1>4, <1>5, <1>6, <1>7, <1>8, <1>9 DEF Next

\* The inductive invariant holds in every state of every behaviour.
THEOREM Invariant == Spec => []ServerInv
  BY InitServerInv, ServerStep, PTL DEF Spec

-----------------------------------------------------------------------------
(* Boards.                                                                 *)

Owed(k) == UNION {batch[o] : o \in Owing(k)}

LEMMA ExecutesOnBoard ==
  ASSUME ServerInv, settings.workload = "zset", NEW k \in BoardKeys, NEW c, Executes(c)
  PROVE  \/ Members(k)' = Lowest(Members(k))
         \/ Members(k)' \subseteq Members(k) \cup Owed(k)
<1>1. BoardsChange(c)
  BY ServerFacts, DoneChangesBoards DEF Executes
<1>2. c.name = "ZADD" /\ k \in c.keys => \E o \in Owing(k) : c.members = batch[o]
  <2> SUFFICES ASSUME c.name = "ZADD", k \in c.keys
               PROVE  \E o \in Owing(k) : c.members = batch[o]
    OBVIOUS
  <2>1. ASSUME NEW o \in Ops, AtWork(o), c = Command(o)
        PROVE  o \in Owing(k) /\ c.members = batch[o]
    BY <2>1, CommandFacts DEF Owing, Writing, AtWork, ServerInv, TypeOK, CommandOf
  <2>2. ASSUME NEW o \in hurt, CommandOf(c, o)
        PROVE  o \in Owing(k) /\ c.members = batch[o]
    BY <2>2 DEF Owing, CommandOf, ServerInv, TypeOK
  <2>. QED
    BY <2>1, <2>2 DEF Executes
<1>3. c.name = "ZUNIONSTORE" => k \notin c.keys
  <2>1. ASSUME NEW o \in Ops, AtWork(o), c = Command(o), c.name = "ZUNIONSTORE"
        PROVE  c.keys = {UnionKey}
    BY <2>1, CommandFacts DEF CommandOf, Writing, ServerInv, TypeOK, Settings, Workloads
  <2>2. ASSUME NEW o \in hurt, CommandOf(c, o), c.name = "ZUNIONSTORE"
        PROVE  c.keys = {UnionKey}
    BY <2>2 DEF CommandOf, Writing
  <2>. QED
    BY <2>1, <2>2, UnionIsNoBoard DEF Executes
<1>. QED
  BY <1>1, <1>2, <1>3 DEF BoardsChange, Owed

\* A step leaves a board with nothing new but what is owed, or trims it.
LEMMA BoardStep ==
  ASSUME ServerInv, settings.workload = "zset", NEW k \in BoardKeys, [Next]_vars
  PROVE  \/ Members(k)' \ Owed(k)' \subseteq Members(k) \ Owed(k)
         \/ Members(k)' \ Owed(k)' \subseteq Lowest(Members(k))
<1>1. ASSUME Owing(k) \subseteq Owing(k)', \A o \in Owing(k) : batch'[o] = batch[o],
             \/ Members(k)' = Lowest(Members(k))
             \/ Members(k)' \subseteq Members(k) \cup Owed(k)
      PROVE  \/ Members(k)' \ Owed(k)' \subseteq Members(k) \ Owed(k)
             \/ Members(k)' \ Owed(k)' \subseteq Lowest(Members(k))
  <2>1. Owed(k) \subseteq Owed(k)'
    BY <1>1 DEF Owed
  <2>. QED
    BY <1>1, <2>1
<1>2. ASSUME NEW o \in Ops, Begin(o)
      PROVE  \/ Members(k)' \ Owed(k)' \subseteq Members(k) \ Owed(k)
             \/ Members(k)' \ Owed(k)' \subseteq Lowest(Members(k))
  <2>1. o \notin Owing(k) /\ UNCHANGED <<db, hurt>>
    BY <1>2 DEF Begin, Owing, ServerInv
  <2>2. \A p \in Ops \ {o} : pc'[p] = pc[p] /\ target'[p] = target[p] /\ batch'[p] = batch[p]
    BY <1>2 DEF Begin, ServerInv, TypeOK
  <2>3. Members(k)' = Members(k)
    BY <2>1 DEF Members, Entry
  <2>. QED
    BY <1>1, <2>1, <2>2, <2>3 DEF Owing
<1>3. ASSUME NEW o \in Ops, Succeeds(o)
      PROVE  \/ Members(k)' \ Owed(k)' \subseteq Members(k) \ Owed(k)
             \/ Members(k)' \ Owed(k)' \subseteq Lowest(Members(k))
  <2>1. AtWork(o) /\ Executes(Command(o)) /\ Goes(o, TRUE) /\ ~cancelled
        /\ UNCHANGED <<target, batch, hurt>>
    BY <1>3, CommandFacts DEF Succeeds, Executes
  <2>2. CASE pc[o] = "trim" /\ k \in target[o]
    <3>1. Trimmed(Command(o))
      BY <2>1, ServerFacts, DoneChangesBoards DEF Executes
    <3>2. Members(k)' = Lowest(Members(k))
      BY <2>1, <2>2, <3>1, CommandFacts DEF Trimmed
    <3>. QED
      BY <3>2
  <2>3. CASE ~(pc[o] = "trim" /\ k \in target[o])
    <3>1. Owing(k) \subseteq Owing(k)'
      BY <2>1, <2>3, GoesFacts DEF Owing
    <3>. QED
      BY <1>1, <2>1, <3>1, ExecutesOnBoard
  <2>. QED
    BY <2>2, <2>3
<1>4. ASSUME NEW o \in Ops, Resent(o)
      PROVE  \/ Members(k)' \ Owed(k)' \subseteq Members(k) \ Owed(k)
             \/ Members(k)' \ Owed(k)' \subseteq Lowest(Members(k))
  <2>1. Executes(Command(o)) /\ UNCHANGED <<pc, target, batch, hurt>>
    BY <1>4, CommandFacts DEF Resent, Executes
  <2>. QED
    BY <1>1, <2>1, ExecutesOnBoard DEF Owing
<1>5. ASSUME NEW o \in Ops, Errs(o)
      PROVE  \/ Members(k)' \ Owed(k)' \subseteq Members(k) \ Owed(k)
             \/ Members(k)' \ Owed(k)' \subseteq Lowest(Members(k))
  <2>1. AtWork(o) /\ Goes(o, FALSE) /\ UNCHANGED <<target, batch>> /\ hurt' = hurt \cup {o}
    BY <1>5 DEF Errs
  <2>2. Owing(k) \subseteq Owing(k)'
    BY <2>1, GoesFacts DEF Owing
  <2>3. CASE db' = db
    BY <1>1, <2>1, <2>2, <2>3 DEF Members, Entry
  <2>. QED
    BY <1>1, <1>5, <2>1, <2>2, <2>3, ErrsExecutes, ExecutesOnBoard
<1>6. ASSUME NEW c \in late, DoneLate(c)
      PROVE  \/ Members(k)' \ Owed(k)' \subseteq Members(k) \ Owed(k)
             \/ Members(k)' \ Owed(k)' \subseteq Lowest(Members(k))
  <2>1. \E o \in hurt : CommandOf(c, o) /\ o \in Ops
    BY DEF ServerInv, TypeOK
  <2>2. Executes(c) /\ UNCHANGED <<pc, target, batch, hurt>>
    BY <1>6, <2>1, CommandsAreSound DEF DoneLate, Executes
  <2>. QED
    BY <1>1, <2>2, ExecutesOnBoard DEF Owing
<1>7. ASSUME NEW j \in DOMAIN db, KeyExpires(j)
      PROVE  Members(k)' \ Owed(k)' \subseteq Members(k) \ Owed(k)
  <2>1. Members(k)' \subseteq Members(k) /\ Owed(k)' = Owed(k)
    BY <1>7 DEF KeyExpires, Members, Entry, Owed, Owing
  <2>. QED
    BY <2>1
<1>8. CASE Cancel
  <2>1. Owing(k) \subseteq Owing(k)' /\ Members(k)' = Members(k) /\ batch' = batch
    BY <1>8 DEF Cancel, Owing, Members, Entry
  <2>. QED
    BY <1>1, <2>1
<1>9. CASE UNCHANGED vars
  BY <1>9 DEF vars, Members, Entry, Owed, Owing
<1>. QED
  BY <1>2, <1>3, <1>4, <1>5, <1>6, <1>7, <1>8, <1>9 DEF Next

\* A leaderboard has at most TopK members that no operation owes it to remove, for
\* any number of operations, of boards and of members, and any order of commands.
THEOREM LeaderboardsAreBounded == Spec => []BoundedBoards
<1>1. Init => BoundedBoards
  <2> SUFFICES ASSUME Init, NEW k \in BoardKeys
               PROVE  Cardinality(Members(k) \ Owed(k)) <= TopK
    BY DEF BoundedBoards, Members, Owed
  <2>1. Members(k) \ Owed(k) = {}
    BY DEF Init, Members, Entry
  <2>2. Cardinality({}) = 0 /\ 0 <= TopK
    BY FS_EmptySet, BoardsAssumption
  <2>. QED
    BY <2>1, <2>2
<1>2. ServerInv /\ BoundedBoards /\ [Next]_vars => BoundedBoards'
  <2> SUFFICES ASSUME ServerInv, BoundedBoards, [Next]_vars,
                      settings'.workload = "zset", NEW k \in BoardKeys
               PROVE  Cardinality(Members(k)' \ Owed(k)') <= TopK
    BY DEF BoundedBoards, Members, Owed, BoardKeys
  <2>1. settings' = settings
    BY DEF Next, vars, Begin, Succeeds, Resent, Errs, DoneLate, KeyExpires, Cancel
  <2>2. Cardinality(Members(k) \ Owed(k)) <= TopK
    BY <2>1 DEF BoundedBoards, Members, Owed
  <2>3. /\ Members(k) \subseteq Nat /\ IsFiniteSet(Members(k))
        /\ IsFiniteSet(Members(k) \ Owed(k)) /\ Cardinality(Members(k) \ Owed(k)) \in Nat
    BY <2>1, ServerFacts, MembersFacts, FS_Difference, FS_CardinalityType
  <2>4. /\ IsFiniteSet(Lowest(Members(k))) /\ Cardinality(Lowest(Members(k))) \in Nat
        /\ Cardinality(Lowest(Members(k))) <= TopK
    BY <2>3, LowestIsSmall
  <2>5. TopK \in Nat
    BY BoardsAssumption
  <2>6. ASSUME NEW T, IsFiniteSet(T), Cardinality(T) \in Nat, Cardinality(T) <= TopK,
               Members(k)' \ Owed(k)' \subseteq T
        PROVE  Cardinality(Members(k)' \ Owed(k)') <= TopK
    <3>1. /\ Cardinality(Members(k)' \ Owed(k)') <= Cardinality(T)
          /\ IsFiniteSet(Members(k)' \ Owed(k)')
      BY <2>6, FS_Subset
    <3>2. Cardinality(Members(k)' \ Owed(k)') \in Nat
      BY <3>1, FS_CardinalityType
    <3>. QED
      BY <2>5, <2>6, <3>1, <3>2
  <2>. QED
    BY <2>1, <2>2, <2>3, <2>4, <2>6, BoardStep
<1>. QED
  BY <1>1, <1>2, Invariant, PTL DEF Spec

-----------------------------------------------------------------------------
(* The union.                                                              *)

LEMMA ExecutesOnUnion ==
  ASSUME ServerInv, settings.workload = "zset", NEW c, Executes(c)
  PROVE  \/ Members(UnionKey)' = Members(UnionKey)
         \/ Members(UnionKey)' = Lowest(Members(UnionKey))
         \/ c.name = "ZUNIONSTORE" /\ \E o \in Ops : c = Command(o) /\ pc[o] = "union"
         \/ hurt # {}
<1>1. BoardsChange(c)
  BY ServerFacts, DoneChangesBoards DEF Executes
<1>2. ASSUME NEW o \in Ops, AtWork(o), c = Command(o), c.name = "ZADD"
      PROVE  UnionKey \notin c.keys
  <2>1. pc[o] = "write"
    BY <1>2, CommandFacts DEF AtWork, ServerInv, TypeOK
  <2>. QED
    BY <1>2, <2>1, CommandFacts, UnionIsNoBoard DEF ServerInv
<1>3. ASSUME NEW o \in Ops, AtWork(o), c = Command(o), c.name = "ZUNIONSTORE"
      PROVE  pc[o] = "union"
  BY <1>3, CommandFacts DEF AtWork, Writing, ServerInv, TypeOK
<1>. QED
  BY <1>1, <1>2, <1>3 DEF BoardsChange, Executes

\* The union has at most TopK members, but between the two commands of some
\* operation or after an operation was hurt.
THEOREM UnionIsBounded == Spec => []BoundedUnion
<1> DEFINE Large == Cardinality(Members(UnionKey)) > TopK
           Excused == \E o \in Ops : pc[o] \in {"union", "trim union"} \/ o \in hurt
<1>1. Init => BoundedUnion
  <2> SUFFICES ASSUME Init PROVE ~Large
    BY DEF BoundedUnion, Members
  <2>1. Members(UnionKey) = {}
    BY DEF Init, Members, Entry
  <2>2. Cardinality({}) = 0 /\ TopK \in Nat
    BY FS_EmptySet, BoardsAssumption
  <2>. QED
    BY <2>1, <2>2
<1>2. ServerInv /\ BoundedUnion /\ [Next]_vars => BoundedUnion'
  <2> SUFFICES ASSUME ServerInv, BoundedUnion, [Next]_vars,
                      settings'.workload = "zset", Large'
               PROVE  Excused'
    BY DEF BoundedUnion, Members
  <2>1. settings' = settings /\ hurt \subseteq hurt' /\ hurt \subseteq Ops
    BY DEF Next, vars, Begin, Succeeds, Resent, Errs, DoneLate, KeyExpires, Cancel, ServerInv,
           TypeOK
  <2>2. CASE hurt' # {}
    <3>1. hurt' \subseteq Ops
      BY ServerStep DEF ServerInv, TypeOK
    <3>. QED
      BY <2>2, <3>1
  <2>3. CASE hurt' = {}
    <3>1. hurt = {}
      BY <2>1, <2>3
    <3>2. Large => \E o \in Ops : pc[o] \in {"union", "trim union"}
      BY <2>1, <3>1 DEF BoundedUnion, Members
    <3>3. Members(UnionKey)' # Lowest(Members(UnionKey))
      <4>1. /\ Cardinality(Lowest(Members(UnionKey))) <= TopK
            /\ Cardinality(Lowest(Members(UnionKey))) \in Nat
        BY <2>1, ServerFacts, MembersFacts, LowestIsSmall
      <4>. QED
        BY <4>1, BoardsAssumption
    <3>4. ASSUME NEW o \in Ops, Begin(o)
          PROVE  Excused'
      <4>1. Members(UnionKey)' = Members(UnionKey)
        BY <3>4 DEF Begin, Members, Entry
      <4>2. pc[o] = "idle" /\ \A p \in Ops \ {o} : pc'[p] = pc[p]
        BY <3>4 DEF Begin, ServerInv, TypeOK
      <4>. QED
        BY <3>2, <4>1, <4>2
    <3>5. ASSUME NEW o \in Ops, Succeeds(o)
          PROVE  Excused'
      <4>1. AtWork(o) /\ Executes(Command(o)) /\ Goes(o, TRUE)
        BY <3>5, CommandFacts DEF Succeeds, Executes
      <4>2. CASE pc[o] = "union"
        BY <4>1, <4>2, GoesFacts
      <4>3. CASE pc[o] = "trim union"
        <5>1. Trimmed(Command(o))
          BY <2>1, <4>1, ServerFacts, DoneChangesBoards DEF Executes
        <5>2. Members(UnionKey)' = Lowest(Members(UnionKey))
          BY <4>1, <4>3, <5>1, CommandFacts DEF Trimmed
        <5>. QED
          BY <3>3, <5>2
      <4>4. CASE pc[o] \notin {"union", "trim union"}
        <5>1. Command(o).name # "ZUNIONSTORE"
          BY <4>1, <4>4, CommandFacts DEF AtWork, Writing, ServerInv, TypeOK, Settings, Workloads
        <5>2. Members(UnionKey)' = Members(UnionKey)
          BY <2>1, <3>1, <3>3, <4>1, <5>1, ExecutesOnUnion
        <5>. QED
          BY <3>2, <4>1, <4>4, <5>2, GoesFacts
      <4>. QED
        BY <4>2, <4>3, <4>4
    <3>6. ASSUME NEW o \in Ops, Resent(o)
          PROVE  Excused'
      <4>1. Executes(Command(o)) /\ pc' = pc
        BY <3>6, CommandFacts DEF Resent, Executes
      <4>. QED
        BY <2>1, <3>1, <3>2, <3>3, <4>1, ExecutesOnUnion
    <3>7. ASSUME NEW k \in DOMAIN db, KeyExpires(k)
          PROVE  Excused'
      <4>1. Members(UnionKey)' = Members(UnionKey) \/ Members(UnionKey)' = {}
        BY <3>7 DEF KeyExpires, Members, Entry
      <4>2. Cardinality({}) = 0 /\ TopK \in Nat
        BY FS_EmptySet, BoardsAssumption
      <4>3. Members(UnionKey)' # {}
        BY <4>2
      <4>4. Large /\ pc' = pc
        <5>1. pc' = pc
          BY <3>7 DEF KeyExpires
        <5>. QED
          BY <4>1, <4>3, <5>1
      <4>. QED
        BY <3>2, <4>4
    <3>8. CASE Cancel \/ UNCHANGED vars
      BY <3>2, <3>8 DEF Cancel, vars, Members, Entry
    <3>9. ASSUME NEW c \in late, DoneLate(c)
          PROVE  FALSE
      BY <3>1 DEF ServerInv
    <3>10. ASSUME NEW o \in Ops, Errs(o)
           PROVE  FALSE
      BY <2>3, <3>10 DEF Errs
    <3>. QED
      BY <3>4, <3>5, <3>6, <3>7, <3>8, <3>9, <3>10 DEF Next
  <2>. QED
    BY <2>2, <2>3
<1>. QED
  BY <1>1, <1>2, Invariant, PTL DEF Spec

-----------------------------------------------------------------------------
(* Lifetimes.                                                              *)

\* Operation o is about to give key k a lifetime, or was hurt and may never.
Pending(k, o) ==
  \/ k \in target[o] /\ (o \in hurt \/ pc[o] \in {"write", "expire"})
  \/ k = UnionKey /\ (o \in hurt \/ pc[o] \in {"union", "trim union", "expire union"})

LEMMA ExecutesOnLifetime ==
  ASSUME ServerInv, settings.expires, NothingImmortal, NEW c, Executes(c),
         NEW k \in DOMAIN db', ~db'[k].expires
  PROVE  /\ \E o \in Ops : Pending(k, o)
         /\ c.name \in {"EXPIRE", "SET"} => k \notin c.keys
<1>1. LifetimesChange(c)
  BY ServerFacts, DoneChangesLifetimes DEF Executes
<1>2. CASE k \in DOMAIN db /\ ~db[k].expires /\ (c.name \in {"EXPIRE", "SET"} => k \notin c.keys)
  BY <1>2 DEF NothingImmortal, Pending
<1>3. CASE c.name \in {"MSET", "HSET", "ZADD", "ZUNIONSTORE"} /\ k \in c.keys
  <2>1. ASSUME NEW o \in Ops, AtWork(o), c = Command(o)
        PROVE  Pending(k, o)
    <3>1. pc[o] \in {"write", "expire", "read", "trim", "union", "trim union", "expire union"}
      BY <2>1 DEF AtWork, ServerInv, TypeOK
    <3>2. CASE pc[o] = "write"
      <4>1. c.keys = target[o]
        BY <2>1, <3>2, CommandFacts
      <4>. QED
        BY <1>3, <3>2, <4>1 DEF Pending
    <3>3. CASE pc[o] = "union"
      <4>1. c.keys = {UnionKey}
        BY <2>1, <3>3, CommandFacts
      <4>. QED
        BY <1>3, <3>3, <4>1 DEF Pending
    <3>4. CASE pc[o] \in {"expire", "read", "trim", "trim union", "expire union"}
      <4>1. c.name \in {"EXPIRE", "READ", "ZREMRANGEBYRANK"}
        BY <2>1, <3>4, CommandFacts
      <4>. QED
        BY <1>3, <4>1
    <3>. QED
      BY <3>1, <3>2, <3>3, <3>4
  <2>2. ASSUME NEW o \in hurt, CommandOf(c, o)
        PROVE  o \in Ops /\ Pending(k, o)
    BY <1>3, <2>2 DEF Pending, CommandOf, Writing, ServerInv, TypeOK
  <2>. QED
    BY <1>3, <2>1, <2>2 DEF Executes
<1>. QED
  BY <1>1, <1>2, <1>3 DEF LifetimesChange

\* If keys are to expire, every key does, or is about to be given a lifetime, or
\* was left without one by an operation that was hurt.
THEOREM KeysAreMortal == Spec => []NothingImmortal
<1>1. Init => NothingImmortal
  BY DEF Init, NothingImmortal
<1>2. ServerInv /\ NothingImmortal /\ [Next]_vars => NothingImmortal'
  <2> SUFFICES ASSUME ServerInv, NothingImmortal, [Next]_vars, settings'.expires,
                      NEW k \in DOMAIN db', ~db'[k].expires
               PROVE  \E o \in Ops : Pending(k, o)'
    BY DEF NothingImmortal, Pending
  <2>1. settings' = settings
    BY DEF Next, vars, Begin, Succeeds, Resent, Errs, DoneLate, KeyExpires, Cancel
  <2>2. ASSUME k \in DOMAIN db, ~db[k].expires
        PROVE  \E o \in Ops : Pending(k, o)
    BY <2>1, <2>2 DEF NothingImmortal, Pending
  <2>3. ASSUME NEW o \in Ops, Begin(o)
        PROVE  \E p \in Ops : Pending(k, p)'
    <3>1. db' = db /\ hurt' = hurt
      BY <2>3 DEF Begin
    <3>2. PICK p \in Ops : Pending(k, p)
      BY <2>2, <3>1
    <3>3. p # o
      BY <2>3, <3>2 DEF Begin, Pending, ServerInv
    <3>4. pc'[p] = pc[p] /\ target'[p] = target[p]
      BY <2>3, <3>3 DEF Begin, ServerInv, TypeOK
    <3>. QED
      BY <3>1, <3>2, <3>4 DEF Pending
  <2>4. ASSUME NEW o \in Ops, Succeeds(o)
        PROVE  \E p \in Ops : Pending(k, p)'
    <3>1. AtWork(o) /\ Executes(Command(o)) /\ Goes(o, TRUE) /\ ~cancelled
          /\ UNCHANGED <<target, hurt>>
      BY <2>4, CommandFacts DEF Succeeds, Executes
    <3>2. PICK p \in Ops : Pending(k, p)
      BY <2>1, <3>1, ExecutesOnLifetime
    <3>3. Command(o).name \in {"EXPIRE", "SET"} => k \notin Command(o).keys
      BY <2>1, <3>1, ExecutesOnLifetime
    <3>4. CASE p # o \/ p \in hurt
      BY <3>1, <3>2, <3>4, GoesFacts DEF Pending
    <3>5. CASE p = o /\ p \notin hurt
      <4>1. CASE k \in target[o] /\ pc[o] = "write"
        <5>1. settings.workload # "setget"
          BY <3>1, <3>3, <4>1, CommandFacts DEF Writing
        <5>. QED
          BY <2>1, <3>1, <4>1, <5>1, GoesFacts DEF Pending
      <4>2. CASE k \in target[o] /\ pc[o] = "expire"
        BY <3>1, <3>3, <4>2, CommandFacts
      <4>3. CASE k = UnionKey /\ pc[o] \in {"union", "trim union"}
        BY <2>1, <3>1, <4>3, GoesFacts DEF Pending
      <4>4. CASE k = UnionKey /\ pc[o] = "expire union"
        BY <3>1, <3>3, <4>4, CommandFacts
      <4>. QED
        BY <3>2, <3>5, <4>1, <4>2, <4>3, <4>4 DEF Pending
    <3>. QED
      BY <3>4, <3>5
  <2>5. ASSUME NEW o \in Ops, Resent(o)
        PROVE  \E p \in Ops : Pending(k, p)'
    <3>1. Executes(Command(o)) /\ UNCHANGED <<pc, target, hurt>>
      BY <2>5, CommandFacts DEF Resent, Executes
    <3>. QED
      BY <2>1, <3>1, ExecutesOnLifetime DEF Pending
  <2>6. ASSUME NEW o \in Ops, Errs(o)
        PROVE  \E p \in Ops : Pending(k, p)'
    <3>1. AtWork(o) /\ Goes(o, FALSE) /\ target' = target /\ hurt' = hurt \cup {o}
      BY <2>6 DEF Errs
    <3>2. PICK p \in Ops : Pending(k, p)
      BY <2>1, <2>2, <2>6, ErrsExecutes, ExecutesOnLifetime
    <3>. QED
      BY <3>1, <3>2, GoesFacts DEF Pending
  <2>7. ASSUME NEW c \in late, DoneLate(c)
        PROVE  \E p \in Ops : Pending(k, p)'
    <3>1. \E o \in hurt : CommandOf(c, o) /\ o \in Ops
      BY DEF ServerInv, TypeOK
    <3>2. Executes(c) /\ UNCHANGED <<pc, target, hurt>>
      BY <2>7, <3>1, CommandsAreSound DEF DoneLate, Executes
    <3>. QED
      BY <2>1, <3>2, ExecutesOnLifetime DEF Pending
  <2>8. ASSUME NEW j \in DOMAIN db, KeyExpires(j)
        PROVE  \E p \in Ops : Pending(k, p)'
    BY <2>2, <2>8 DEF KeyExpires, Pending
  <2>9. CASE Cancel \/ UNCHANGED vars
    BY <2>2, <2>9 DEF Cancel, vars, Pending
  <2>. QED
    BY <2>3, <2>4, <2>5, <2>6, <2>7, <2>8, <2>9 DEF Next
<1>. QED
  BY <1>1, <1>2, Invariant, PTL DEF Spec

-----------------------------------------------------------------------------
(* Numbers and their names.  The quotients of a number are a recursive     *)
(* function: that there is one, and what it does, goes by induction, over  *)
(* sets of numbers, from the fact that < is well-founded.                  *)

\* A set of numbers that is not empty has a least element.
LEMMA LeastElement ==
  ASSUME NEW T, T \subseteq Nat, T # {}
  PROVE  \E n \in T : \A m \in T : n <= m
<1>1. PICK x \in T : \A y \in T : ~ (<<y, x>> \in OpToRel(<, Nat))
  BY WFMin, NatLessThanWellFounded
<1>2. \A y \in T : ~ (y < x)
  BY <1>1 DEF OpToRel
<1>. QED
  BY <1>2

\* Induction, over the set of the numbers that have what is to be shown.
LEMMA SetInduction ==
  ASSUME NEW T, 0 \in T, \A n \in Nat : n \in T => n + 1 \in T
  PROVE  Nat \subseteq T
<1> SUFFICES ASSUME Nat \ T # {}
             PROVE  FALSE
  OBVIOUS
<1>1. PICK n \in Nat \ T : \A m \in Nat \ T : n <= m
  BY LeastElement
<1>2. n # 0 /\ n - 1 \in Nat /\ n - 1 \in T
  BY <1>1
<1>. QED
  BY <1>1, <1>2

\* Division with remainder by the base.
LEMMA Quotient ==
  ASSUME NEW m \in Nat
  PROVE  /\ m \div Base \in Nat /\ m % Base \in Digits
         /\ m = Base * (m \div Base) + (m % Base)
         /\ m # 0 => m \div Base < m
BY KeysAssumption DEF Digits

\* What a function does when it is applied again and again is a function.
Iterates(S) ==
  \A op \in [S -> S], x \in S :
    \E f \in [Nat -> S] : f[0] = x /\ \A k \in Nat : f[k + 1] = op[f[k]]

\* It is the union of its finite prefixes, which exist by induction.
LEMMA IterationExists ==
  ASSUME NEW S
  PROVE  Iterates(S)
<1> SUFFICES ASSUME NEW op \in [S -> S], NEW x \in S
             PROVE  \E f \in [Nat -> S] : f[0] = x /\ \A k \in Nat : f[k + 1] = op[f[k]]
  BY DEF Iterates
<1> DEFINE Prefix(g, k) == g[0] = x /\ \A i \in 0..(k - 1) : g[i + 1] = op[g[i]]
           prefix(k) == CHOOSE g \in [0..k -> S] : Prefix(g, k)
           f == [k \in Nat |-> prefix(k)[k]]
<1>1. \A k \in Nat : \E g \in [0..k -> S] : Prefix(g, k)
  <2> DEFINE T == {k \in Nat : \E g \in [0..k -> S] : Prefix(g, k)}
  <2>1. 0 \in T
    <3>1. [i \in 0..0 |-> x] \in [0..0 -> S] /\ Prefix([i \in 0..0 |-> x], 0)
      OBVIOUS
    <3>. QED
      BY <3>1
  <2>2. ASSUME NEW k \in Nat, k \in T
        PROVE  k + 1 \in T
    <3>1. PICK g \in [0..k -> S] : Prefix(g, k)
      BY <2>2
    <3> DEFINE h == [i \in 0..(k + 1) |-> IF i <= k THEN g[i] ELSE op[g[k]]]
    <3>2. h \in [0..(k + 1) -> S]
      OBVIOUS
    <3>3. Prefix(h, k + 1)
      <4>1. h[0] = x
        BY <3>1
      <4>2. ASSUME NEW i \in 0..k
            PROVE  h[i + 1] = op[h[i]]
        BY <3>1
      <4>3. \A i \in 0..((k + 1) - 1) : i \in 0..k
        OBVIOUS
      <4>. QED
        BY <4>1, <4>2, <4>3
    <3>. QED
      BY <3>2, <3>3
  <2> HIDE DEF T
  <2>3. Nat \subseteq T
    BY <2>1, <2>2, SetInduction
  <2>. QED
    BY <2>3 DEF T
<1>2. \A k \in Nat : prefix(k) \in [0..k -> S] /\ Prefix(prefix(k), k)
  BY <1>1
<1> HIDE DEF prefix
<1>3. ASSUME NEW k \in Nat
      PROVE  prefix(k)[k] = prefix(k + 1)[k]
  <2> DEFINE T == {i \in Nat : i <= k => prefix(k)[i] = prefix(k + 1)[i]}
  <2>1. 0 \in T
    BY <1>2
  <2>2. ASSUME NEW i \in Nat, i \in T
        PROVE  i + 1 \in T
    BY <1>2, <2>2
  <2> HIDE DEF T
  <2>3. k \in T
    BY <2>1, <2>2, SetInduction
  <2>. QED
    BY <2>3 DEF T
<1>4. f \in [Nat -> S] /\ f[0] = x
  BY <1>2
<1>5. ASSUME NEW k \in Nat
      PROVE  f[k + 1] = op[f[k]]
  <2>1. prefix(k + 1)[k + 1] = op[prefix(k + 1)[k]]
    BY <1>2
  <2>2. prefix(k + 1)[k] = prefix(k)[k]
    BY <1>3
  <2>. QED
    BY <2>1, <2>2
<1>. QED
  BY <1>4, <1>5

\* The quotients are what their recursive definition says.
LEMMA QuotientsOf ==
  ASSUME NEW n \in Nat
  PROVE  /\ Quotients(n) \in [Nat -> Nat]
         /\ Quotients(n)[0] = n
         /\ \A k \in Nat : Quotients(n)[k + 1] = Quotients(n)[k] \div Base
<1> DEFINE op == [m \in Nat |-> m \div Base]
           Defines(q) == q = [k \in Nat |-> IF k = 0 THEN n ELSE q[k - 1] \div Base]
<1>1. op \in [Nat -> Nat]
  BY KeysAssumption
<1>2. PICK f \in [Nat -> Nat] : f[0] = n /\ \A k \in Nat : f[k + 1] = op[f[k]]
  <2> HIDE DEF op
  <2>1. Iterates(Nat)
    BY IterationExists
  <2>. QED
    BY <1>1, <2>1 DEF Iterates
<1>3. Defines(f)
  <2>1. ASSUME NEW k \in Nat
        PROVE  f[k] = IF k = 0 THEN n ELSE f[k - 1] \div Base
    <3>1. CASE k # 0
      <4>1. k - 1 \in Nat /\ k = (k - 1) + 1
        BY <3>1
      <4>. QED
        BY <1>2, <3>1, <4>1
    <3>. QED
      BY <1>2, <3>1
  <2>. QED
    BY <2>1
<1>4. Quotients(n) = CHOOSE q : Defines(q)
  BY DEF Quotients
<1>5. Defines(Quotients(n))
  BY <1>3, <1>4
<1> DEFINE q == Quotients(n)
<1>6. q[0] = n /\ \A k \in Nat : q[k + 1] = q[k] \div Base
  <2> HIDE DEF q
  <2>1. q = [k \in Nat |-> IF k = 0 THEN n ELSE q[k - 1] \div Base]
    BY <1>5 DEF q
  <2>2. q[0] = n
    BY <2>1
  <2>3. ASSUME NEW k \in Nat
        PROVE  q[k + 1] = q[k] \div Base
    <3>1. k + 1 \in Nat /\ k + 1 # 0 /\ (k + 1) - 1 = k
      OBVIOUS
    <3>2. q[k + 1] = q[(k + 1) - 1] \div Base
      BY <2>1, <3>1, Zenon
    <3>. QED
      BY <3>1, <3>2
  <2>. QED
    BY <2>2, <2>3
<1>7. q \in [Nat -> Nat]
  <2> DEFINE T == {k \in Nat : q[k] \in Nat}
  <2>1. 0 \in T
    BY <1>6
  <2>2. ASSUME NEW k \in Nat, k \in T
        PROVE  k + 1 \in T
    BY <1>6, <2>2, Quotient
  <2> HIDE DEF T
  <2>3. Nat \subseteq T
    BY <2>1, <2>2, SetInduction
  <2>4. DOMAIN q = Nat /\ q = [k \in Nat |-> q[k]]
    BY <1>5
  <2>. QED
    BY <2>3, <2>4 DEF T
<1>. QED
  BY <1>6, <1>7

\* Larger numbers have larger quotients, and every quotient of a number that is
\* not 0 yet is below the one before: at most n + 1 divisions come to 0.
LEMMA QuotientsGrow ==
  ASSUME NEW m \in Nat, NEW n \in Nat, m <= n, NEW w \in Nat
  PROVE  Quotients(m)[w] <= Quotients(n)[w]
<1> DEFINE T == {k \in Nat : Quotients(m)[k] <= Quotients(n)[k]}
<1>1. 0 \in T
  BY QuotientsOf
<1>2. ASSUME NEW k \in Nat, k \in T
      PROVE  k + 1 \in T
  <2>1. Quotients(m)[k] \in Nat /\ Quotients(n)[k] \in Nat /\ Quotients(m)[k] <= Quotients(n)[k]
    BY <1>2, QuotientsOf
  <2>2. Quotients(m)[k] \div Base <= Quotients(n)[k] \div Base
    BY <2>1, KeysAssumption
  <2>. QED
    BY <2>2, QuotientsOf
<1> HIDE DEF T
<1>3. w \in T
  BY <1>1, <1>2, SetInduction
<1>. QED
  BY <1>3 DEF T

\* Quotients become smaller until they are 0.
LEMMA QuotientsEnd ==
  ASSUME NEW n \in Nat
  PROVE  Quotients(n)[n + 1] = 0
<1> DEFINE q == Quotients(n)
           T == {k \in Nat : q[k] = 0 \/ q[k] + k <= n}
<1>1. q \in [Nat -> Nat] /\ q[0] = n /\ \A k \in Nat : q[k + 1] = q[k] \div Base
  BY QuotientsOf
<1> HIDE DEF q
<1>2. 0 \in T
  BY <1>1
<1>3. ASSUME NEW k \in Nat, k \in T
      PROVE  k + 1 \in T
  <2>1. q[k] \in Nat /\ q[k + 1] \in Nat /\ q[k + 1] = q[k] \div Base
    BY <1>1
  <2>2. q[k] = 0 => q[k + 1] = 0
    BY <2>1, KeysAssumption
  <2>3. q[k] # 0 => q[k + 1] < q[k]
    BY <2>1, Quotient
  <2>. QED
    BY <1>3, <2>1, <2>2, <2>3
<1> HIDE DEF T
<1>4. n + 1 \in T
  BY <1>2, <1>3, SetInduction
<1>. QED
  BY <1>1, <1>4 DEF T, q

\* The width is one that there is, and every number up to n fits into it.
LEMMA WidthSuffices ==
  ASSUME NEW n \in Nat, NEW m \in 0..n
  PROVE  /\ Base36WidthForMax(n) \in Nat \ {0}
         /\ Quotients(m)[Base36WidthForMax(n)] = 0
<1> DEFINE T == {w \in 1..(n + 1) : Quotients(n)[w] = 0}
           IsWidth(w) == Quotients(n)[w] = 0 /\ \A v \in 1..(w - 1) : Quotients(n)[v] # 0
<1>1. n + 1 \in T
  BY QuotientsEnd
<1>2. PICK w \in T : \A v \in T : w <= v
  <2> HIDE DEF T
  <2>1. T \subseteq Nat
    BY DEF T
  <2>. QED
    BY <1>1, <2>1, LeastElement
<1>3. w \in 1..(n + 1) /\ IsWidth(w)
  BY <1>2
<1>4. Base36WidthForMax(n) \in 1..(n + 1) /\ IsWidth(Base36WidthForMax(n))
  <2> HIDE DEF IsWidth
  <2>1. Base36WidthForMax(n) = CHOOSE u \in 1..(n + 1) : IsWidth(u)
    BY DEF Base36WidthForMax, IsWidth
  <2>. QED
    BY <1>3, <2>1
<1>5. Quotients(m)[Base36WidthForMax(n)] \in Nat
  BY <1>4, QuotientsOf
<1>. QED
  BY <1>4, <1>5, QuotientsGrow

\* Two numbers that fit into the width and have the same digits are the same.
LEMMA PaddedIsInjective ==
  ASSUME NEW m \in Nat, NEW n \in Nat, NEW w \in Nat \ {0},
         Quotients(m)[w] = 0, Quotients(n)[w] = 0,
         Base36Padded(m, w) = Base36Padded(n, w)
  PROVE  m = n
<1> DEFINE p == Quotients(m)
           q == Quotients(n)
           T == {i \in Nat : i <= w => p[w - i] = q[w - i]}
<1>1. /\ p \in [Nat -> Nat] /\ p[0] = m /\ \A k \in Nat : p[k + 1] = p[k] \div Base
      /\ q \in [Nat -> Nat] /\ q[0] = n /\ \A k \in Nat : q[k + 1] = q[k] \div Base
  BY QuotientsOf
<1>2. \A k \in 1..w : p[w - k] % Base = q[w - k] % Base
  <2>1. /\ Base36Padded(m, w) = [k \in 1..w |-> p[w - k] % Base]
        /\ Base36Padded(n, w) = [k \in 1..w |-> q[w - k] % Base]
    BY DEF Base36Padded
  <2> HIDE DEF p, q
  <2>. QED
    BY <2>1
<1>3. p[w] = 0 /\ q[w] = 0
  OBVIOUS
<1> HIDE DEF p, q
<1>4. 0 \in T
  BY <1>3
<1>5. ASSUME NEW i \in Nat, i \in T
      PROVE  i + 1 \in T
  <2> SUFFICES ASSUME i + 1 <= w
               PROVE  p[w - (i + 1)] = q[w - (i + 1)]
    OBVIOUS
  <2> DEFINE k == w - (i + 1)
  <2>1. k \in Nat /\ k + 1 = w - i /\ w - k \in 1..w /\ w - (w - k) = k
    OBVIOUS
  <2>2. p[k + 1] = q[k + 1]
    BY <1>5, <2>1
  <2>3. p[k] % Base = q[k] % Base
    BY <1>2, <2>1
  <2> HIDE DEF k
  <2>4. p[k] \div Base = q[k] \div Base
    BY <1>1, <2>1, <2>2
  <2>5. p[k] = q[k]
    BY <1>1, <2>1, <2>3, <2>4, Quotient
  <2>. QED
    BY <2>5 DEF k
<1> HIDE DEF T
<1>6. w \in T
  BY <1>4, <1>5, SetInduction
<1>7. p[w - w] = q[w - w]
  BY <1>6 DEF T
<1>. QED
  BY <1>1, <1>7

\* So numbers below a bound that are padded to its width remain as many.
LEMMA PaddedNumbersDiffer ==
  ASSUME NEW b \in Nat \ {0}, NEW i \in 0..(b - 1), NEW j \in 0..(b - 1),
         Base36Padded(i, Base36WidthForMax(b - 1)) = Base36Padded(j, Base36WidthForMax(b - 1))
  PROVE  i = j
<1>1. b - 1 \in Nat
  OBVIOUS
<1>. QED
  BY <1>1, WidthSuffices, PaddedIsInjective

\* The image of a number of things under a function that keeps them apart.
LEMMA ImageCount ==
  ASSUME NEW b \in Nat, NEW a \in Int, NEW f, DOMAIN f = a..(a + b - 1),
         \A i, j \in DOMAIN f : f[i] = f[j] => i = j
  PROVE  Cardinality({f[i] : i \in DOMAIN f}) = b
<1> DEFINE S == a..(a + b - 1)
           T == {f[i] : i \in DOMAIN f}
           g == [i \in S |-> f[i]]
<1>1. IsFiniteSet(S) /\ Cardinality(S) = b
  BY FS_Interval
<1>2. g \in Surjection(S, T)
  BY DEF Surjection
<1>3. g \in Injection(S, T)
  BY DEF Injection, IsInjective
<1>. QED
  BY <1>1, <1>2, <1>3, FS_Surjection

\* What follows a common first element.
LEMMA SameTail ==
  ASSUME NEW S, NEW s \in Seq(S), NEW t \in Seq(S), NEW x, <<x>> \o s = <<x>> \o t
  PROVE  s = t
<1>1. Len(s) = Len(t)
  OBVIOUS
<1>2. ASSUME NEW i \in 1..Len(s)
      PROVE  s[i] = t[i]
  <2>1. (<<x>> \o s)[i + 1] = s[i] /\ (<<x>> \o t)[i + 1] = t[i]
    BY <1>1
  <2>. QED
    BY <2>1
<1>. QED
  BY <1>1, <1>2

\* The fields of a hash are numbered.
LEMMA FieldsCount == Cardinality(Fields) = BatchSize
<1> DEFINE f == [i \in 0..(0 + BatchSize - 1) |-> Base36Padded(i, Base36WidthForMax(BatchSize - 1))]
<1>1. \A i, j \in DOMAIN f : f[i] = f[j] => i = j
  BY KeysAssumption, PaddedNumbersDiffer
<1>2. Fields = {f[i] : i \in DOMAIN f}
  BY KeysAssumption DEF Fields
<1>3. DOMAIN f = 0..(0 + BatchSize - 1)
  OBVIOUS
<1> HIDE DEF f
<1>. QED
  BY <1>1, <1>2, <1>3, ImageCount, KeysAssumption

\* The keys of a tagged MSET share their body and end in their numbers.
LEMMA TaggedKeysCount ==
  ASSUME NEW body
  PROVE  Cardinality(KeySet(TaggedKeys(body))) = BatchSize
<1> DEFINE w == Base36WidthForMax(BatchSize - 1)
<1>1. w \in Nat \ {0}
  BY KeysAssumption, WidthSuffices
<1> HIDE DEF w
<1>2. ASSUME NEW i \in Nat
      PROVE  Base36Padded(i, w) \in Seq(Digits)
  <2>1. \A k \in 1..w : Quotients(i)[w - k] \in Nat
    BY <1>1, QuotientsOf
  <2>2. Base36Padded(i, w) \in [1..w -> Digits]
    BY <2>1, Quotient DEF Base36Padded
  <2>. QED
    BY <1>1, <2>2
<1>3. DOMAIN TaggedKeys(body) = 1..(1 + BatchSize - 1)
  BY KeysAssumption DEF TaggedKeys
<1>4. ASSUME NEW i \in 1..BatchSize, NEW j \in 1..BatchSize,
             TaggedKeys(body)[i] = TaggedKeys(body)[j]
      PROVE  i = j
  <2>1. <<body>> \o Base36Padded(i - 1, w) = <<body>> \o Base36Padded(j - 1, w)
    BY <1>4 DEF TaggedKeys, ComposeTaggedKeyWithCounter, w
  <2>2. i - 1 \in 0..(BatchSize - 1) /\ j - 1 \in 0..(BatchSize - 1)
    BY KeysAssumption
  <2>3. Base36Padded(i - 1, w) = Base36Padded(j - 1, w)
    <3>1. Base36Padded(i - 1, w) \in Seq(Digits) /\ Base36Padded(j - 1, w) \in Seq(Digits)
      BY <1>2, <2>2
    <3>. QED
      BY <2>1, <3>1, SameTail, Zenon
  <2>4. i - 1 = j - 1
    BY <2>2, <2>3, PaddedNumbersDiffer, KeysAssumption DEF w
  <2>. QED
    BY <2>4
<1>. QED
  BY <1>3, <1>4, ImageCount, KeysAssumption DEF KeySet

\* Boards are as many as there should be.
LEMMA BoardsCount == Cardinality(BoardKeys) = PerTag
<1> DEFINE f == [i \in 0..(0 + PerTag - 1) |-> BoardKey(i)]
<1>1. \A i, j \in DOMAIN f : f[i] = f[j] => i = j
  BY BoardsAssumption, PaddedNumbersDiffer DEF BoardKey
<1>2. BoardKeys = {f[i] : i \in DOMAIN f}
  BY BoardsAssumption DEF BoardKeys
<1>3. DOMAIN f = 0..(0 + PerTag - 1)
  OBVIOUS
<1> HIDE DEF f
<1>. QED
  BY <1>1, <1>2, <1>3, ImageCount, BoardsAssumption

\* The keys of a tagged MSET, the fields of a hash and the boards of the tag are
\* as many as configured, for every batch size and alphabet.
THEOREM BatchesAreFull == Spec => []FullBatches
<1>1. Init => FullBatches
  BY BoardsCount DEF Init, FullBatches
<1>2. ServerInv /\ FullBatches /\ [Next]_vars => FullBatches'
  <2> SUFFICES ASSUME ServerInv, FullBatches, [Next]_vars, NEW o \in Ops, pc'[o] # "idle"
               PROVE  /\ settings'.workload = "msetmget" /\ settings'.tagged =>
                           Cardinality(target'[o]) = BatchSize
                      /\ settings'.workload = "hsethmget" => Cardinality(batch'[o]) = BatchSize
    BY BoardsCount DEF FullBatches
  <2>1. settings' = settings
    BY DEF Next, vars, Begin, Succeeds, Resent, Errs, DoneLate, KeyExpires, Cancel
  <2>2. CASE pc[o] # "idle" /\ target'[o] = target[o] /\ batch'[o] = batch[o]
    BY <2>1, <2>2 DEF FullBatches
  <2>3. CASE Begin(o)
    <3>1. DOMAIN target = Ops /\ DOMAIN batch = Ops
      BY DEF ServerInv, TypeOK
    <3>2. ASSUME settings.workload = "msetmget", settings.tagged
          PROVE  Cardinality(target'[o]) = BatchSize
      <4>1. PICK ks \in MSetKeys(TRUE) : target' = [target EXCEPT ![o] = ks]
        BY <2>3, <3>2 DEF Begin
      <4>2. PICK b \in Bodies : ks = KeySet(TaggedKeys(b))
        BY DEF MSetKeys
      <4>. QED
        BY <3>1, <4>1, <4>2, TaggedKeysCount
    <3>3. ASSUME settings.workload = "hsethmget"
          PROVE  Cardinality(batch'[o]) = BatchSize
      <4>1. batch' = [batch EXCEPT ![o] = Fields]
        BY <2>3, <3>3 DEF Begin
      <4>. QED
        BY <3>1, <4>1, FieldsCount
    <3>. QED
      BY <2>1, <3>2, <3>3
  <2>4. ASSUME NEW p \in Ops, Begin(p), p # o
        PROVE  pc[o] # "idle" /\ target'[o] = target[o] /\ batch'[o] = batch[o]
    BY <2>4 DEF Begin, ServerInv, TypeOK
  <2>5. ASSUME NEW p \in Ops, Succeeds(p) \/ Resent(p) \/ Errs(p)
        PROVE  pc[o] # "idle" /\ target'[o] = target[o] /\ batch'[o] = batch[o]
    <3>1. UNCHANGED <<target, batch>> /\ AtWork(p)
      BY <2>5 DEF Succeeds, Resent, Errs
    <3>2. pc'[o] = pc[o] \/ p = o
      BY <2>5, <3>1, GoesFacts DEF Succeeds, Resent, Errs
    <3>. QED
      BY <3>1, <3>2 DEF AtWork
  <2>6. CASE \/ \E c \in late : DoneLate(c)
             \/ \E k \in DOMAIN db : KeyExpires(k)
             \/ Cancel \/ UNCHANGED vars
    BY <2>2, <2>6 DEF DoneLate, KeyExpires, Cancel, vars
  <2>. QED
    BY <2>2, <2>3, <2>4, <2>5, <2>6 DEF Next
<1>. QED
  BY <1>1, <1>2, Invariant, PTL DEF Spec
=============================================================================
