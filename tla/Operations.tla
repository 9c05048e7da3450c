------------------------------ MODULE Operations ------------------------------
(***************************************************************************)
(* The operations of a benchmark and the Redis server they share: what a   *)
(* goroutine of Runner.Run does between its second look at the context and *)
(* the release of its slot (internal/benchmark), through the functions of  *)
(* internal/redis, command by command.                                     *)
(*                                                                         *)
(* Operations run side by side and share the leaderboards, and now and     *)
(* then keys.  Every command has a timeout and may fail: nothing was done, *)
(* or all of it was and the answer is lost, or it is done later, when the  *)
(* operation has long gone on.  Keys with a lifetime vanish at any time.   *)
(*                                                                         *)
(* A sorted set is the set of its members, and a member is a number: its   *)
(* place in the order of scores.  A member that is added again keeps its   *)
(* place.  Of a string, only that it exists is kept.                       *)
(***************************************************************************)
EXTENDS Keys

CONSTANTS
  Ops,       \* bound: the operations of the behaviour
  TopK,      \* Test.ZSetTopK
  PerTag,    \* Test.ZSetPerTagLeaderboards
  FanIn,     \* Test.ZSetUnionFanIn
  Batches,   \* the batches of members an operation may add
  MaxHurt,   \* bound: the operations that may meet an error
  MaxLate    \* bound: the commands that may be late at a time

ASSUME BoardsAssumption ==
  /\ TopK \in Nat \ {0} /\ PerTag \in Nat \ {0} /\ FanIn \in Nat
  /\ MaxHurt \in Nat /\ MaxLate \in Nat
  /\ \A b \in Batches : /\ b \subseteq Nat /\ IsFiniteSet(b)
                        /\ Cardinality(b) = BatchSize

VARIABLES
  settings,  \* workload, SameSlotPerClient, and whether Redis.Expiration > 0
  cancelled, \* is the context of the run cancelled?
  db,        \* the keys that exist, with their members and whether they expire
  pc,        \* operation -> the command it is at
  target,    \* operation -> the keys it writes
  batch,     \* operation -> the members, or fields, it writes
  late,      \* commands whose operation has given them up, still to be done
  hurt       \* operations that a failure or the cancellation has hit

vars == <<settings, cancelled, db, pc, target, batch, late, hurt>>

Workloads == {"setget", "msetmget", "hsethmget", "zset"}
Settings == [workload : Workloads, tagged : BOOLEAN, expires : BOOLEAN]

\* The boards of the tag, and the key of their union.
BoardKey(i) == <<"board", Base36Padded(i, Base36WidthForMax(PerTag - 1))>>
BoardKeys == {BoardKey(i) : i \in 0..(PerTag - 1)}
UnionKey == << >>
Sources == {BoardKey(i) : i \in {j \in 0..(PerTag - 1) : j < FanIn}}

Init ==
  /\ settings \in {s \in Settings : s.tagged => s.workload \in {"msetmget", "hsethmget"}}
  /\ cancelled = FALSE
  /\ db = << >>
  /\ pc = [o \in Ops |-> "idle"]
  /\ target = [o \in Ops |-> {}]
  /\ batch = [o \in Ops |-> {}]
  /\ late = {} /\ hurt = {}

-----------------------------------------------------------------------------
(* The server.                                                             *)

\* A key that does not exist is an empty one that does not expire.
Entry(k) == IF k \in DOMAIN db THEN db[k] ELSE [members |-> {}, expires |-> FALSE]

With(keys, entry(_)) ==
  [k \in DOMAIN db \cup keys |-> IF k \in keys THEN entry(k) ELSE db[k]]

\* Bug: one rank too many is kept.
LowestAndOne(members) == {m \in members : Cardinality({n \in members : n < m}) <= TopK}

\* ZREMRANGEBYRANK key TopK -1 counts from the lowest score.
Lowest(members) == {m \in members : Cardinality({n \in members : n < m}) < TopK}

Union(keys) == UNION {Entry(k).members : k \in keys}

Done(c) ==
  CASE c.name = "SET" ->
         With(c.keys, LAMBDA k : [members |-> {}, expires |-> settings.expires])
    [] c.name = "MSET" ->
         With(c.keys, LAMBDA k : [members |-> {}, expires |-> FALSE])
    [] c.name \in {"HSET", "ZADD"} ->
         With(c.keys, LAMBDA k : [members |-> Entry(k).members \cup c.members,
                                  expires |-> Entry(k).expires])
    [] c.name = "EXPIRE" ->
         With(c.keys \cap DOMAIN db, LAMBDA k : [members |-> Entry(k).members, expires |-> TRUE])
    [] c.name = "ZREMRANGEBYRANK" ->
         With(c.keys \cap DOMAIN db, LAMBDA k : [members |-> Lowest(Entry(k).members),
                                                     expires |-> Entry(k).expires])
    [] c.name = "ZUNIONSTORE" /\ Union(Sources) # {} ->
         With(c.keys, LAMBDA k : [members |-> Union(Sources), expires |-> FALSE])
    [] c.name = "ZUNIONSTORE" /\ Union(Sources) = {} ->
         [k \in DOMAIN db \ c.keys |-> db[k]]
    [] OTHER -> db

-----------------------------------------------------------------------------
(* The operations.                                                         *)

Writing == CASE settings.workload = "setget" -> "SET"
             [] settings.workload = "msetmget" -> "MSET"
             [] settings.workload = "hsethmget" -> "HSET"
             [] settings.workload = "zset" -> "ZADD"

\* The command that operation o is at.
Command(o) ==
  LET boards(name) == [name |-> name, keys |-> target[o], members |-> {}]
      union(name) == [name |-> name, keys |-> {UnionKey}, members |-> {}]
  IN  CASE pc[o] = "write" -> [name |-> Writing, keys |-> target[o], members |-> batch[o]]
        [] pc[o] = "expire" -> boards("EXPIRE")
        [] pc[o] = "read" -> boards("READ")
        [] pc[o] = "trim" -> boards("ZREMRANGEBYRANK")
        [] pc[o] = "union" -> union("ZUNIONSTORE")
        [] pc[o] = "trim union" -> union("ZREMRANGEBYRANK")
        [] pc[o] = "expire union" -> union("EXPIRE")

AtWork(o) == pc[o] \notin {"idle", "done"}

\* Bug: a union that is trimmed is not given a lifetime.
AfterUnionTrimUnexpired(ok) == "done"

\* An error in ZTrimToTopK ends ZUnionWithinTag before its EXPIRE.
AfterUnionTrim(ok) == IF ok /\ settings.expires THEN "expire union" ELSE "done"

\* Where operation o may be after its command.  An error ends the function of
\* internal/redis that met it, not the operation: only a cancelled context does
\* that, after the write.  A batch or a hash that was not written has no keys or
\* fields to read; a string has.  A union follows one operation in eight.
After(o, ok, next) ==
  LET reading == IF cancelled \/ (~ok /\ settings.workload \in {"msetmget", "hsethmget"})
                   THEN "done" ELSE "read"
  IN  \/ /\ pc[o] = "write"
         /\ next = IF ok /\ settings.expires /\ settings.workload # "setget"
                     THEN "expire" ELSE reading
      \/ pc[o] = "expire" /\ next = reading
      \/ pc[o] = "read" /\ next = IF settings.workload = "zset" THEN "trim" ELSE "done"
      \/ pc[o] = "trim" /\ (next = "done" \/ (Sources # {} /\ next = "union"))
      \/ pc[o] = "union" /\ next = IF ok THEN "trim union" ELSE "done"
      \/ pc[o] = "trim union" /\ next = AfterUnionTrim(ok)
      \/ pc[o] = "expire union" /\ next = "done"

Goes(o, ok) ==
  \E next \in {"expire", "read", "trim", "union", "trim union", "expire union", "done"} :
    /\ After(o, ok, next)
    /\ pc' = [pc EXCEPT ![o] = next]

\* The goroutine chooses what to write.
Begin(o) ==
  /\ pc[o] = "idle" /\ ~cancelled
  /\ pc' = [pc EXCEPT ![o] = "write"]
  /\ \/ /\ settings.workload = "setget"
        /\ \E k \in RandomStrings(KeySize) : target' = [target EXCEPT ![o] = {k}]
        /\ UNCHANGED batch
     \/ /\ settings.workload = "msetmget"
        /\ \E ks \in MSetKeys(settings.tagged) : target' = [target EXCEPT ![o] = ks]
        /\ UNCHANGED batch
     \/ /\ settings.workload = "hsethmget"
        /\ \E k \in HashKeys(settings.tagged) : target' = [target EXCEPT ![o] = {k}]
        /\ batch' = [batch EXCEPT ![o] = Fields]
     \/ /\ settings.workload = "zset"
        /\ \E k \in BoardKeys : target' = [target EXCEPT ![o] = {k}]
        /\ \E b \in Batches : batch' = [batch EXCEPT ![o] = b]
  /\ UNCHANGED <<settings, cancelled, db, late, hurt>>

\* The server answers.
Succeeds(o) ==
  /\ AtWork(o) /\ ~cancelled
  /\ db' = Done(Command(o))
  /\ Goes(o, TRUE)
  /\ UNCHANGED <<settings, cancelled, target, batch, late, hurt>>

\* The connection breaks before the answer, and the client library sends the
\* command again.
Resent(o) ==
  /\ AtWork(o) /\ ~cancelled
  /\ db' = Done(Command(o))
  /\ UNCHANGED <<settings, cancelled, pc, target, batch, late, hurt>>

\* An error: the server refuses or is away, the client is closed, the context is
\* cancelled or the time is up.  The command is not done, or done although no
\* answer came (of a pipeline, any part), or will be done.
Errs(o) ==
  /\ AtWork(o)
  /\ LET c == Command(o)
         part == IF c.name = "EXPIRE" THEN SUBSET c.keys ELSE {c.keys}
     IN  \/ UNCHANGED <<db, late>>
         \/ \E ks \in part : db' = Done([c EXCEPT !.keys = ks]) /\ UNCHANGED late
         \/ /\ Cardinality(late) < MaxLate
            /\ late' = late \cup {c}
            /\ UNCHANGED db
  /\ Goes(o, FALSE)
  /\ hurt' = hurt \cup {o}
  /\ cancelled \/ Cardinality(hurt') <= MaxHurt
  /\ UNCHANGED <<settings, cancelled, target, batch>>

\* The server comes to a command whose operation waits no more.
DoneLate(c) ==
  /\ db' = Done(c)
  /\ late' = late \ {c}
  /\ UNCHANGED <<settings, cancelled, pc, target, batch, hurt>>

KeyExpires(k) ==
  /\ db[k].expires
  /\ db' = [j \in DOMAIN db \ {k} |-> db[j]]
  /\ UNCHANGED <<settings, cancelled, pc, target, batch, late, hurt>>

\* A stop.  Every operation under way is hit.
Cancel ==
  /\ ~cancelled
  /\ cancelled' = TRUE
  /\ hurt' = hurt \cup {o \in Ops : AtWork(o)}
  /\ UNCHANGED <<settings, db, pc, target, batch, late>>

Next ==
  \/ \E o \in Ops : Begin(o) \/ Succeeds(o) \/ Resent(o) \/ Errs(o)
  \/ \E c \in late : DoneLate(c)
  \/ \E k \in DOMAIN db : KeyExpires(k)
  \/ Cancel

Spec == Init /\ [][Next]_vars

-----------------------------------------------------------------------------
(* Safety.                                                                 *)

\* Every variable keeps its type.
TypeOK ==
  /\ settings \in Settings
  /\ cancelled \in BOOLEAN
  /\ \A k \in DOMAIN db : db[k].expires \in BOOLEAN
  /\ pc \in [Ops -> {"idle", "write", "expire", "read", "trim", "union", "trim union",
                     "expire union", "done"}]
  /\ DOMAIN target = Ops /\ DOMAIN batch = Ops
  /\ hurt \subseteq Ops

\* The operations that may still have members to remove from board k.
Owing(k) == {o \in Ops : /\ k \in target[o]
                         /\ o \in hurt \/ pc[o] \in {"write", "expire", "read", "trim"}}

\* A leaderboard is as small as it should be, TopK members, but for the batches
\* of operations that have not trimmed it yet and of those that were hurt:
\* whatever the order of the commands of all of them, it does not grow with the
\* number of operations (benchmark.go:262).
BoundedBoards ==
  settings.workload = "zset" => \A k \in BoardKeys :
    Cardinality(Entry(k).members \ UNION {batch[o] : o \in Owing(k)}) <= TopK

\* The union of the boards has TopK members, but for the time between the two
\* commands of some operation.
BoundedUnion ==
  settings.workload = "zset" /\ Cardinality(Entry(UnionKey).members) > TopK =>
    \E o \in Ops : pc[o] \in {"union", "trim union"} \/ o \in hurt

\* If keys are to expire, none stays for ever: one that does not expire is about
\* to be given a lifetime by an operation that wrote it, or one that wrote it was
\* hurt.  ZUNIONSTORE and MSET take the lifetime away that another operation has
\* given, and a key may expire between the two commands.
NothingImmortal ==
  settings.expires => \A k \in DOMAIN db : ~db[k].expires =>
    \E o \in Ops :
      \/ k \in target[o] /\ (o \in hurt \/ pc[o] \in {"write", "expire"})
      \/ k = UnionKey /\ (o \in hurt \/ pc[o] \in {"union", "trim union", "expire union"})

\* A batch is as large as it is configured to be: tagged keys, fields and boards
\* do not coincide, however wide the counters are (operations.go:122, "suffix
\* sized to batchSize to guarantee uniqueness").
FullBatches ==
  /\ Cardinality(BoardKeys) = PerTag
  /\ \A o \in Ops : pc[o] # "idle" =>
       /\ settings.workload = "msetmget" /\ settings.tagged =>
            Cardinality(target[o]) = BatchSize
       /\ settings.workload = "hsethmget" => Cardinality(batch[o]) = BatchSize

\* A command that is, or was, one of operation o.
CommandOf(c, o) ==
  \/ c.name = Writing /\ c.keys = target[o] /\ c.members = batch[o]
  \/ c.name \in {"EXPIRE", "READ", "ZREMRANGEBYRANK"} /\ c.keys = target[o]
  \/ c.name \in {"EXPIRE", "ZREMRANGEBYRANK", "ZUNIONSTORE"} /\ c.keys = {UnionKey}

\* What the invariants above rest on: boards hold finitely many members, and a
\* command that is late belongs to an operation that was hurt.
ServerInv ==
  /\ TypeOK
  /\ \A k \in DOMAIN db : db[k] = [members |-> db[k].members, expires |-> db[k].expires]
  /\ \A o \in Ops : pc[o] = "idle" => target[o] = {} /\ batch[o] = {} /\ o \notin hurt
  /\ \A c \in late : \E o \in hurt : CommandOf(c, o)
  /\ settings.workload = "zset" =>
       /\ \A k \in DOMAIN db : db[k].members \subseteq Nat /\ IsFiniteSet(db[k].members)
       /\ \A o \in Ops : /\ target[o] \subseteq BoardKeys
                         /\ batch[o] \subseteq Nat /\ IsFiniteSet(batch[o])

-----------------------------------------------------------------------------
\* operations.go:271, "trims the sorted set to keep only top K": a member that is
\* trimmed away is not above one that stays.  It is: the ranks of the command are
\* those of ascending scores, and the top that ZReadTopK reads is cut off.
TrimKeepsTheTop ==
  [][\A o \in Ops : pc[o] = "trim" /\ pc'[o] # "trim" =>
       \A k \in target[o] \cap DOMAIN db \cap DOMAIN db' :
         \A m \in db[k].members \ db'[k].members, n \in db'[k].members : m < n]_vars
=============================================================================
