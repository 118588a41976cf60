-------------------------- MODULE VerdictStoreProofs --------------------------
(* For any releases, bounds and times: VerdictStore implements DurableCache, no  *)
(* write is left out, and neither cache outgrows its bound.                      *)
EXTENDS VerdictStore, FiniteSetTheorems, TLAPS

\* What every variable is.
Types ==
  /\ now \in Nat /\ generation \in Nat /\ written \in Nat /\ queued \in Nat
  /\ memory \in State /\ file \in State /\ unsaved \in SUBSET State
  /\ writer = None \/ writer \in Writer

\* The states that wait for the disk are later than the one on it, one of each version,
\* and the memory's is the last; a write has taken one of them.  Only a memory just
\* loaded may be neither: what had expired was left in the file.
Ordered ==
  /\ file.v <= memory.v
  /\ \A s \in unsaved : file.v < s.v /\ s.v <= memory.v
  /\ \A s, t \in unsaved : s.v = t.v => s = t
  /\ memory \in unsaved \cup {file} \/ generation = 0
  /\ writer # None => writer.of \in unsaved \cup {file}

\* No generation on disk or under way is later than the memory's.
Counted ==
  /\ written <= generation
  /\ writer # None => writer.generation <= generation /\ 0 < writer.generation

Inv == Types /\ Ordered /\ Counted

-----------------------------------------------------------------------------
\* A put takes up one entry, and what it leaves was there.
LEMMA PutAdds ==
  ASSUME Types, NEW k \in Key, NEW has \in Put(memory.has, k)
  PROVE  has \subseteq Entry /\ \A e, f \in has \ memory.has : e = f
<1> DEFINE new == [key |-> k, at |-> Stamp]
<1>1. new \in Entry
  BY DEF Types, State, Entry, Stamp
<1>2. PICK left \in SUBSET memory.has : has = left \cup {new}
  BY DEF Put, GivesWay, Without, Fresh, Oldest, Fitting
<1>3. memory.has \subseteq Entry
  BY DEF Types, State
<1> QED BY <1>1, <1>2, <1>3

\* The inductive invariant holds of every behaviour.
LEMMA InvInit == Init => Inv
BY DEF Init, Inv, Types, Ordered, Counted, Empty, State

LEMMA InvNext == Inv /\ [Next]_vars => Inv'
<1> SUFFICES ASSUME Inv, [Next]_vars PROVE Inv'
  OBVIOUS
<1> USE DEF Inv, Types, Ordered, Counted
<1>1. ASSUME NEW has \in SUBSET Entry, Becomes(has), file' = file
      PROVE  /\ memory' \in State /\ unsaved' \in SUBSET State
             /\ file'.v <= memory'.v /\ memory' \in unsaved'
             /\ \A s \in unsaved' : file'.v < s.v /\ s.v <= memory'.v
             /\ \A s, t \in unsaved' : s.v = t.v => s = t
             /\ unsaved \subseteq unsaved'
  BY <1>1 DEF Becomes, State
<1>2. ASSUME NEW k \in Key, Remember(k) PROVE Inv'
  <2>1. PICK has \in Put(memory.has, k) : Becomes(has)
    BY <1>2 DEF Remember
  <2>2. has \in SUBSET Entry
    BY PutAdds
  <2> QED BY <1>1, <1>2, <2>1, <2>2 DEF Remember, Writer
<1>3. ASSUME NEW k \in Key, Refuse(k) PROVE Inv'
  <2>1. Without(memory.has, k) \in SUBSET Entry
    BY DEF Without, State
  <2> QED BY <1>1, <1>3, <2>1 DEF Refuse, Writer
<1>4. ASSUME NEW k \in Key, Get(k) PROVE Inv'
  <2>1. Without(memory.has, k) \cup {[key |-> k, at |-> Stamp]} \in SUBSET Entry
    BY DEF Without, State, Entry, Stamp
  <2> QED BY <1>1, <1>4, <2>1 DEF Get, Writer
<1>5. ASSUME Take PROVE Inv'
  BY <1>5 DEF Take, Writer
<1>6. ASSUME Fail PROVE Inv'
  BY <1>6 DEF Fail
<1>7. ASSUME Write PROVE Inv'
  BY <1>7 DEF Write, Writer
<1>8. ASSUME Rename PROVE Inv'
  BY <1>8 DEF Rename, Writer, State
<1>9. ASSUME Restart PROVE Inv'
  <2>1. memory' \in State /\ memory'.v = file.v
    BY <1>9 DEF Restart, State, Fresh
  <2> QED BY <1>9, <2>1 DEF Restart, State
<1>10. ASSUME Tick PROVE Inv'
  BY <1>10 DEF Tick
<1>11. CASE UNCHANGED vars
  BY <1>11 DEF vars
<1> QED BY <1>2, <1>3, <1>4, <1>5, <1>6, <1>7, <1>8, <1>9, <1>10, <1>11 DEF Next

\* VerdictStore implements DurableCache for every set of releases, bound and time: the
\* file never goes back and holds whole what the memory has held, whatever fails and
\* wherever the process stops.
THEOREM Refinement == Spec => Implements
<1>1. Init => Durable!Init
  BY DEF Init, Durable!Init, Empty
<1>2. Inv /\ [Next]_vars => [Durable!Next]_(Durable!vars)
  <2> SUFFICES ASSUME Inv, [Next]_vars
               PROVE  Durable!Next \/ UNCHANGED Durable!vars
    OBVIOUS
  <2> USE DEF Inv, Types, Ordered, Durable!vars
  <2>1. ASSUME NEW has \in SUBSET Entry, Becomes(has), file' = file,
               \A e, f \in has \ memory.has : e = f
        PROVE  Durable!Change
    BY <2>1 DEF Durable!Change, Durable!State, Becomes, State
  <2>2. ASSUME NEW k \in Key, Remember(k) PROVE Durable!Change
    <3>1. PICK has \in Put(memory.has, k) : Becomes(has)
      BY <2>2 DEF Remember
    <3> QED BY <2>1, <2>2, <3>1, PutAdds DEF Remember
  <2>3. ASSUME NEW k \in Key, Refuse(k) PROVE Durable!Change
    BY <2>1, <2>3 DEF Refuse, Without, State
  <2>4. ASSUME NEW k \in Key, Get(k) PROVE Durable!Change
    BY <2>1, <2>4 DEF Get, Without, State, Entry, Stamp
  <2>5. ASSUME Rename PROVE Durable!Save \/ UNCHANGED Durable!vars
    <3>1. writer.of \in unsaved => Durable!Save
      BY <2>5 DEF Rename, Durable!Save
    <3>2. writer.of = file => UNCHANGED Durable!vars
      BY <2>5 DEF Rename
    <3> QED BY <2>5, <3>1, <3>2 DEF Rename
  <2>6. ASSUME Restart PROVE Durable!Restart
    BY <2>6 DEF Restart, Durable!Restart, Durable!State, State, Fresh
  <2>7. ASSUME Take \/ Write \/ Fail \/ Tick \/ UNCHANGED vars PROVE UNCHANGED Durable!vars
    BY <2>7 DEF Take, Write, Fail, Tick, vars
  <2> QED BY <2>2, <2>3, <2>4, <2>5, <2>6, <2>7 DEF Next, Durable!Next
<1> QED BY <1>1, <1>2, InvInit, InvNext, PTL DEF Spec, Implements, Durable!Spec
-----------------------------------------------------------------------------
(* No change is left out                                                      *)

Knowing(has, of) == \A e \in has : Knows(of, e.key)

\* A change that is not on disk has a write that waits, or one under way that took it;
\* and what is of the memory's generation knows what the memory knows.
Seen ==
  /\ queued = 0 /\ writer = None /\ ~spoiled => generation = written
  /\ queued = 0 /\ writer # None => writer.generation = generation
  /\ generation = written => Knowing(memory.has, file.has)
  /\ writer # None /\ writer.generation = generation => Knowing(memory.has, writer.of.has)

\* A change that is no new generation takes up nothing.
LEMMA SeenKept ==
  ASSUME Inv, Seen, NEW has, Becomes(has), UNCHANGED <<generation, written, writer, file>>,
         \A e \in has : Knows(memory.has, e.key), queued' \in Nat, queued' = queued + 1 \/ UNCHANGED <<queued, spoiled>>
  PROVE  Seen'
<1>1. \A of : Knowing(memory.has, of) => Knowing(memory'.has, of)
  BY DEF Becomes, Knowing, Knows
<1> QED BY <1>1 DEF Seen, Inv, Types

LEMMA SeenNext == Inv /\ Seen /\ [Next]_vars => Seen'
<1> SUFFICES ASSUME Inv, Seen, [Next]_vars PROVE Seen'
  OBVIOUS
<1> USE DEF Inv, Types, Counted
<1>1. ASSUME NEW k \in Key, Remember(k) PROVE Seen'
  BY <1>1 DEF Remember, Seen, Writer
<1>2. ASSUME NEW k \in Key, Refuse(k) PROVE Seen'
  <2>1. \A e \in Without(memory.has, k) : Knows(memory.has, e.key)
    BY DEF Without, Knows
  <2> QED BY <1>2, <2>1, SeenKept DEF Refuse
<1>3. ASSUME NEW k \in Key, Get(k) PROVE Seen'
  <2> DEFINE again == [key |-> k, at |-> Stamp]
  <2>1. Knows(memory.has, again.key)
    BY <1>3 DEF Get
  <2>2. \A e \in Without(memory.has, k) : Knows(memory.has, e.key)
    BY DEF Without, Knows
  <2>3. \A e \in Without(memory.has, k) \cup {again} : Knows(memory.has, e.key)
    BY <2>1, <2>2
  <2> QED BY <1>3, <2>3, SeenKept DEF Get
<1>4. ASSUME Take PROVE Seen'
  <2>1. Knowing(memory.has, memory.has)
    BY DEF Knowing, Knows
  <2>2. CASE generation <= written
    BY <1>4, <2>2 DEF Take, Seen
  <2>3. CASE ~(generation <= written)
    <3>1. writer' = [of |-> memory, generation |-> generation, at |-> "write"]
      BY <1>4, <2>3 DEF Take
    <3>2. writer' # None
      BY <3>1, NoneAssumption DEF Writer
    <3> QED BY <1>4, <2>1, <2>3, <3>1, <3>2 DEF Take, Seen
  <2> QED BY <2>2, <2>3
<1>5. ASSUME Fail PROVE Seen'
  BY <1>5 DEF Fail, Seen
<1>6. ASSUME Write PROVE Seen'
  <2>1. writer' # None /\ writer'.of = writer.of /\ writer'.generation = writer.generation
    BY <1>6, NoneAssumption DEF Write, Writer
  <2> QED BY <1>6, <2>1 DEF Write, Seen
<1>7. ASSUME Rename PROVE Seen'
  BY <1>7 DEF Rename, Seen, Writer
<1>8. ASSUME Restart PROVE Seen'
  <2>1. memory'.has \subseteq file.has
    BY <1>8 DEF Restart, Fresh, State
  <2>2. Knowing(memory'.has, file'.has)
    BY <1>8, <2>1 DEF Restart, Knowing, Knows
  <2> QED BY <1>8, <2>2 DEF Restart, Seen
<1>9. ASSUME Tick \/ UNCHANGED vars PROVE Seen'
  BY <1>9 DEF Tick, vars, Seen
<1> QED BY <1>1, <1>2, <1>3, <1>4, <1>5, <1>6, <1>7, <1>8, <1>9 DEF Next

\* Once no write waits or is under way, the disk knows every release the memory does,
\* unless the last write failed.
THEOREM NoneLeftOut == Spec => []CaughtUp
<1>1. Init => Seen
  BY DEF Init, Seen, Empty, Knowing
<1>2. Seen => CaughtUp
  BY DEF Seen, CaughtUp, Knowing
<1> QED BY <1>1, <1>2, InvInit, InvNext, SeenNext, PTL DEF Spec

-----------------------------------------------------------------------------
(* The bound                                                                  *)

OnceEach(has) == \A e, f \in has : e.key = f.key => e = f
Holds(has) == IsFiniteSet(has) /\ Cardinality(has) <= Room /\ OnceEach(has)

\* The memory, the file and whatever is on its way there hold no more than they may.
Bounds ==
  /\ Holds(memory.has) /\ Holds(file.has)
  /\ writer # None => Holds(writer.of.has)

LEMMA SmallerHolds ==
  ASSUME NEW has, Holds(has), NEW less \in SUBSET has
  PROVE  Holds(less) /\ (less # has => Cardinality(less) < Cardinality(has))
<1>1. IsFiniteSet(less) /\ Cardinality(less) <= Cardinality(has)
      /\ (Cardinality(less) = Cardinality(has) => less = has)
  BY FS_Subset DEF Holds
<1>2. Cardinality(less) \in Nat /\ Cardinality(has) \in Nat
  BY <1>1, FS_CardinalityType DEF Holds
<1> QED BY <1>1, <1>2, StoreAssumption DEF Holds, OnceEach

\* A list that does not know the release and has room for it has it after.
LEMMA OneMoreHolds ==
  ASSUME NEW has, Holds(has), Cardinality(has) < Room, NEW e, ~Knows(has, e.key)
  PROVE  Holds(has \cup {e})
<1>1. e \notin has
  BY DEF Knows
<1>2. IsFiniteSet(has \cup {e}) /\ Cardinality(has \cup {e}) = Cardinality(has) + 1
  BY <1>1, FS_AddElement DEF Holds
<1>3. Cardinality(has) \in Nat
  BY FS_CardinalityType DEF Holds
<1> QED BY <1>2, <1>3, StoreAssumption DEF Holds, OnceEach, Knows

LEMMA GivesWayHolds ==
  ASSUME NEW has, Holds(has), NEW left \in GivesWay(has)
  PROVE  Holds(left) /\ Cardinality(left) < Room /\ left \subseteq has
<1>1. Cardinality(has) \in Nat /\ Cardinality(has) <= Room /\ Room \in Nat
  BY FS_CardinalityType, StoreAssumption DEF Holds
<1>2. CASE Cardinality(has) < Room
  BY <1>2 DEF GivesWay
<1>3. CASE ~(Cardinality(has) < Room)
  <2>1. left \subseteq has /\ left # has
    BY <1>3 DEF GivesWay, Oldest
  <2>2. Holds(left) /\ Cardinality(left) < Cardinality(has)
    BY <2>1, SmallerHolds
  <2>3. Cardinality(left) \in Nat
    BY <2>2, FS_CardinalityType DEF Holds
  <2> QED BY <1>1, <2>1, <2>2, <2>3
<1> QED BY <1>2, <1>3

LEMMA PutHolds ==
  ASSUME NEW has, Holds(has), NEW k, NEW after \in Put(has, k)
  PROVE  Holds(after)
<1> DEFINE new == [key |-> k, at |-> Stamp]
<1>1. PICK left \in SUBSET has : after = left \cup {new} /\ Holds(left) /\ Cardinality(left) < Room /\ ~Knows(left, k)
  <2>1. ASSUME NEW less \in SUBSET has PROVE Holds(less)
    BY <2>1, SmallerHolds
  <2>2. CASE kind = "probe"
    <3>0. PICK more \in GivesWay(Without(has, k)) : \E left \in SUBSET more : after = left \cup {new}
      BY <2>2 DEF Put, Fitting
    <3>1. PICK left \in SUBSET more : after = left \cup {new}
      BY <3>0
    <3>2. Holds(Without(has, k)) /\ Without(has, k) \subseteq has /\ ~Knows(Without(has, k), k)
      BY <2>1 DEF Without, Knows
    <3>3. Holds(more) /\ Cardinality(more) < Room /\ more \subseteq Without(has, k)
      BY <3>1, <3>2, GivesWayHolds
    <3>4. Holds(left) /\ Cardinality(left) < Room
      <4>1. Holds(left) /\ (left # more => Cardinality(left) < Cardinality(more))
        BY <3>1, <3>3, SmallerHolds
      <4>2. Cardinality(left) \in Nat /\ Cardinality(more) \in Nat
        BY <3>3, <4>1, FS_CardinalityType DEF Holds
      <4> QED BY <3>3, <4>1, <4>2, StoreAssumption
    <3>5. left \subseteq has /\ ~Knows(left, k)
      BY <3>1, <3>2, <3>3 DEF Knows
    <3> QED BY <3>1, <3>4, <3>5
  <2>3. CASE kind # "probe" /\ Knows(has, k)
    <3>1. after = Without(has, k) \cup {new}
      BY <2>3 DEF Put
    <3>2. Without(has, k) \subseteq has /\ Without(has, k) # has /\ ~Knows(Without(has, k), k)
      BY <2>3 DEF Without, Knows
    <3>3. Holds(Without(has, k)) /\ Cardinality(Without(has, k)) < Cardinality(has)
      BY <3>2, SmallerHolds
    <3>4. Cardinality(has) <= Room /\ Cardinality(has) \in Nat /\ Cardinality(Without(has, k)) \in Nat /\ Room \in Nat
      BY <3>3, FS_CardinalityType, StoreAssumption DEF Holds
    <3> QED BY <3>1, <3>2, <3>3, <3>4
  <2>4. CASE kind # "probe" /\ ~Knows(has, k)
    <3>1. PICK left \in IF Cardinality(has) < Room THEN {has} ELSE GivesWay(Fresh(has)) : after = left \cup {new}
      BY <2>4 DEF Put
    <3>2. CASE Cardinality(has) < Room
      BY <2>4, <3>1, <3>2
    <3>3. CASE ~(Cardinality(has) < Room)
      <4>1. Holds(Fresh(has)) /\ Fresh(has) \subseteq has
        BY <2>1 DEF Fresh
      <4>2. Holds(left) /\ Cardinality(left) < Room /\ left \subseteq Fresh(has)
        BY <3>1, <3>3, <4>1, GivesWayHolds
      <4> QED BY <2>4, <3>1, <4>1, <4>2 DEF Knows
    <3> QED BY <3>2, <3>3
  <2> QED BY <2>2, <2>3, <2>4
<1>2. new.key = k
  OBVIOUS
<1> QED BY <1>1, <1>2, OneMoreHolds

LEMMA BoundsNext == Inv /\ Bounds /\ [Next]_vars => Bounds'
<1> SUFFICES ASSUME Inv, Bounds, [Next]_vars PROVE Bounds'
  OBVIOUS
<1> USE DEF Inv, Types
<1>1. ASSUME NEW k \in Key, Remember(k) PROVE Bounds'
  <2>1. Holds(memory'.has)
    BY <1>1, PutHolds DEF Remember, Becomes, Bounds
  <2> QED BY <1>1, <2>1 DEF Remember, Bounds
<1>2. ASSUME NEW k \in Key, Refuse(k) PROVE Bounds'
  <2>1. Without(memory.has, k) \subseteq memory.has
    BY DEF Without
  <2>2. Holds(memory'.has)
    BY <1>2, <2>1, SmallerHolds DEF Refuse, Becomes, Bounds
  <2> QED BY <1>2, <2>2 DEF Refuse, Bounds
<1>3. ASSUME NEW k \in Key, Get(k) PROVE Bounds'
  <2> DEFINE left == Without(memory.has, k)
  <2>1. left \subseteq memory.has /\ left # memory.has /\ ~Knows(left, k)
    BY <1>3 DEF Get, Without, Knows
  <2>2. Holds(left) /\ Cardinality(left) < Cardinality(memory.has)
    BY <2>1, SmallerHolds DEF Bounds
  <2>3. Cardinality(left) < Room
    BY <2>2, FS_CardinalityType, StoreAssumption DEF Holds, Bounds
  <2>4. Holds(left \cup {[key |-> k, at |-> Stamp]})
    <3> DEFINE e == [key |-> k, at |-> Stamp]
    <3>1. e.key = k
      OBVIOUS
    <3> QED BY <2>1, <2>2, <2>3, <3>1, OneMoreHolds
  <2> QED BY <1>3, <2>4 DEF Get, Becomes, Bounds
<1>4. ASSUME Take \/ Fail \/ Tick \/ UNCHANGED vars PROVE Bounds'
  BY <1>4 DEF Take, Fail, Tick, vars, Bounds
<1>5. ASSUME Write PROVE Bounds'
  BY <1>5 DEF Write, Bounds, Writer
<1>6. ASSUME Rename PROVE Bounds'
  BY <1>6 DEF Rename, Bounds
<1>7. ASSUME Restart PROVE Bounds'
  <2>1. memory'.has \subseteq file.has
    BY <1>7 DEF Restart, Fresh, State
  <2>2. Holds(memory'.has)
    BY <2>1, SmallerHolds DEF Bounds
  <2> QED BY <1>7, <2>2 DEF Restart, Bounds
<1> QED BY <1>1, <1>2, <1>3, <1>4, <1>5, <1>6, <1>7 DEF Next

\* Neither cache outgrows its bound nor holds a release twice, in memory or on disk.
THEOREM BoundKept == Spec => []Bounded
<1>1. Init => Bounds
  <2>1. IsFiniteSet({}) /\ Cardinality({}) = 0
    BY FS_EmptySet
  <2> QED BY <2>1, StoreAssumption DEF Init, Bounds, Holds, OnceEach, Empty
<1>2. Bounds => Bounded
  BY DEF Bounds, Bounded, Holds, OnceEach
<1> QED BY <1>1, <1>2, InvInit, InvNext, BoundsNext, PTL DEF Spec
================================================================================
