---------------------------- MODULE LifetimeProofs ----------------------------
(* For any owners, shares, sessions, cap, idle times and expiries: what Admission *)
(* promises of shares, the box and replacements; that Lifetime implements it;     *)
(* silence ends a session on time, and who held its URL is told.                  *)
EXTENDS Lifetime, FiniteSetTheorems, TLAPS

USE OwnerAssumption, ShareAssumption, MaxSessionsAssumption, GrantsAssumption, NoneAssumption
-----------------------------------------------------------------------------
(* Admission: type correctness *)

LEMMA InitType == Init => TypeOK
  BY DEF Init, TypeOK, Phases, Enders, Replacement

\* Clearing what names a session keeps the table of replacements well typed.
LEMMA ForgetType ==
  ASSUME TypeOK, NEW s \in Sid
  PROVE  Forget(s) \in [Owner -> Replacement \cup {None}]
  BY DEF TypeOK, Forget

LEMMA EndRemovedType ==
  ASSUME TypeOK, NEW s \in Sid, NEW e \in Enders, EndRemoved(s, e)
  PROVE  /\ phase' \in [Sid -> Phases]
         /\ ender' \in [Sid -> Enders]
         /\ replacements' \in [Owner -> Replacement \cup {None}]
  BY ForgetType DEF EndRemoved, TypeOK, Phases

LEMMA NextType == TypeOK /\ [Next]_vars => TypeOK'
  <1> SUFFICES ASSUME TypeOK, [Next]_vars PROVE TypeOK'
    OBVIOUS
  <1> USE DEF TypeOK
  <1>1. ASSUME NEW s \in Sid, NEW r \in Sid \cup {None}, Reserve(s, r) PROVE TypeOK'
    <2> DEFINE o == OwnerOf[s]
    <2>1. PICK E \in Oldest(o, ExcessAt(o, Allowance(o, r))) :
            /\ phase' = [x \in Sid |-> IF x = s THEN "setup"
                                       ELSE IF x \in E THEN "detached" ELSE phase[x]]
            /\ cleanups' = [cleanups EXCEPT ![s] = E]
      BY <1>1 DEF Reserve
    <2>2. E \subseteq Sid
      BY <2>1 DEF Oldest, Mine, Sessions, In
    <2>3. phase' \in [Sid -> Phases] /\ cleanups' \in [Sid -> SUBSET Sid]
      BY <2>1, <2>2 DEF Phases
    <2>4. replaces' \in [Sid -> Sid \cup {None}]
      BY <1>1 DEF Reserve
    <2>5. replacements' \in [Owner -> Replacement \cup {None}]
      BY <1>1 DEF Reserve, Keeps, Sessions, In, Replacement
    <2>6. QED
      BY <1>1, <2>3, <2>4, <2>5 DEF Reserve
  <1>2. ASSUME NEW s \in Sid, Abandon(s) PROVE TypeOK'
    BY <1>2 DEF Abandon, DropSlot, Phases
  <1>3. ASSUME NEW s \in Sid, Publish(s) PROVE TypeOK'
    <2>1. replacements' \in [Owner -> Replacement \cup {None}]
      <3>1. CASE TakesOver(s)
        BY <1>3, <3>1 DEF Publish, TakesOver, Replacement
      <3>2. CASE ~TakesOver(s)
        BY <1>3, <3>2 DEF Publish
      <3>3. QED
        BY <3>1, <3>2
    <2>2. graceTimers' \subseteq Sid
      BY <1>3 DEF Publish
    <2>3. QED
      BY <1>3, <2>1, <2>2 DEF Publish, Phases
  <1>4. ASSUME NEW s \in Sid, NEW e \in Enders, EndSession(s, e) PROVE TypeOK'
    BY <1>4, EndRemovedType DEF EndSession
  <1>5. ASSUME NEW s \in Sid, CleanupNext(s) PROVE TypeOK'
    <2>1. PICK x \in cleanups[s] : EndRemoved(x, "task")
      BY <1>5 DEF CleanupNext
    <2>2. x \in Sid /\ "task" \in Enders
      BY <2>1 DEF Enders
    <2>3. QED
      BY <1>5, <2>1, <2>2, EndRemovedType DEF CleanupNext
  <1>6. ASSUME NEW s \in Sid, Ended(s) PROVE TypeOK'
    BY <1>6 DEF Ended, Over, Phases, Enders
  <1>7. ASSUME NEW s \in Sid, CancelRequest(s) PROVE TypeOK'
    BY <1>7 DEF CancelRequest, Over, Phases, Enders
  <1>8. ASSUME NEW s \in Sid, Served(s) PROVE TypeOK'
    <2> DEFINE o == OwnerOf[s]
    <2>1. replacements[o].old \in Sid /\ o \in Owner
      BY <1>8 DEF Served, Replacing, Replacement
    <2>2. CASE phase[replacements[o].old] = "published"
      BY <1>8, <2>1, <2>2, EndRemovedType DEF Served, Enders
    <2>3. CASE phase[replacements[o].old] # "published"
      BY <1>8, <2>1, <2>3 DEF Served
    <2>4. QED
      BY <2>2, <2>3
  <1>9. ASSUME NEW s \in Sid, GraceOver(s) PROVE TypeOK'
    <2>1. CASE Replacing(s) /\ phase[s] = "published"
      BY <1>9, <2>1, EndRemovedType DEF GraceOver, Enders
    <2>2. CASE ~(Replacing(s) /\ phase[s] = "published")
      BY <1>9, <2>2 DEF GraceOver
    <2>3. QED
      BY <2>1, <2>2
  <1>10. ASSUME NEW o \in Grants, EndOwner(o) PROVE TypeOK'
    BY <1>10 DEF EndOwner, Mine, Sessions, In
  <1>11. ASSUME NEW o \in Grants, EndOwnerNext(o) PROVE TypeOK'
    <2>1. PICK x \in kills[o] :
            IF phase[x] = "published"
            THEN EndRemoved(x, "kill") /\ UNCHANGED kills
            ELSE /\ kills' = [kills EXCEPT ![o] = @ \ {x}]
                 /\ UNCHANGED <<phase, ender, replacements>>
      BY <1>11 DEF EndOwnerNext
    <2>2. x \in Sid /\ o \in Owner /\ "kill" \in Enders
      BY <2>1 DEF Enders
    <2>3. CASE phase[x] = "published"
      BY <1>11, <2>1, <2>2, <2>3, EndRemovedType DEF EndOwnerNext
    <2>4. CASE phase[x] # "published"
      BY <1>11, <2>1, <2>2, <2>4 DEF EndOwnerNext
    <2>5. QED
      BY <2>3, <2>4
  <1>12. CASE UNCHANGED vars
    BY <1>12 DEF vars
  <1>13. QED
    BY <1>1, <1>2, <1>3, <1>4, <1>5, <1>6, <1>7, <1>8, <1>9, <1>10, <1>11, <1>12
       DEF Next, Enders

\* Every variable keeps its type.
THEOREM TypeCorrect == Spec => []TypeOK
  BY InitType, NextType, PTL DEF Spec
-----------------------------------------------------------------------------
(* A replacement under way is always backed *)

LEMMA InitBacked == Init => ReplacementBacked
  BY DEF Init, ReplacementBacked

\* The two ways a replacement is backed, in the next state.
LEMMA BackedBySlot ==
  ASSUME NEW o \in Owner,
         OwnerOf[replacements'[o].old] = o,
         phase'[replacements'[o].old] \in {"published", "detached"},
         replacements'[o].new = None,
         \E s \in Pending(o)' : replaces'[s] = replacements'[o].old
  PROVE  Backed(o)'
  BY DEF Backed

\* An entry that stays is backed as long as what it names stays, and what clears it.
LEMMA StillBacked ==
  ASSUME TypeOK, NEW o \in Owner, Backed(o), replacements[o] \in Replacement,
         replacements'[o] = replacements[o],
         \A x \in Pending(o) : replacements[o].new = None /\ replaces[x] = replacements[o].old =>
           x \in Pending(o)' /\ replaces'[x] = replaces[x],
         \A x \in Sid : x \in {replacements[o].old, replacements[o].new} /\
                        phase[x] \in {"published", "detached"} =>
                          phase'[x] \in {"published", "detached"},
         replacements[o].new \in graceTimers => replacements[o].new \in graceTimers'
  PROVE  Backed(o)'
  <1>1. OwnerOf[replacements[o].old] = o /\ phase'[replacements[o].old] \in {"published", "detached"}
    BY DEF Backed, Replacement
  <1>2. CASE replacements[o].new = None /\ \E s \in Pending(o) : replaces[s] = replacements[o].old
    BY <1>1, <1>2, BackedBySlot
  <1>3. CASE ~(replacements[o].new = None /\ \E s \in Pending(o) : replaces[s] = replacements[o].old)
    <2>1. /\ replacements[o].new \in graceTimers \ {replacements[o].old}
          /\ OwnerOf[replacements[o].new] = o
          /\ phase[replacements[o].new] \in {"published", "detached"}
      BY <1>3 DEF Backed
    <2>2. replacements[o].new \in Sid
      BY <2>1 DEF TypeOK
    <2>3. phase'[replacements[o].new] \in {"published", "detached"}
      BY <2>1, <2>2
    <2>4. QED
      BY <1>1, <2>1, <2>3 DEF Backed
  <1>4. QED
    BY <1>2, <1>3

\* Ending a session leaves every replacement that does not name it backed.
LEMMA EndRemovedBacked ==
  ASSUME TypeOK, ReplacementBacked, NEW x \in Sid, NEW e \in Enders, EndRemoved(x, e),
         phase[x] \in {"published", "detached"}, UNCHANGED replaces,
         NEW T \in SUBSET {x}, graceTimers' = graceTimers \ T
  PROVE  ReplacementBacked'
  <1> SUFFICES ASSUME NEW o \in Owner, replacements'[o] # None
               PROVE  Backed(o)'
    BY DEF ReplacementBacked
  <1>1. /\ replacements'[o] = replacements[o]
        /\ ~Names(replacements[o], x)
        /\ replacements[o] # None
    BY DEF EndRemoved, Forget
  <1>2. Backed(o)
    BY <1>1 DEF ReplacementBacked
  <1>3. replacements[o] \in Replacement
    BY <1>1 DEF TypeOK
  <1>4. replacements[o].old # x /\ replacements[o].new # x
    BY <1>1 DEF Names
  <1>5. \A s \in Sid : s # x => phase'[s] = phase[s]
    BY DEF EndRemoved, TypeOK
  <1>6. ASSUME NEW s \in Pending(o) PROVE s \in Pending(o)'
    <2>1. s \in Sid /\ phase[s] = "setup" /\ OwnerOf[s] = o
      BY <1>6 DEF Pending, Creating, In
    <2>2. s # x
      BY <2>1
    <2>3. QED
      BY <2>1, <2>2, <1>5 DEF Pending, Creating, In
  <1>7. QED
    BY <1>1, <1>2, <1>3, <1>4, <1>5, <1>6, StillBacked DEF EndRemoved

\* Clearing entries, and moving sessions that are neither kept, replacing nor
\* being set up, leaves the other replacements backed.
LEMMA ClearedBacked ==
  ASSUME TypeOK, ReplacementBacked,
         \A o \in Owner : replacements'[o] \in {None, replacements[o]},
         UNCHANGED replaces,
         \A s \in Sid : phase[s] \in {"published", "detached", "setup"} => phase'[s] = phase[s],
         \A o \in Owner : replacements'[o] # None /\ replacements[o].new # None =>
           replacements[o].new \in graceTimers'
  PROVE  ReplacementBacked'
  <1> SUFFICES ASSUME NEW o \in Owner, replacements'[o] # None
               PROVE  Backed(o)'
    BY DEF ReplacementBacked
  <1>1. replacements'[o] = replacements[o] /\ Backed(o)
    BY DEF ReplacementBacked
  <1>2. replacements[o] \in Replacement
    BY <1>1 DEF TypeOK
  <1>3. Pending(o) \subseteq Pending(o)'
    BY DEF Pending, Creating, In
  <1>4. replacements[o].new \in graceTimers => replacements[o].new \in graceTimers'
    BY <1>1 DEF TypeOK
  <1>5. \A x \in Sid : phase[x] \in {"published", "detached"} =>
                         phase'[x] \in {"published", "detached"}
    OBVIOUS
  <1>6. \A x \in Pending(o) : x \in Pending(o)' /\ replaces'[x] = replaces[x]
    BY <1>3
  <1>7. QED
    BY <1>1, <1>2, <1>4, <1>5, <1>6, StillBacked

LEMMA NextBacked == TypeOK /\ ReplacementBacked /\ [Next]_vars => ReplacementBacked'
  <1> SUFFICES ASSUME TypeOK, ReplacementBacked, [Next]_vars PROVE ReplacementBacked'
    OBVIOUS
  <1>1. ASSUME NEW s \in Sid, NEW r \in Sid \cup {None}, Reserve(s, r)
        PROVE  ReplacementBacked'
    <2> DEFINE o == OwnerOf[s]
    <2>1. PICK E \in Oldest(o, ExcessAt(o, Allowance(o, r))) :
            phase' = [x \in Sid |-> IF x = s THEN "setup"
                                    ELSE IF x \in E THEN "detached" ELSE phase[x]]
      BY <1>1 DEF Reserve
    <2>2. phase[s] = "new" /\ s \in Pending(o)'
      BY <1>1, <2>1 DEF Reserve, Pending, Creating, In
    <2>3. \A x \in E : phase[x] = "published"
      BY <2>1 DEF Oldest, Mine, Sessions, In
    <2>4. \A x \in Sid : phase[x] \in {"published", "detached"} =>
                           phase'[x] \in {"published", "detached"}
      BY <2>1, <2>2
    <2>5. SUFFICES ASSUME NEW p \in Owner, replacements'[p] # None
                   PROVE  Backed(p)'
      BY DEF ReplacementBacked
    <2>6. CASE Keeps(o, r) /\ p = o
      <3>1. r \in Sid /\ phase[r] = "published" /\ OwnerOf[r] = o /\ r # s
        BY <1>1, <2>2, <2>6 DEF Reserve, MayReserve, Keeps, Sessions, In
      <3>2. replacements'[p] = [old |-> r, new |-> None] /\ replaces'[s] = r
        BY <1>1, <2>6 DEF Reserve, TypeOK
      <3>3. /\ replacements'[p].old = r /\ replacements'[p].new = None
            /\ phase'[r] \in {"published", "detached"}
        BY <2>4, <3>1, <3>2
      <3>4. QED
        BY <2>2, <2>6, <3>1, <3>2, <3>3, BackedBySlot
    <2>7. CASE ~(Keeps(o, r) /\ p = o)
      <3>1. replacements'[p] = replacements[p]
        BY <1>1, <2>7 DEF Reserve, TypeOK
      <3>2. Backed(p) /\ replacements[p] \in Replacement
        BY <2>5, <3>1 DEF ReplacementBacked, TypeOK
      <3>3. ASSUME NEW x \in Pending(p) PROVE x \in Pending(p)' /\ replaces'[x] = replaces[x]
        <4>1. x \in Sid /\ phase[x] = "setup" /\ OwnerOf[x] = p
          BY <3>3 DEF Pending, Creating, In
        <4>2. x # s /\ x \notin E
          BY <4>1, <2>2, <2>3
        <4>3. phase'[x] = "setup" /\ replaces'[x] = replaces[x]
          BY <1>1, <2>1, <4>1, <4>2 DEF Reserve, TypeOK
        <4>4. QED
          BY <4>1, <4>3 DEF Pending, Creating, In
      <3>4. graceTimers' = graceTimers
        BY <1>1 DEF Reserve
      <3>5. QED
        BY <2>4, <3>1, <3>2, <3>3, <3>4, StillBacked
    <2>8. QED
      BY <2>6, <2>7
  <1>2. ASSUME NEW s \in Sid, Abandon(s) PROVE ReplacementBacked'
    <2>1. SUFFICES ASSUME NEW p \in Owner, replacements'[p] # None
                   PROVE  Backed(p)'
      BY DEF ReplacementBacked
    <2>2. /\ replacements'[p] = replacements[p] /\ Backed(p)
          /\ replacements[p] \in Replacement
      BY <1>2, <2>1 DEF Abandon, DropSlot, TypeOK, ReplacementBacked
    <2>3. \A x \in Sid : x # s => phase'[x] = phase[x] /\ replaces'[x] = replaces[x]
      BY <1>2 DEF Abandon, DropSlot, TypeOK
    <2>4. phase[s] = "setup" /\ graceTimers' = graceTimers
      BY <1>2 DEF Abandon
    <2>5. ASSUME NEW x \in Pending(p), replacements[p].new = None,
                 replaces[x] = replacements[p].old
          PROVE  x \in Pending(p)' /\ replaces'[x] = replaces[x]
      <3>1. x \in Sid /\ phase[x] = "setup" /\ OwnerOf[x] = p
        BY <2>5 DEF Pending, Creating, In
      <3>2. CASE x # s
        BY <2>3, <3>1, <3>2 DEF Pending, Creating, In
      <3>3. CASE x = s
        BY <1>2, <2>1, <2>2, <2>5, <3>1, <3>3 DEF Abandon, DropSlot, TypeOK, Replacement
      <3>4. QED
        BY <3>2, <3>3
    <2>6. QED
      BY <2>2, <2>3, <2>4, <2>5, StillBacked
  <1>3. ASSUME NEW s \in Sid, Publish(s) PROVE ReplacementBacked'
    <2>1. SUFFICES ASSUME NEW p \in Owner, replacements'[p] # None
                   PROVE  Backed(p)'
      BY DEF ReplacementBacked
    <2>2. /\ phase[s] = "setup" /\ phase'[s] = "published"
          /\ \A x \in Sid : x # s => phase'[x] = phase[x] /\ replaces'[x] = replaces[x]
      BY <1>3 DEF Publish, TypeOK
    <2>3. graceTimers \subseteq graceTimers'
      BY <1>3 DEF Publish
    <2>4. CASE TakesOver(s) /\ p = OwnerOf[s]
      <3>1. /\ replacements[p] \in Replacement /\ Backed(p)
            /\ replacements'[p] = [replacements[p] EXCEPT !.new = s]
            /\ s \in graceTimers'
        BY <1>3, <2>4 DEF Publish, TakesOver, TypeOK, ReplacementBacked
      <3>2. replacements'[p].old = replacements[p].old /\ replacements'[p].new = s
        BY <3>1 DEF Replacement
      <3>3. QED
        BY <2>2, <2>4, <3>1, <3>2 DEF Backed, Replacement
    <2>5. CASE ~(TakesOver(s) /\ p = OwnerOf[s])
      <3>1. /\ replacements'[p] = replacements[p] /\ Backed(p)
            /\ replacements[p] \in Replacement
        BY <1>3, <2>1, <2>5 DEF Publish, TypeOK, ReplacementBacked
      <3>2. ASSUME NEW x \in Pending(p), replaces[x] = replacements[p].old
            PROVE  x \in Pending(p)' /\ replaces'[x] = replacements'[p].old
        <4>1. x \in Sid /\ phase[x] = "setup" /\ OwnerOf[x] = p
          BY <3>2 DEF Pending, Creating, In
        <4>2. replacements[p].old # None
          BY <3>1, NoneAssumption DEF Replacement
        <4>3. x # s
          BY <2>1, <2>5, <3>1, <3>2, <4>1, <4>2 DEF TakesOver
        <4>4. QED
          BY <2>2, <3>1, <3>2, <4>1, <4>3 DEF Pending, Creating, In
      <3>3. QED
        BY <2>2, <2>3, <3>1, <3>2, StillBacked
    <2>6. QED
      BY <2>4, <2>5
  <1>4. ASSUME NEW s \in Sid, NEW e \in Enders, EndSession(s, e) PROVE ReplacementBacked'
    <2>1. UNCHANGED replaces /\ graceTimers' = graceTimers \ {} /\ phase[s] = "published"
      BY <1>4 DEF EndSession
    <2>2. QED
      BY <1>4, <2>1, EndRemovedBacked DEF EndSession
  <1>5. ASSUME NEW s \in Sid, CleanupNext(s) PROVE ReplacementBacked'
    <2>1. PICK x \in cleanups[s] : phase[x] = "detached" /\ EndRemoved(x, "task")
      BY <1>5 DEF CleanupNext
    <2>2. x \in Sid /\ "task" \in Enders
      BY <2>1 DEF TypeOK, Enders
    <2>3. UNCHANGED replaces /\ graceTimers' = graceTimers \ {}
      BY <1>5 DEF CleanupNext
    <2>4. QED
      BY <2>1, <2>2, <2>3, EndRemovedBacked
  <1>6. ASSUME NEW s \in Sid, Ended(s) PROVE ReplacementBacked'
    BY <1>6, ClearedBacked DEF Ended, Over, TypeOK, ReplacementBacked, Backed
  <1>7. ASSUME NEW s \in Sid, CancelRequest(s) PROVE ReplacementBacked'
    BY <1>7, ClearedBacked DEF CancelRequest, Over, TypeOK, ReplacementBacked, Backed
  <1>8. ASSUME NEW s \in Sid, Served(s) PROVE ReplacementBacked'
    <2> DEFINE old == replacements[OwnerOf[s]].old
    <2>1. old \in Sid
      BY <1>8 DEF Served, Replacing, Replacement, TypeOK
    <2>2. CASE phase[old] = "published"
      <3>1. UNCHANGED replaces /\ graceTimers' = graceTimers \ {} /\ EndRemoved(old, "request")
        BY <1>8, <2>2 DEF Served
      <3>2. QED
        BY <2>1, <2>2, <3>1, EndRemovedBacked DEF Enders
    <2>3. CASE phase[old] # "published"
      BY <1>8, <2>3, ClearedBacked DEF Served, TypeOK, ReplacementBacked, Backed
    <2>4. QED
      BY <2>2, <2>3
  <1>9. ASSUME NEW s \in Sid, GraceOver(s) PROVE ReplacementBacked'
    <2>1. CASE Replacing(s) /\ phase[s] = "published"
      BY <1>9, <2>1, EndRemovedBacked DEF GraceOver, Enders
    <2>2. CASE ~(Replacing(s) /\ phase[s] = "published")
      <3>1. UNCHANGED <<phase, replaces>> /\ graceTimers' = graceTimers \ {s}
        BY <1>9, <2>2 DEF GraceOver
      <3>2. \A o \in Owner : replacements'[o] \in {None, replacements[o]}
        BY <1>9, <2>2 DEF GraceOver, TypeOK
      <3>3. ASSUME NEW o \in Owner, replacements'[o] # None, replacements[o].new # None
            PROVE  replacements[o].new \in graceTimers'
        <4>1. Backed(o) /\ replacements[o] # None /\ replacements'[o] = replacements[o]
          BY <3>2, <3>3 DEF ReplacementBacked
        <4>2. replacements[o].new \in graceTimers /\ OwnerOf[replacements[o].new] = o
          BY <3>3, <4>1 DEF Backed
        <4>3. replacements[o].new # s
          <5>1. SUFFICES ASSUME replacements[o].new = s PROVE FALSE
            OBVIOUS
          <5>2. Replacing(s) /\ o = OwnerOf[s]
            BY <4>1, <4>2, <5>1 DEF Replacing
          <5>3. replacements'[o] = None
            BY <1>9, <2>2, <5>2 DEF GraceOver, TypeOK
          <5>4. QED
            BY <3>3, <5>3
        <4>4. QED
          BY <3>1, <4>2, <4>3
      <3>4. QED
        BY <3>1, <3>2, <3>3, ClearedBacked
    <2>3. QED
      BY <2>1, <2>2
  <1>10. ASSUME NEW o \in Grants, EndOwner(o) PROVE ReplacementBacked'
    BY <1>10, ClearedBacked DEF EndOwner, TypeOK, ReplacementBacked, Backed
  <1>11. ASSUME NEW o \in Grants, EndOwnerNext(o) PROVE ReplacementBacked'
    <2>1. PICK x \in kills[o] :
            IF phase[x] = "published"
            THEN EndRemoved(x, "kill") /\ UNCHANGED kills
            ELSE /\ kills' = [kills EXCEPT ![o] = @ \ {x}]
                 /\ UNCHANGED <<phase, ender, replacements>>
      BY <1>11 DEF EndOwnerNext
    <2>2. x \in Sid /\ "kill" \in Enders
      BY <2>1 DEF TypeOK, Enders
    <2>3. UNCHANGED <<replaces, graceTimers>> /\ graceTimers' = graceTimers \ {}
      BY <1>11 DEF EndOwnerNext
    <2>4. CASE phase[x] = "published"
      BY <2>1, <2>2, <2>3, <2>4, EndRemovedBacked
    <2>5. CASE phase[x] # "published"
      BY <2>1, <2>3, <2>5, ClearedBacked DEF TypeOK, ReplacementBacked, Backed
    <2>6. QED
      BY <2>4, <2>5
  <1>12. CASE UNCHANGED vars
    BY <1>12, ClearedBacked DEF vars, TypeOK, ReplacementBacked, Backed
  <1>13. QED
    BY <1>1, <1>2, <1>3, <1>4, <1>5, <1>6, <1>7, <1>8, <1>9, <1>10, <1>11, <1>12
       DEF Next, Enders

\* No replacement entry outlives what it names or what will clear it.
THEOREM ReplacementsBacked == Spec => []ReplacementBacked
  <1>1. TypeOK /\ ReplacementBacked /\ [Next]_vars => ReplacementBacked'
    BY NextBacked
  <1>2. QED
    BY <1>1, InitBacked, TypeCorrect, PTL DEF Spec
-----------------------------------------------------------------------------
(* The server's cap and the owners' shares *)

(***************************************************************************)
(* Capacity and ShareHeld are not inductive alone: a replacement that ends   *)
(* gives its extra place back only because what it names is its own owner's  *)
(* (ReplacementBacked), and counting needs the sets to be finite.            *)
(***************************************************************************)
Finite == IsFiniteSet(Sessions) /\ IsFiniteSet(Creating)
Bounded == Finite /\ Capacity /\ ShareHeld

\* How the size of a set changes.
LEMMA RemoveOne ==
  ASSUME NEW A, NEW B, NEW x, IsFiniteSet(A), x \in A, B = A \ {x}
  PROVE  IsFiniteSet(B) /\ Cardinality(B) \in Nat /\ Cardinality(A) = Cardinality(B) + 1
  <1>1. IsFiniteSet(A \ {x}) /\ Cardinality(A \ {x}) = Cardinality(A) - 1
    BY FS_RemoveElement
  <1>2. Cardinality(A) \in Nat /\ Cardinality(B) \in Nat
    BY <1>1, FS_CardinalityType
  <1>3. QED
    BY <1>1, <1>2

LEMMA AddOne ==
  ASSUME NEW A, NEW B, NEW x, IsFiniteSet(A), x \notin A, B = A \cup {x}
  PROVE  IsFiniteSet(B) /\ Cardinality(B) = Cardinality(A) + 1
  BY FS_AddElement

LEMMA RemoveSome ==
  ASSUME NEW A, NEW B, NEW E, IsFiniteSet(A), E \subseteq A, B = A \ E
  PROVE  IsFiniteSet(B) /\ Cardinality(B) = Cardinality(A) - Cardinality(E)
  <1>1. A \cap E = E
    OBVIOUS
  <1>2. QED
    BY <1>1, FS_Difference

LEMMA InitBounded == Init => Bounded
  <1> SUFFICES ASSUME Init PROVE Bounded
    OBVIOUS
  <1>1. Sessions = {} /\ Creating = {}
    BY DEF Init, Sessions, Creating, In
  <1>2. \A o \in Owner : Mine(o) = {} /\ Pending(o) = {}
    BY <1>1 DEF Mine, Pending
  <1>3. QED
    BY <1>1, <1>2, FS_EmptySet DEF Bounded, Finite, Capacity, ShareHeld, Load, UnderWay

LEMMA Counts ==
  ASSUME Finite, NEW o
  PROVE  /\ IsFiniteSet(Mine(o)) /\ IsFiniteSet(Pending(o))
         /\ Cardinality(Mine(o)) \in Nat /\ Cardinality(Pending(o)) \in Nat
         /\ Cardinality(Sessions) \in Nat /\ Cardinality(Creating) \in Nat
         /\ Load(o) \in Nat
  <1>1. Mine(o) \in SUBSET Sessions /\ Pending(o) \in SUBSET Creating
    BY DEF Mine, Pending, Sessions, Creating, In
  <1>2. IsFiniteSet(Mine(o)) /\ IsFiniteSet(Pending(o))
    BY <1>1, FS_Subset DEF Finite
  <1>3. QED
    BY <1>2, FS_CardinalityType DEF Finite, Load

\* A step that moves no session in or out of the map, and takes the extra place only
\* from who does not use it.
LEMMA SameSets ==
  ASSUME Bounded, Sessions' = Sessions, Creating' = Creating,
         \A o \in Owner : UnderWay(o) => UnderWay(o)'
  PROVE  Bounded'
  <1>1. \A o \in Owner : Mine(o)' = Mine(o) /\ Pending(o)' = Pending(o)
    BY DEF Mine, Pending
  <1>2. \A o \in Owner : Load(o)' = Load(o) /\ Load(o) \in Nat
    BY <1>1, Counts DEF Load, Bounded
  <1>3. QED
    BY <1>2 DEF Bounded, Finite, Capacity, ShareHeld

LEMMA Unmoved ==
  ASSUME Bounded, UNCHANGED <<phase, replacements>>
  PROVE  Bounded'
  <1>1. Sessions' = Sessions /\ Creating' = Creating
    BY DEF Sessions, Creating, In
  <1>2. \A o \in Owner : UnderWay(o) => UnderWay(o)'
    BY DEF UnderWay
  <1>3. QED
    BY <1>1, <1>2, SameSets

\* Clearing a replacement one of whose ends is gone takes no place from anybody.
LEMMA StillUnderWay ==
  ASSUME TypeOK, Bounded, NEW p \in Owner, UNCHANGED phase, ~UnderWay(p),
         replacements' = [replacements EXCEPT ![p] = None]
  PROVE  Bounded'
  <1>1. Sessions' = Sessions /\ Creating' = Creating
    BY DEF Sessions, Creating, In
  <1>2. ASSUME NEW o \in Owner, UnderWay(o) PROVE UnderWay(o)'
    <2>1. o # p
      BY <1>2
    <2>2. replacements'[o] = replacements[o]
      BY <2>1 DEF TypeOK
    <2>3. QED
      BY <1>2, <2>2 DEF UnderWay
  <1>3. QED
    BY <1>1, <1>2, SameSets

LEMMA EndRemovedBounded ==
  ASSUME TypeOK, ReplacementBacked, Bounded, NEW x \in Sid, NEW e, EndRemoved(x, e),
         phase[x] \in {"published", "detached"}
  PROVE  Bounded'
  <1>1. \A s \in Sid : s # x => phase'[s] = phase[s]
    BY DEF EndRemoved, TypeOK
  <1>2. phase'[x] = "ending"
    BY DEF EndRemoved, TypeOK
  <1>3. Creating' = Creating
    BY <1>1, <1>2 DEF Creating, In
  <1>4. ASSUME NEW o \in Owner, UnderWay(o), ~Names(replacements[o], x)
        PROVE  UnderWay(o)'
    <2>1. replacements'[o] = replacements[o] /\ replacements[o] \in Replacement
      BY <1>4 DEF EndRemoved, Forget, UnderWay, TypeOK
    <2>2. replacements[o].old # x /\ replacements[o].new # x
      BY <1>4 DEF Names, UnderWay
    <2>3. QED
      BY <1>1, <1>4, <2>1, <2>2 DEF UnderWay, Replacement
  <1>5. CASE phase[x] = "detached"
    <2>1. Sessions' = Sessions
      BY <1>1, <1>2, <1>5 DEF Sessions, In
    <2>2. \A o \in Owner : UnderWay(o) => ~Names(replacements[o], x)
      BY <1>5, NoneAssumption DEF UnderWay, Names
    <2>3. QED
      BY <1>3, <1>4, <2>1, <2>2, SameSets
  <1>6. CASE phase[x] = "published"
    <2>1. Sessions' = Sessions \ {x} /\ x \in Sessions
      BY <1>1, <1>2, <1>6 DEF Sessions, In
    <2>2. Finite' /\ Capacity'
      <3>1. /\ IsFiniteSet(Sessions') /\ Cardinality(Sessions') \in Nat
            /\ Cardinality(Sessions) = Cardinality(Sessions') + 1
        BY <2>1, RemoveOne, Zenon DEF Finite, Bounded
      <3>2. QED
        BY <1>3, <3>1, Counts DEF Finite, Capacity, Bounded
    <2>3. ASSUME NEW o \in Owner
          PROVE  Load(o)' <= Share[o] + (IF UnderWay(o)' THEN 1 ELSE 0)
      <3>1. Pending(o)' = Pending(o)
        BY <1>3 DEF Pending
      <3>2. Load(o) <= Share[o] + (IF UnderWay(o) THEN 1 ELSE 0)
        BY DEF Bounded, ShareHeld
      <3>3. CASE OwnerOf[x] = o
        <4>1. Mine(o)' = Mine(o) \ {x} /\ x \in Mine(o)
          BY <2>1, <3>3 DEF Mine, Sessions, In
        <4>2. Load(o)' = Load(o) - 1
          <5>0. IsFiniteSet(Mine(o))
            BY Counts DEF Bounded
          <5>1. Cardinality(Mine(o)) = Cardinality(Mine(o)') + 1 /\ Cardinality(Mine(o)') \in Nat
            BY <4>1, <5>0, RemoveOne, Zenon
          <5>2. QED
            BY <3>1, <5>1, Counts DEF Load, Bounded
        <4>3. QED
          BY <3>2, <4>2, Counts DEF Bounded
      <3>4. CASE OwnerOf[x] # o
        <4>1. Mine(o)' = Mine(o)
          BY <2>1, <3>4 DEF Mine
        <4>2. Load(o)' = Load(o)
          BY <3>1, <4>1 DEF Load
        <4>3. UnderWay(o) => ~Names(replacements[o], x)
          BY <3>4, NoneAssumption DEF UnderWay, Names, ReplacementBacked, Backed
        <4>4. UnderWay(o) => UnderWay(o)'
          BY <1>4, <4>3
        <4>5. QED
          BY <3>2, <4>2, <4>4, Counts DEF Bounded
      <3>5. QED
        BY <3>3, <3>4
    <2>4. QED
      BY <2>2, <2>3 DEF Bounded, ShareHeld
  <1>7. QED
    BY <1>5, <1>6

\* What reserve took out of the map and what it put down for the start.
LEMMA ReserveSets ==
  ASSUME TypeOK, Finite, NEW s \in Sid, NEW r \in Sid \cup {None}, Reserve(s, r)
  PROVE  LET o == OwnerOf[s]
             excess == ExcessAt(o, Allowance(o, r))
         IN  /\ excess \in Nat /\ Fits(excess)
             /\ Finite'
             /\ Cardinality(Sessions)' = Cardinality(Sessions) - excess
             /\ Cardinality(Creating)' = Cardinality(Creating) + 1
             /\ Load(o)' = Load(o) - excess + 1
             /\ \A p \in Owner \ {o} : Load(p)' = Load(p)
             /\ \E E \in Oldest(o, excess) :
                  /\ \A x \in Sid \ (E \cup {s}) : phase'[x] = phase[x]
                  /\ phase'[s] = "setup"
  <1> DEFINE o == OwnerOf[s]
             excess == ExcessAt(o, Allowance(o, r))
  <1>1. PICK E \in Oldest(o, excess) :
          phase' = [x \in Sid |-> IF x = s THEN "setup"
                                  ELSE IF x \in E THEN "detached" ELSE phase[x]]
    BY DEF Reserve
  <1>2. /\ phase[s] = "new" /\ Fits(excess)
        /\ E \subseteq Mine(o) /\ Cardinality(E) = excess
    BY <1>1 DEF Reserve, Oldest
  <1>3. /\ IsFiniteSet(Mine(o)) /\ IsFiniteSet(Pending(o))
        /\ Cardinality(Mine(o)) \in Nat /\ Cardinality(Pending(o)) \in Nat
        /\ Load(o) \in Nat
    BY Counts
  <1>4. IsFiniteSet(E) /\ excess \in Nat
    BY <1>2, <1>3, FS_Subset, FS_CardinalityType
  <1>5. /\ Sessions' = Sessions \ E /\ Sessions \cap E = E /\ Mine(o) \cap E = E
        /\ Creating' = Creating \cup {s} /\ s \notin Creating
    BY <1>1, <1>2 DEF Mine, Sessions, Creating, In
  <1>6. /\ Cardinality(Sessions)' = Cardinality(Sessions) - excess /\ IsFiniteSet(Sessions)'
        /\ Cardinality(Creating)' = Cardinality(Creating) + 1 /\ IsFiniteSet(Creating)'
    <2>1. IsFiniteSet(Sessions') /\ Cardinality(Sessions') = Cardinality(Sessions) - Cardinality(E)
      <3>1. E \subseteq Sessions /\ Sessions' = Sessions \ E
        BY <1>2, <1>5 DEF Mine
      <3>2. QED
        BY <3>1, RemoveSome, Zenon DEF Finite
    <2>2. IsFiniteSet(Creating') /\ Cardinality(Creating') = Cardinality(Creating) + 1
      BY <1>5, AddOne, Zenon DEF Finite
    <2>3. QED
      BY <1>2, <2>1, <2>2
  <1>7. Load(o)' = Load(o) - excess + 1
    <2>1. Mine(o)' = Mine(o) \ E
      BY <1>5 DEF Mine
    <2>2. Pending(o)' = Pending(o) \cup {s} /\ s \notin Pending(o)
      BY <1>5 DEF Pending
    <2>3. Cardinality(Mine(o)') = Cardinality(Mine(o)) - excess
      <3>1. Cardinality(Mine(o)') = Cardinality(Mine(o)) - Cardinality(E)
        BY <1>2, <1>3, <2>1, RemoveSome, Zenon
      <3>2. QED
        BY <1>2, <3>1
    <2>4. Cardinality(Pending(o)') = Cardinality(Pending(o)) + 1
      BY <1>3, <2>2, FS_AddElement
    <2>5. QED
      BY <1>3, <1>4, <2>3, <2>4 DEF Load
  <1>8. ASSUME NEW p \in Owner \ {o} PROVE Load(p)' = Load(p)
    <2>1. Mine(p)' = Mine(p) /\ Pending(p)' = Pending(p)
      BY <1>2, <1>5 DEF Mine, Pending
    <2>2. QED
      BY <2>1 DEF Load
  <1>9. QED
    BY <1>1, <1>2, <1>4, <1>6, <1>7, <1>8 DEF Finite

LEMMA ReserveBounded ==
  ASSUME TypeOK, ReplacementBacked, Bounded,
         NEW s \in Sid, NEW r \in Sid \cup {None}, Reserve(s, r)
  PROVE  Bounded'
  <1> DEFINE o == OwnerOf[s]
             excess == ExcessAt(o, Allowance(o, r))
  <1>1. /\ excess \in Nat /\ Fits(excess) /\ Finite'
        /\ Cardinality(Sessions)' = Cardinality(Sessions) - excess
        /\ Cardinality(Creating)' = Cardinality(Creating) + 1
        /\ Load(o)' = Load(o) - excess + 1
        /\ \A p \in Owner \ {o} : Load(p)' = Load(p)
    BY ReserveSets DEF Bounded
  <1>2. PICK E \in Oldest(o, excess) :
          \A x \in Sid \ (E \cup {s}) : phase'[x] = phase[x]
    BY ReserveSets DEF Bounded
  <1>3. Capacity'
    BY <1>1, Counts DEF Fits, Capacity, Bounded
  <1>4. o \in Owner /\ Load(o) \in Nat /\ Share[o] \in Nat \ {0}
    BY Counts DEF Bounded
  <1>5. Load(o)' <= Share[o] + (IF UnderWay(o)' THEN 1 ELSE 0)
    <2>1. CASE Keeps(o, r)
      <3>1. /\ r \in Sid /\ phase[r] = "published" /\ replacements[o] = None
            /\ phase[s] = "new"
        BY <2>1 DEF Reserve, MayReserve, Keeps, Sessions, In
      <3>2. Load(o) <= Share[o]
        BY <1>4, <3>1 DEF Bounded, ShareHeld, UnderWay
      <3>3. excess = 0
        BY <1>4, <2>1, <3>2 DEF ExcessAt, Allowance, Monus
      <3>4. E = {}
        <4>1. E \in SUBSET Mine(o) /\ Cardinality(E) = 0
          BY <1>2, <3>3 DEF Oldest
        <4>2. IsFiniteSet(E)
          BY <4>1, Counts, FS_Subset DEF Bounded
        <4>3. QED
          BY <4>1, <4>2, FS_EmptySet
      <3>5. phase'[r] = "published"
        BY <1>2, <3>1, <3>4
      <3>6. replacements'[o] = [old |-> r, new |-> None]
        BY <1>4, <2>1 DEF Reserve, TypeOK
      <3>7. replacements'[o] # None
        BY <3>6, NoneAssumption
      <3>8. UnderWay(o)'
        BY <3>5, <3>6, <3>7 DEF UnderWay
      <3>9. QED
        BY <1>1, <1>4, <3>2, <3>3, <3>8
    <2>2. CASE ~Keeps(o, r)
      <3>1. excess = Monus(Load(o) + 1, Share[o])
        BY <2>2 DEF ExcessAt, Allowance
      <3>2. Load(o) - excess + 1 <= Share[o]
        BY <1>4, <3>1 DEF Monus
      <3>3. QED
        BY <1>1, <1>4, <3>2
    <2>3. QED
      BY <2>1, <2>2
  <1>6. ASSUME NEW p \in Owner, p # o
        PROVE  Load(p)' <= Share[p] + (IF UnderWay(p)' THEN 1 ELSE 0)
    <2>1. Load(p)' = Load(p) /\ Load(p) \in Nat
      BY <1>1, <1>6, Counts DEF Bounded
    <2>2. UnderWay(p) => UnderWay(p)'
      <3>1. SUFFICES ASSUME UnderWay(p) PROVE UnderWay(p)'
        OBVIOUS
      <3>2. replacements'[p] = replacements[p] /\ replacements[p] \in Replacement /\ Backed(p)
        BY <1>6, <3>1 DEF Reserve, UnderWay, TypeOK, ReplacementBacked
      <3>3. \A x \in Sid : OwnerOf[x] = p => phase'[x] = phase[x]
        BY <1>2, <1>6 DEF Oldest, Mine
      <3>4. QED
        BY <3>1, <3>2, <3>3 DEF UnderWay, Backed, Replacement
    <2>3. QED
      BY <2>1, <2>2 DEF Bounded, ShareHeld
  <1>7. QED
    BY <1>1, <1>3, <1>5, <1>6 DEF Bounded, ShareHeld

LEMMA AbandonBounded ==
  ASSUME TypeOK, ReplacementBacked, Bounded, NEW s \in Sid, Abandon(s)
  PROVE  Bounded'
  <1>1. phase[s] = "setup" /\ phase' = [phase EXCEPT ![s] = "failed"]
    BY DEF Abandon
  <1>2. Sessions' = Sessions /\ Creating' = Creating \ {s} /\ s \in Creating
    BY <1>1 DEF Sessions, Creating, In, TypeOK
  <1>3. Finite' /\ Capacity'
    <2>1. /\ IsFiniteSet(Creating') /\ Cardinality(Creating') \in Nat
          /\ Cardinality(Creating) = Cardinality(Creating') + 1
      BY <1>2, RemoveOne, Zenon DEF Finite, Bounded
    <2>2. Cardinality(Sessions) \in Nat
      BY FS_CardinalityType DEF Finite, Bounded
    <2>3. QED
      BY <1>2, <2>1, <2>2 DEF Finite, Capacity, Bounded
  <1>4. ASSUME NEW o \in Owner
        PROVE  Load(o)' <= Share[o] + (IF UnderWay(o)' THEN 1 ELSE 0)
    <2>1. Mine(o)' = Mine(o)
      BY <1>2 DEF Mine
    <2>2. Load(o) <= Share[o] + (IF UnderWay(o) THEN 1 ELSE 0)
      BY DEF Bounded, ShareHeld
    <2>3. CASE OwnerOf[s] = o
      <3>1. Pending(o)' = Pending(o) \ {s} /\ s \in Pending(o)
        BY <1>2, <2>3 DEF Pending, Creating, In
      <3>2. Load(o)' = Load(o) - 1
        <4>0. IsFiniteSet(Pending(o))
          BY Counts DEF Bounded
        <4>1. /\ Cardinality(Pending(o)) = Cardinality(Pending(o)') + 1
              /\ Cardinality(Pending(o)') \in Nat
          BY <3>1, <4>0, RemoveOne, Zenon
        <4>2. QED
          BY <2>1, <4>1, Counts DEF Load, Bounded
      <3>3. QED
        BY <2>2, <3>2, Counts DEF Bounded
    <2>4. CASE OwnerOf[s] # o
      <3>1. Pending(o)' = Pending(o)
        BY <1>2, <2>4 DEF Pending
      <3>2. Load(o)' = Load(o) /\ Load(o) \in Nat
        BY <2>1, <3>1, Counts DEF Load, Bounded
      <3>3. replacements'[o] = replacements[o]
        BY <2>4 DEF Abandon, DropSlot, TypeOK
      <3>4. UnderWay(o) => UnderWay(o)'
        BY <1>1, <3>3 DEF UnderWay, TypeOK, Replacement
      <3>5. QED
        BY <2>2, <3>2, <3>4
    <2>5. QED
      BY <2>3, <2>4
  <1>5. QED
    BY <1>3, <1>4 DEF Bounded, ShareHeld

LEMMA PublishBounded ==
  ASSUME TypeOK, ReplacementBacked, Bounded, NEW s \in Sid, Publish(s)
  PROVE  Bounded'
  <1>1. phase[s] = "setup" /\ phase' = [phase EXCEPT ![s] = "published"]
    BY DEF Publish
  <1>2. /\ Sessions' = Sessions \cup {s} /\ s \notin Sessions
        /\ Creating' = Creating \ {s} /\ s \in Creating
    BY <1>1 DEF Sessions, Creating, In, TypeOK
  <1>3. Finite' /\ Capacity'
    <2>1. /\ IsFiniteSet(Creating') /\ Cardinality(Creating') \in Nat
          /\ Cardinality(Creating) = Cardinality(Creating') + 1
      BY <1>2, RemoveOne, Zenon DEF Finite, Bounded
    <2>2. IsFiniteSet(Sessions') /\ Cardinality(Sessions') = Cardinality(Sessions) + 1
      BY <1>2, AddOne, Zenon DEF Finite, Bounded
    <2>3. QED
      BY <2>1, <2>2, Counts DEF Finite, Capacity, Bounded
  <1>4. ASSUME NEW o \in Owner PROVE Load(o)' = Load(o)
    <2>1. CASE OwnerOf[s] = o
      <3>1. /\ Mine(o)' = Mine(o) \cup {s} /\ s \notin Mine(o)
            /\ Pending(o)' = Pending(o) \ {s} /\ s \in Pending(o)
        BY <1>2, <2>1 DEF Mine, Pending, Creating, Sessions, In
      <3>2. /\ Cardinality(Mine(o)') = Cardinality(Mine(o)) + 1
            /\ Cardinality(Pending(o)') = Cardinality(Pending(o)) - 1
        <4>0. IsFiniteSet(Mine(o)) /\ IsFiniteSet(Pending(o))
          BY Counts DEF Bounded
        <4>1. Cardinality(Mine(o)') = Cardinality(Mine(o)) + 1
          BY <3>1, <4>0, AddOne, Zenon
        <4>2. /\ Cardinality(Pending(o)) = Cardinality(Pending(o)') + 1
              /\ Cardinality(Pending(o)') \in Nat
          BY <3>1, <4>0, RemoveOne, Zenon
        <4>3. QED
          BY <4>1, <4>2, Counts DEF Bounded
      <3>3. QED
        BY <3>2, Counts DEF Load, Bounded
    <2>2. CASE OwnerOf[s] # o
      <3>1. Mine(o)' = Mine(o) /\ Pending(o)' = Pending(o)
        BY <1>2, <2>2 DEF Mine, Pending
      <3>2. QED
        BY <3>1 DEF Load
    <2>3. QED
      BY <2>1, <2>2
  <1>5. ASSUME NEW o \in Owner, UnderWay(o) PROVE UnderWay(o)'
    <2>1. replacements[o] \in Replacement /\ replacements[o] # None
      BY <1>5 DEF UnderWay, TypeOK
    <2>2. \A x \in Sid : phase[x] = "published" => phase'[x] = "published"
      BY <1>1 DEF TypeOK
    <2>3. phase'[s] = "published"
      BY <1>1 DEF TypeOK
    <2>4. CASE TakesOver(s) /\ o = OwnerOf[s]
      <3>1. replacements'[o] = [replacements[o] EXCEPT !.new = s]
        BY <2>4 DEF Publish, TypeOK
      <3>2. replacements'[o] # None
        BY <2>1, <3>1, NoneAssumption DEF Replacement
      <3>3. replacements'[o].old = replacements[o].old /\ replacements'[o].new = s
        BY <2>1, <3>1 DEF Replacement
      <3>4. QED
        BY <1>5, <2>1, <2>2, <2>3, <3>2, <3>3 DEF UnderWay, Replacement
    <2>5. CASE ~(TakesOver(s) /\ o = OwnerOf[s])
      <3>1. replacements'[o] = replacements[o]
        BY <2>5 DEF Publish, TypeOK
      <3>2. QED
        BY <1>5, <2>1, <2>2, <3>1 DEF UnderWay, Replacement
    <2>6. QED
      BY <2>4, <2>5
  <1>6. QED
    BY <1>3, <1>4, <1>5, Counts DEF Bounded, ShareHeld

LEMMA NextBounded == TypeOK /\ ReplacementBacked /\ Bounded /\ [Next]_vars => Bounded'
  <1> SUFFICES ASSUME TypeOK, ReplacementBacked, Bounded, [Next]_vars PROVE Bounded'
    OBVIOUS
  <1>1. ASSUME NEW s \in Sid, NEW r \in Sid \cup {None}, Reserve(s, r) PROVE Bounded'
    BY <1>1, ReserveBounded
  <1>2. ASSUME NEW s \in Sid, Abandon(s) PROVE Bounded'
    BY <1>2, AbandonBounded
  <1>3. ASSUME NEW s \in Sid, Publish(s) PROVE Bounded'
    BY <1>3, PublishBounded
  <1>4. ASSUME NEW s \in Sid, NEW e, EndSession(s, e) PROVE Bounded'
    BY <1>4, EndRemovedBounded DEF EndSession
  <1>5. ASSUME NEW s \in Sid, CleanupNext(s) PROVE Bounded'
    BY <1>5, EndRemovedBounded DEF CleanupNext, TypeOK
  <1>6. ASSUME NEW s \in Sid, NEW how \in {"ended", "stranded"}, Over(s, how),
               UNCHANGED replacements
        PROVE  Bounded'
    <2>1. /\ phase[s] = "ending" /\ phase'[s] = how
          /\ \A x \in Sid : x # s => phase'[x] = phase[x]
      BY <1>6 DEF Over, TypeOK
    <2>2. Sessions' = Sessions /\ Creating' = Creating
      BY <1>6, <2>1 DEF Sessions, Creating, In
    <2>3. ASSUME NEW o \in Owner, UnderWay(o) PROVE UnderWay(o)'
      BY <1>6, <2>1, <2>3 DEF UnderWay, TypeOK, Replacement
    <2>4. QED
      BY <2>2, <2>3, SameSets
  <1>7. ASSUME NEW s \in Sid, Served(s) PROVE Bounded'
    <2> DEFINE o == OwnerOf[s]
               old == replacements[o].old
    <2>1. o \in Owner /\ replacements[o] \in Replacement /\ old \in Sid
      BY <1>7 DEF Served, Replacing, TypeOK, Replacement
    <2>2. CASE phase[old] = "published"
      BY <1>7, <2>1, <2>2, EndRemovedBounded DEF Served
    <2>3. CASE phase[old] # "published"
      <3>1. /\ UNCHANGED phase /\ ~UnderWay(o)
            /\ replacements' = [replacements EXCEPT ![o] = None]
        BY <1>7, <2>3 DEF Served, UnderWay
      <3>2. QED
        BY <3>1, StillUnderWay
    <2>4. QED
      BY <2>2, <2>3
  <1>8. ASSUME NEW s \in Sid, GraceOver(s) PROVE Bounded'
    <2> DEFINE o == OwnerOf[s]
    <2>1. CASE Replacing(s) /\ phase[s] = "published"
      BY <1>8, <2>1, EndRemovedBounded DEF GraceOver
    <2>2. CASE Replacing(s) /\ phase[s] # "published"
      <3>1. /\ UNCHANGED phase /\ ~UnderWay(o)
            /\ replacements' = [replacements EXCEPT ![o] = None]
        BY <1>8, <2>2, NoneAssumption DEF GraceOver, UnderWay, Replacing
      <3>2. QED
        BY <3>1, StillUnderWay
    <2>3. CASE ~Replacing(s)
      BY <1>8, <2>3, Unmoved DEF GraceOver
    <2>4. QED
      BY <2>1, <2>2, <2>3
  <1>9. ASSUME NEW o \in Grants, EndOwner(o) PROVE Bounded'
    BY <1>9, Unmoved DEF EndOwner
  <1>10. ASSUME NEW o \in Grants, EndOwnerNext(o) PROVE Bounded'
    <2>1. PICK x \in kills[o] :
            IF phase[x] = "published"
            THEN EndRemoved(x, "kill") /\ UNCHANGED kills
            ELSE /\ kills' = [kills EXCEPT ![o] = @ \ {x}]
                 /\ UNCHANGED <<phase, ender, replacements>>
      BY <1>10 DEF EndOwnerNext
    <2>2. x \in Sid
      BY <2>1 DEF TypeOK
    <2>3. CASE phase[x] = "published"
      BY <2>1, <2>2, <2>3, EndRemovedBounded
    <2>4. CASE phase[x] # "published"
      BY <2>1, <2>4, Unmoved
    <2>5. QED
      BY <2>3, <2>4
  <1>11. CASE UNCHANGED vars
    BY <1>11, Unmoved DEF vars
  <1>12. ASSUME NEW s \in Sid, Ended(s) PROVE Bounded'
    BY <1>6, <1>12 DEF Ended
  <1>13. ASSUME NEW s \in Sid, CancelRequest(s) PROVE Bounded'
    BY <1>6, <1>13 DEF CancelRequest
  <1>14. QED
    BY <1>1, <1>2, <1>3, <1>4, <1>5, <1>7, <1>8, <1>9, <1>10, <1>11, <1>12, <1>13 DEF Next

LEMMA AlwaysBounded == Spec => []Bounded
  <1>1. TypeOK /\ ReplacementBacked /\ Bounded /\ [Next]_vars => Bounded'
    BY NextBounded
  <1>2. QED
    BY <1>1, InitBounded, TypeCorrect, ReplacementsBacked, PTL DEF Spec

\* Published sessions and reservations together never pass MAX_SESSIONS, however
\* many owners start sessions around each other's awaits.
THEOREM CapacityHolds == Spec => []Capacity
  <1>1. Bounded => Capacity
    BY DEF Bounded
  <1>2. QED
    BY <1>1, AlwaysBounded, PTL

\* No owner holds more than its share, and one more only while a replacement of
\* two live sessions is under way.
THEOREM SharesHold == Spec => []ShareHeld
  <1>1. Bounded => ShareHeld
    BY DEF Bounded
  <1>2. QED
    BY <1>1, AlwaysBounded, PTL
-----------------------------------------------------------------------------
(* What a start may not do *)

\* The start that names a session to replace evicts nobody when it keeps that session.
LEMMA KeepsAll ==
  ASSUME TypeOK, Bounded, NEW s \in Sid, NEW r \in Sid \cup {None}, Reserve(s, r),
         Keeps(OwnerOf[s], r)
  PROVE  phase'[r] = "published" /\ r \in Sid
  <1> DEFINE o == OwnerOf[s]
             excess == ExcessAt(o, Allowance(o, r))
  <1>1. o \in Owner /\ Load(o) \in Nat /\ Share[o] \in Nat \ {0}
    BY Counts DEF Bounded
  <1>2. /\ r \in Sid /\ phase[r] = "published" /\ replacements[o] = None
        /\ phase[s] = "new"
    BY DEF Reserve, MayReserve, Keeps, Sessions, In
  <1>3. Load(o) <= Share[o]
    BY <1>1, <1>2 DEF Bounded, ShareHeld, UnderWay
  <1>4. excess = 0
    BY <1>1, <1>3 DEF ExcessAt, Allowance, Monus
  <1>5. PICK E \in Oldest(o, excess) :
          phase' = [x \in Sid |-> IF x = s THEN "setup"
                                  ELSE IF x \in E THEN "detached" ELSE phase[x]]
    BY DEF Reserve
  <1>6. E \in SUBSET Mine(o) /\ Cardinality(E) = 0
    BY <1>4, <1>5 DEF Oldest
  <1>7. E = {}
    BY <1>6, Counts, FS_Subset, FS_EmptySet DEF Bounded
  <1>8. QED
    BY <1>2, <1>5, <1>7

\* The session a start is to replace is never among those the same start evicts.
THEOREM KeptWhileReplaced == Spec => KeptAtStart
  <1> DEFINE Kept == \A o \in Owner : replacements[o] = None /\ replacements'[o] # None =>
                       phase'[replacements'[o].old] = "published"
  <1>1. ASSUME TypeOK, Bounded, [Next]_vars PROVE Kept
    <2> SUFFICES ASSUME NEW o \in Owner, replacements[o] = None, replacements'[o] # None
                 PROVE  phase'[replacements'[o].old] = "published"
      OBVIOUS
    <2>1. PICK s \in Sid, r \in Sid \cup {None} : Reserve(s, r)
      <3>1. \A s \in Sid : Forget(s)[o] = None
        BY DEF Forget, Names
      <3>2. ASSUME NEW s \in Sid, NEW e, EndRemoved(s, e) PROVE FALSE
        BY <3>1, <3>2 DEF EndRemoved
      <3>3. ASSUME NEW s \in Sid, DropSlot(s) PROVE FALSE
        BY <1>1, <3>3 DEF DropSlot, TypeOK
      <3>4. ASSUME NEW s \in Sid, Publish(s) PROVE FALSE
        BY <1>1, <3>4 DEF Publish, TakesOver, TypeOK
      <3>5. ASSUME NEW s \in Sid, Served(s) PROVE FALSE
        BY <1>1, <3>2, <3>5 DEF Served, Replacing, TypeOK, Replacement
      <3>6. ASSUME NEW s \in Sid, GraceOver(s) PROVE FALSE
        BY <1>1, <3>2, <3>6 DEF GraceOver, Replacing, TypeOK
      <3>7. ASSUME NEW p \in Grants, EndOwnerNext(p) PROVE FALSE
        BY <1>1, <3>2, <3>7 DEF EndOwnerNext, TypeOK
      <3>8. QED
        BY <1>1, <3>2, <3>3, <3>4, <3>5, <3>6, <3>7
           DEF Next, Abandon, EndSession, CleanupNext, Ended, CancelRequest, EndOwner, vars, TypeOK
    <2>2. Keeps(OwnerOf[s], r) /\ o = OwnerOf[s]
      BY <2>1 DEF Reserve, TypeOK
    <2>3. replacements'[o] = [old |-> r, new |-> None]
      BY <2>1, <2>2 DEF Reserve, TypeOK
    <2>4. QED
      BY <1>1, <2>1, <2>2, <2>3, KeepsAll
  <1>2. QED
    BY <1>1, TypeCorrect, AlwaysBounded, PTL DEF Spec, KeptAtStart
-----------------------------------------------------------------------------
(* Which of a replacement's two sessions goes *)

\* Ending x settles a replacement only if x is one of its two sessions, which then goes.
LEMMA EitherGoes ==
  ASSUME TypeOK, NEW o \in Owner, replacements[o] \in Replacement,
         replacements[o].old # replacements[o].new, replacements[o].new \in Sid,
         phase[replacements[o].old] = "published", phase[replacements[o].new] = "published",
         NEW x \in Sid, NEW e \in Enders, EndRemoved(x, e), replacements'[o] = None
  PROVE  (phase'[replacements[o].old] = "published") # (phase'[replacements[o].new] = "published")
  <1>1. Names(replacements[o], x)
    BY NoneAssumption DEF EndRemoved, Forget, Replacement
  <1>2. x = replacements[o].old \/ x = replacements[o].new
    BY <1>1 DEF Names
  <1>3. replacements[o].old \in Sid /\ phase' = [phase EXCEPT ![x] = "ending"]
    BY DEF EndRemoved, Replacement
  <1>4. QED
    BY <1>2, <1>3 DEF TypeOK

\* A replacement ends with exactly one of its two sessions, whatever ends it, and a
\* timer that finds it settled ends nothing.
THEOREM OneOfTwoGoes == Spec => OneGivesWay
  <1> DEFINE Settled(o) ==
               UnderWay(o) /\ replacements[o].new # None /\ replacements'[o] = None =>
                 (phase'[replacements[o].old] = "published") # (phase'[replacements[o].new] = "published")
             Late(s) == ~Replacing(s) => phase' = phase
             Whole == /\ \A o \in Owner : Settled(o)
                      /\ \A s \in graceTimers \ graceTimers' : Late(s)
  <1>1. ASSUME TypeOK, ReplacementBacked, [Next]_vars, NEW o \in Owner PROVE Settled(o)
    <2> DEFINE old == replacements[o].old
               new == replacements[o].new
    <2> SUFFICES ASSUME UnderWay(o), new # None, replacements'[o] = None
                 PROVE  (phase'[old] = "published") # (phase'[new] = "published")
      OBVIOUS
    <2>1. replacements[o] # None /\ phase[old] = "published" /\ phase[new] = "published"
      BY DEF UnderWay
    <2>2. replacements[o] \in Replacement /\ old \in Sid /\ new \in Sid
      BY <1>1, <2>1 DEF TypeOK, Replacement
    <2>3. OwnerOf[old] = o /\ OwnerOf[new] = o /\ new # old
      BY <1>1, <2>1 DEF ReplacementBacked, Backed
    <2>4. ASSUME NEW x \in Sid, NEW e \in Enders, EndRemoved(x, e)
          PROVE  (phase'[old] = "published") # (phase'[new] = "published")
      BY <1>1, <2>1, <2>2, <2>3, <2>4, EitherGoes
    <2>5. replacements' # replacements
      BY <2>1
    <2>6. ASSUME NEW s \in Sid, NEW r \in Sid \cup {None}, Reserve(s, r) PROVE FALSE
      BY <1>1, <2>1, <2>6, NoneAssumption DEF Reserve, TypeOK
    <2>7. ASSUME NEW s \in Sid, DropSlot(s) PROVE FALSE
      BY <1>1, <2>1, <2>7 DEF DropSlot, TypeOK
    <2>8. ASSUME NEW s \in Sid, Publish(s) PROVE FALSE
      <3>1. replacements'[o] # None
        BY <1>1, <2>1, <2>2, <2>8, NoneAssumption DEF Publish, TypeOK, Replacement
      <3>2. QED
        BY <3>1
    <2>9. ASSUME NEW s \in Sid, Served(s)
          PROVE  (phase'[old] = "published") # (phase'[new] = "published")
      <3>1. replacements[OwnerOf[s]].old \in Sid /\ OwnerOf[s] \in Owner
        BY <1>1, <2>9 DEF Served, Replacing, TypeOK, Replacement
      <3>2. CASE phase[replacements[OwnerOf[s]].old] = "published"
        BY <2>4, <2>9, <3>1, <3>2 DEF Served, Enders
      <3>3. CASE phase[replacements[OwnerOf[s]].old] # "published"
        BY <1>1, <2>1, <2>9, <3>1, <3>3 DEF Served, TypeOK
      <3>4. QED
        BY <3>2, <3>3
    <2>10. ASSUME NEW s \in Sid, GraceOver(s)
           PROVE  (phase'[old] = "published") # (phase'[new] = "published")
      <3>1. CASE Replacing(s) /\ phase[s] = "published"
        BY <2>4, <2>10, <3>1 DEF GraceOver, Enders
      <3>2. CASE ~(Replacing(s) /\ phase[s] = "published")
        BY <1>1, <2>1, <2>10, <3>2 DEF GraceOver, Replacing, TypeOK
      <3>3. QED
        BY <3>1, <3>2
    <2>11. ASSUME NEW s \in Sid, NEW e \in Enders, EndSession(s, e)
           PROVE  (phase'[old] = "published") # (phase'[new] = "published")
      BY <2>4, <2>11 DEF EndSession
    <2>12. ASSUME NEW s \in Sid, CleanupNext(s)
           PROVE  (phase'[old] = "published") # (phase'[new] = "published")
      <3>1. PICK x \in cleanups[s] : EndRemoved(x, "task")
        BY <2>12 DEF CleanupNext
      <3>2. x \in Sid
        BY <1>1, <3>1 DEF TypeOK
      <3>3. QED
        BY <2>4, <3>1, <3>2 DEF Enders
    <2>13. ASSUME NEW p \in Grants, EndOwnerNext(p)
           PROVE  (phase'[old] = "published") # (phase'[new] = "published")
      <3>1. PICK x \in kills[p] : EndRemoved(x, "kill")
        BY <2>5, <2>13 DEF EndOwnerNext
      <3>2. x \in Sid
        BY <1>1, <3>1 DEF TypeOK
      <3>3. QED
        BY <2>4, <3>1, <3>2 DEF Enders
    <2>14. ASSUME NEW s \in Sid, Abandon(s) \/ Ended(s) \/ CancelRequest(s) PROVE FALSE
      BY <2>5, <2>7, <2>14 DEF Abandon, Ended, CancelRequest
    <2>15. ASSUME NEW p \in Grants, EndOwner(p) PROVE FALSE
      BY <2>5, <2>15 DEF EndOwner
    <2>16. CASE UNCHANGED vars
      BY <2>5, <2>16 DEF vars
    <2>17. "request" \in Enders /\ "task" \in Enders
      BY DEF Enders
    <2>18. CASE Next
      <3> HIDE DEF old, new
      <3>1. QED
        BY <2>18, <2>6, <2>8, <2>9, <2>10, <2>11, <2>12, <2>13, <2>14, <2>15, <2>17 DEF Next
    <2>19. QED
      BY <1>1, <2>16, <2>18
  <1>2. ASSUME [Next]_vars, NEW s \in graceTimers \ graceTimers' PROVE Late(s)
    <2>1. ASSUME NEW t \in Sid, GraceOver(t) PROVE Late(s)
      BY <1>2, <2>1 DEF GraceOver
    <2>2. QED
      BY <1>2, <2>1 DEF Next, Reserve, Abandon, Publish, EndSession, CleanupNext, Ended,
                        CancelRequest, Served, EndOwner, EndOwnerNext, vars
  <1>3. TypeOK /\ ReplacementBacked /\ [Next]_vars => Whole
    BY <1>1, <1>2
  <1>4. QED
    BY <1>3, TypeCorrect, ReplacementsBacked, PTL DEF Spec, OneGivesWay
-----------------------------------------------------------------------------
(* Lifetime: sessions over time *)

\* Every step over time is one of Admission's or leaves it as it was.
LEMMA LifeStep == [LifeNext]_all_vars => [Next]_vars
<1> SUFFICES ASSUME [LifeNext]_all_vars PROVE [Next]_vars
  OBVIOUS
<1>1. ASSUME NEW s \in Sid, NEW r \in Sid \cup {None}, Reserve(s, r) PROVE Next
  BY <1>1 DEF Next
<1>2. ASSUME NEW s \in Sid, Publish(s) \/ Abandon(s) \/ CleanupNext(s) \/ Ended(s) \/ CancelRequest(s)
                            \/ GraceOver(s) \/ Served(s) \/ EndSession(s, "request") \/ EndSession(s, "task")
      PROVE Next
  BY <1>2 DEF Next
<1>3. ASSUME NEW o \in Grants, EndOwner(o) \/ EndOwnerNext(o) PROVE Next
  BY <1>3 DEF Next
<1>4. ASSUME NEW s \in Sid, NEW wakes \in BOOLEAN,
             Touch(s, wakes) \/ Heartbeat(s) \/ Played(s) \/ Sleeps(s, wakes) \/ Tick
      PROVE UNCHANGED vars
  BY <1>4 DEF Touch, Heartbeat, Played, Sleeps, Tick
<1>5. ASSUME Tick PROVE UNCHANGED vars
  BY <1>5 DEF Tick
<1>6. CASE UNCHANGED all_vars
  BY <1>6 DEF all_vars
<1> QED BY <1>1, <1>2, <1>3, <1>4, <1>5, <1>6
        DEF LifeNext, Opens, Fails, Cleans, Settles, GivesUp, TakesOverNow, Deletes, Ends, Kills

\* Sessions that are timed and buried are admitted as Admission says: what is proved of it
\* (Capacity, ShareHeld, ReplacementBacked, KeptAtStart) holds over time.
THEOREM ImplementsAdmission == LifeSpec => Spec
<1>1. LifeInit => Init
  BY DEF LifeInit
<1> QED BY <1>1, LifeStep, PTL DEF LifeSpec, Spec

-----------------------------------------------------------------------------
\* Who is not published has no times; no supervisor, published or not, sleeps past the
\* longest its session may be silent, or its expiry.
Timely ==
  /\ life \in [Sid -> Life] /\ left \in [Sid -> Nat]
  /\ \A s \in Sid : /\ phase[s] # "published" => life[s] = Fresh
                    /\ life[s].alarm <= GoneIn(s) /\ life[s].alarm <= left[s]

LEMMA FreshLife == Fresh \in Life /\ Fresh.alarm = 0
  BY DEF Fresh, Life

\* How long a session may be silent is one of the two idle times; the longest it may is
\* the greater of that and UNATTENDED_IDLE.
LEMMA PatienceNat ==
  ASSUME NEW l \in Life
  PROVE  /\ Patience(l) \in Nat /\ Longest(l) \in Nat
         /\ Patience(l) <= Longest(l) /\ UnattendedIdle <= Longest(l)
<1>1. Patience(l) = UnattendedIdle \/ Patience(l) = SessionIdle
  BY Zenon DEF Patience
<1> QED BY <1>1, IdleAssumption DEF Longest

\* The longest gets no shorter by what is played, nor by a request after a heartbeat.
LEMMA LongestGrows ==
  ASSUME NEW l \in Life, NEW m \in Life, m.beaten => l.beaten, l.played => m.played
  PROVE  Longest(l) <= Longest(m)
<1>1. CASE l.beaten \/ ~l.played
  <2>1. Patience(l) = UnattendedIdle
    BY <1>1, Zenon DEF Patience
  <2>2. Longest(l) = UnattendedIdle
    BY <2>1, IdleAssumption DEF Longest
  <2> QED BY <2>2, PatienceNat
<1>2. CASE ~(l.beaten \/ ~l.played)
  <2>1. Patience(l) = SessionIdle /\ Patience(m) = SessionIdle
    BY <1>2, Zenon DEF Patience
  <2> QED BY <2>1, IdleAssumption DEF Longest
<1> QED BY <1>1, <1>2

LEMMA GoneInNat ==
  ASSUME life \in [Sid -> Life], NEW s \in Sid
  PROVE  /\ GoneIn(s) \in Nat /\ Longest(life[s]) \in Nat /\ GoneIn(s) <= Longest(life[s])
         /\ IdleIn(s) \in Nat /\ IdleIn(s) <= GoneIn(s)
<1>1. life[s] \in Life /\ life[s].age \in Nat
  BY DEF Life
<1> QED BY <1>1, PatienceNat DEF GoneIn, IdleIn, Monus

\* A step of Admission keeps the times of who stays.
LEMMA FollowsTimely == Timely /\ Follows => Timely'
<1> SUFFICES ASSUME Timely, Follows PROVE Timely'
  OBVIOUS
<1>1. life' \in [Sid -> Life] /\ left' \in [Sid -> Nat]
  BY FreshLife DEF Timely, Follows
<1>2. ASSUME NEW s \in Sid
      PROVE  /\ phase'[s] # "published" => life'[s] = Fresh
             /\ life'[s].alarm <= GoneIn(s)' /\ life'[s].alarm <= left'[s]
  <2>1. CASE phase'[s] = "published"
    BY <2>1 DEF Timely, Follows, GoneIn
  <2>2. CASE phase'[s] # "published"
    <3>1. life'[s] = Fresh /\ life'[s].alarm = 0
      BY <2>2 DEF Follows, Fresh
    <3>2. GoneIn(s)' \in Nat /\ left'[s] \in Nat
      BY <1>1, <3>1, IdleAssumption DEF GoneIn, Monus, Longest, Patience, Fresh
    <3> QED BY <3>1, <3>2
  <2> QED BY <2>1, <2>2
<1> QED BY <1>1, <1>2 DEF Timely

\* One session's times change, and only its times.
LEMMA OneTimely ==
  ASSUME Timely, NEW s \in Sid, NEW l \in Life,
         life' = [life EXCEPT ![s] = l], left' = left, phase' = phase, phase[s] = "published",
         l.alarm <= Monus(Longest(l), l.age), l.alarm <= left[s]
  PROVE  Timely'
<1>1. life' \in [Sid -> Life] /\ life'[s] = l
  BY DEF Timely
<1>2. \A x \in Sid \ {s} : life'[x] = life[x]
  BY DEF Timely
<1> QED BY <1>1, <1>2 DEF Timely, GoneIn

LEMMA RequestsTimely ==
  ASSUME Timely, NEW s \in Sid, NEW b \in BOOLEAN, Touch(s, b) \/ Heartbeat(s) \/ Played(s) \/ Sleeps(s, b)
  PROVE  Timely'
<1>0. life[s] \in Life /\ left[s] \in Nat /\ life[s].alarm <= GoneIn(s) /\ life[s].alarm <= left[s]
  BY DEF Timely
<1>1. CASE Touch(s, b)
  <2> DEFINE l == After(life[s], FALSE, b)
  <2>1. l \in Life /\ l.age = 0 /\ l.alarm <= life[s].alarm /\ l.alarm \in Nat
    <3>1. PICK a \in Nat : a = (IF b THEN 0 ELSE life[s].alarm) /\ a <= life[s].alarm
      <4>1. CASE b
        BY <1>0, <4>1 DEF Life
      <4>2. CASE ~b
        BY <1>0, <4>2 DEF Life
      <4> QED BY <4>1, <4>2
    <3>2. l = [life[s] EXCEPT !.age = 0, !.beaten = FALSE, !.alarm = a]
      BY <3>1, Zenon DEF After
    <3> HIDE DEF l
    <3> QED BY <1>0, <3>1, <3>2 DEF Life
  <2>2. ~l.beaten /\ (life[s].played => l.played)
    <3>1. l.beaten = FALSE /\ l.played = life[s].played
      BY <1>0 DEF Life, After
    <3> HIDE DEF l
    <3> QED BY <3>1, Zenon
  <2>3. life' = [life EXCEPT ![s] = l] /\ left' = left /\ phase' = phase /\ phase[s] = "published"
    BY <1>1 DEF Touch, Live, vars, Timely
  <2> HIDE DEF l
  <2>4. Longest(life[s]) <= Longest(l) /\ Longest(l) \in Nat
    BY <1>0, <2>1, <2>2, LongestGrows, PatienceNat
  <2>5. l.alarm <= Monus(Longest(l), l.age)
    <3>1. GoneIn(s) <= Longest(life[s]) /\ GoneIn(s) \in Nat /\ Longest(life[s]) \in Nat
      BY GoneInNat DEF Timely
    <3> QED BY <1>0, <2>1, <2>4, <3>1 DEF Monus, Life
  <2>6. l.alarm <= left[s]
    BY <1>0, <2>1 DEF Life
  <2> QED BY <2>1, <2>3, <2>5, <2>6, OneTimely
<1>2. CASE Heartbeat(s)
  <2> DEFINE l == After(life[s], TRUE, TRUE)
  <2>1. l \in Life /\ l.age = 0 /\ l.alarm = 0
    BY <1>0 DEF Life, After
  <2>2. life' = [life EXCEPT ![s] = l] /\ left' = left /\ phase' = phase /\ phase[s] = "published"
    BY <1>2 DEF Heartbeat, Live, vars, Timely
  <2> HIDE DEF l
  <2>3. l.alarm <= Monus(Longest(l), l.age) /\ l.alarm <= left[s]
    BY <1>0, <2>1, PatienceNat DEF Monus
  <2> QED BY <2>1, <2>2, <2>3, OneTimely
<1>3. CASE Played(s)
  <2> DEFINE l == [life[s] EXCEPT !.played = TRUE]
  <2>1. l \in Life /\ l.age = life[s].age /\ l.alarm = life[s].alarm
    BY <1>0 DEF Life
  <2>2. (l.beaten => life[s].beaten) /\ l.played
    BY <1>0 DEF Life
  <2>3. life' = [life EXCEPT ![s] = l] /\ left' = left /\ phase' = phase /\ phase[s] = "published"
    BY <1>3 DEF Played, vars, Timely
  <2> HIDE DEF l
  <2>4. Longest(life[s]) <= Longest(l) /\ Longest(l) \in Nat /\ Longest(life[s]) \in Nat
    BY <1>0, <2>1, <2>2, LongestGrows, PatienceNat
  <2>5. l.alarm <= Monus(Longest(l), l.age) /\ l.alarm <= left[s]
    BY <1>0, <2>1, <2>4 DEF Monus, Life, GoneIn
  <2> QED BY <2>1, <2>3, <2>5, OneTimely
<1>4. CASE Sleeps(s, b)
  <2>1. PICK a \in Nat : /\ a <= GoneIn(s) /\ a <= left[s]
                         /\ life' = [life EXCEPT ![s] = [life[s] EXCEPT !.alarm = a]]
    <3>1. IdleIn(s) \in Nat /\ IdleIn(s) <= GoneIn(s) /\ GoneIn(s) \in Nat
      BY GoneInNat DEF Timely
    <3> DEFINE a == CASE b -> 1 [] ~b /\ IdleIn(s) <= left[s] -> IdleIn(s) [] OTHER -> left[s]
    <3>2. a \in Nat /\ a <= GoneIn(s) /\ a <= left[s]
      BY <1>0, <1>4, <3>1 DEF Sleeps
    <3>3. life' = [life EXCEPT ![s] = [life[s] EXCEPT !.alarm = a]]
      BY <1>4 DEF Sleeps, Timely
    <3> QED BY <3>2, <3>3
  <2> DEFINE l == [life[s] EXCEPT !.alarm = a]
  <2>2. l \in Life /\ l.alarm = a /\ l.age = life[s].age /\ Longest(l) = Longest(life[s])
    BY <1>0 DEF Life, Longest, Patience
  <2>3. l.alarm <= Monus(Longest(l), l.age)
    BY <2>1, <2>2 DEF GoneIn
  <2>4. left' = left /\ phase' = phase /\ phase[s] = "published"
    BY <1>4 DEF Sleeps, vars
  <2> HIDE DEF l
  <2> QED BY <2>1, <2>2, <2>3, <2>4, OneTimely DEF l
<1> QED BY <1>1, <1>2, <1>3, <1>4

LEMMA TickTimely == Timely /\ Tick => Timely'
<1> SUFFICES ASSUME Timely, Tick PROVE Timely'
  OBVIOUS
<1>1. phase' = phase
  BY DEF Tick, vars
<1>2. ASSUME NEW s \in Sid
      PROVE  /\ life'[s] \in Life /\ left'[s] \in Nat
             /\ phase'[s] # "published" => life'[s] = Fresh
             /\ life'[s].alarm <= GoneIn(s)' /\ life'[s].alarm <= left'[s]
  <2>0. life[s] \in Life /\ left[s] \in Nat /\ left'[s] = Monus(left[s], 1)
    BY DEF Timely, Tick
  <2>1. CASE phase[s] # "published"
    <3>1. life'[s] = Fresh /\ life'[s].alarm = 0
      BY <2>1, FreshLife DEF Tick, Timely
    <3>2. GoneIn(s)' \in Nat
      BY <3>1, IdleAssumption DEF GoneIn, Monus, Longest, Patience, Fresh
    <3> QED BY <1>1, <2>0, <2>1, <3>1, <3>2, FreshLife DEF Monus
  <2>2. CASE phase[s] = "published"
    <3>1. life'[s] = [life[s] EXCEPT !.age = life[s].age + 1, !.alarm = life[s].alarm - 1] /\ life[s].alarm > 0
      BY <2>2 DEF Tick, Sessions, In
    <3>6. life[s].age + 1 \in Nat /\ life[s].alarm - 1 \in Nat
      BY <2>0, <3>1 DEF Life
    <3>2. /\ life'[s] \in Life /\ life'[s].age = life[s].age + 1 /\ life'[s].alarm = life[s].alarm - 1
          /\ life'[s].beaten = life[s].beaten /\ life'[s].played = life[s].played
      BY <2>0, <3>1, <3>6 DEF Life
    <3>3. life[s].alarm <= GoneIn(s) /\ life[s].alarm <= left[s]
      BY DEF Timely
    <3>4. life'[s].alarm <= GoneIn(s)'
      BY <2>0, <3>1, <3>2, <3>3, IdleAssumption DEF GoneIn, Monus, Longest, Patience, Life
    <3>5. life'[s].alarm <= left'[s] /\ left'[s] \in Nat
      BY <2>0, <3>1, <3>2, <3>3 DEF Monus, Life
    <3> QED BY <1>1, <2>2, <3>2, <3>4, <3>5
  <2> QED BY <2>1, <2>2
<1>3. life' \in [Sid -> Life] /\ left' \in [Sid -> Nat]
  <2>1. life' = [s \in Sid |-> life'[s]] /\ left' = [s \in Sid |-> left'[s]]
    BY DEF Tick
  <2> QED BY <1>2, <2>1
<1> QED BY <1>2, <1>3 DEF Timely

LEMMA OpensTimely ==
  ASSUME Timely, NEW s \in Sid, NEW n \in Lives, Opens(s, n)
  PROVE  Timely'
<1>1. \A x \in Sid \ {s} : phase'[x] = phase[x] /\ life'[x] = life[x] /\ left'[x] = left[x]
  BY DEF Opens, Publish, Timely
<1>2. life'[s] = Fresh /\ left'[s] = n /\ n \in Nat
  BY LivesAssumption DEF Opens, Timely
<1>3. life' \in [Sid -> Life] /\ left' \in [Sid -> Nat]
  BY <1>2, FreshLife DEF Opens, Timely
<1>4. life'[s].alarm = 0 /\ GoneIn(s)' \in Nat
  BY <1>2, IdleAssumption DEF GoneIn, Monus, Longest, Patience, Fresh
<1>5. \A x \in Sid \ {s} : GoneIn(x)' = GoneIn(x)
  BY <1>1 DEF GoneIn
<1> QED BY <1>1, <1>2, <1>3, <1>4, <1>5 DEF Timely

LEMMA NextTimely == Timely /\ [LifeNext]_all_vars => Timely'
<1> SUFFICES ASSUME Timely, [LifeNext]_all_vars PROVE Timely'
  OBVIOUS
<1>1. CASE UNCHANGED all_vars
  BY <1>1 DEF all_vars, life_vars, vars, Timely, GoneIn
<1>2. ASSUME NEW s \in Sid, NEW n \in Lives, Opens(s, n) PROVE Timely'
  BY <1>2, OpensTimely
<1>3. ASSUME NEW s \in Sid, NEW b \in BOOLEAN, Touch(s, b) \/ Heartbeat(s) \/ Played(s) \/ Sleeps(s, b)
      PROVE Timely'
  BY <1>3, RequestsTimely
<1>4. CASE Tick
  BY <1>4, TickTimely
<1>5. CASE Follows
  BY <1>5, FollowsTimely
<1> QED BY <1>1, <1>2, <1>3, <1>4, <1>5
        DEF LifeNext, Fails, Cleans, Settles, GivesUp, TakesOverNow, Deletes, Ends, Kills

\* No supervisor of a published session sleeps past its URL's expiry or the instant the
\* session is idle, whatever requests, heartbeats and segments came in whatever order. Where
\* SESSION_IDLE_SECS is less than UNATTENDED_IDLE, it may sleep past the former, but not
\* past the latter, after the session was last heard of.
THEOREM SilenceEnds == LifeSpec => []InTime
<1>1. LifeInit => Timely
  <2> SUFFICES ASSUME LifeInit PROVE Timely
    OBVIOUS
  <2>1. life \in [Sid -> Life] /\ left \in [Sid -> Nat]
    BY FreshLife DEF LifeInit
  <2>2. \A s \in Sid : life[s] = Fresh /\ left[s] = 0 /\ life[s].alarm = 0
    BY DEF LifeInit, Fresh
  <2> QED BY <2>1, <2>2, GoneInNat DEF Timely
<1>2. Timely => InTime
  BY DEF Timely, InTime, Sessions, In
<1> QED BY <1>1, <1>2, NextTimely, PTL DEF LifeSpec
-----------------------------------------------------------------------------
\* No step takes two sessions to their end, so each finds its own tombstone's place.
LEMMA OneRemoved ==
  ASSUME TypeOK, [Next]_vars
  PROVE  \A s, t \in Removed : s = t
<1> DEFINE Only(x) == \A s \in Sid \ {x} : phase'[s] = "ending" => phase[s] = "ending"
<1>0. phase \in [Sid -> Phases]
  BY DEF TypeOK
<1>1. SUFFICES \E x : Only(x)
  BY DEF Removed
<1>2. ASSUME phase' = phase PROVE Only({})
  BY <1>2
<1>3. ASSUME NEW x, NEW p, phase' = [phase EXCEPT ![x] = p] PROVE Only(x)
  BY <1>0, <1>3
<1>4. ASSUME NEW s \in Sid, NEW r \in Sid \cup {None}, Reserve(s, r) PROVE Only({})
  BY <1>4 DEF Reserve
<1>5. ASSUME NEW s \in Sid, Abandon(s) \/ Publish(s) \/ EndSession(s, "request") \/ EndSession(s, "task")
                            \/ Ended(s) \/ CancelRequest(s) PROVE Only(s)
  BY <1>3, <1>5 DEF Abandon, Publish, EndSession, EndRemoved, Ended, CancelRequest, Over
<1>6. ASSUME NEW s \in Sid, CleanupNext(s) PROVE \E x : Only(x)
  BY <1>3, <1>6 DEF CleanupNext, EndRemoved
<1>7. ASSUME NEW s \in Sid, Served(s) PROVE \E x : Only(x)
  BY <1>2, <1>3, <1>7 DEF Served, EndRemoved
<1>8. ASSUME NEW s \in Sid, GraceOver(s) PROVE \E x : Only(x)
  BY <1>2, <1>3, <1>8 DEF GraceOver, EndRemoved
<1>9. ASSUME NEW o \in Grants, EndOwner(o) PROVE Only({})
  BY <1>2, <1>9 DEF EndOwner
<1>10. ASSUME NEW o \in Grants, EndOwnerNext(o) PROVE \E x : Only(x)
  BY <1>2, <1>3, <1>10 DEF EndOwnerNext, EndRemoved
<1>11. ASSUME UNCHANGED vars PROVE Only({})
  BY <1>2, <1>11 DEF vars
<1> HIDE DEF Only
<1> QED BY <1>4, <1>5, <1>6, <1>7, <1>8, <1>9, <1>10, <1>11 DEF Next

LEMMA BuriedFinite ==
  ASSUME IsFiniteSet(tombstones), [LifeNext]_all_vars
  PROVE  IsFiniteSet(tombstones')
<1>1. IsFiniteSet(Retained)
  BY FS_Subset DEF Retained
<1>2. ASSUME NEW s, Bury(s) PROVE IsFiniteSet(tombstones')
  BY <1>1, <1>2, FS_AddElement DEF Bury
<1>3. CASE Follows
  BY <1>2, <1>3 DEF Follows
<1>4. CASE tombstones' = tombstones
  BY <1>4
<1> QED BY <1>3, <1>4
        DEF LifeNext, Fails, Cleans, Settles, GivesUp, TakesOverNow, Deletes, Ends, Kills,
            Opens, Touch, Heartbeat, Played, Sleeps, Tick, all_vars, life_vars

\* Who is taken to its end by a step over time is buried by it.
LEMMA RemovedFollow == [LifeNext]_all_vars /\ TypeOK => Removed = {} \/ Follows
<1>1. ASSUME TypeOK, NEW s \in Sid, NEW n \in Lives, Opens(s, n) PROVE Removed = {}
  BY <1>1 DEF Opens, Publish, Removed, TypeOK
<1>2. ASSUME phase' = phase PROVE Removed = {}
  BY <1>2 DEF Removed
<1>3. ASSUME NEW s \in Sid, NEW b \in BOOLEAN, Touch(s, b) \/ Heartbeat(s) \/ Played(s) \/ Sleeps(s, b)
      PROVE phase' = phase
  BY <1>3 DEF Touch, Heartbeat, Played, Sleeps, vars
<1>4. ASSUME Tick \/ UNCHANGED all_vars PROVE phase' = phase
  BY <1>4 DEF Tick, all_vars, vars
<1> QED BY <1>1, <1>2, <1>3, <1>4
        DEF LifeNext, Fails, Cleans, Settles, GivesUp, TakesOverNow, Deletes, Ends, Kills

\* Every ended session is answered for until its URL expires, unless TOMBSTONES_MAX
\* others are.
THEOREM GoneSaid == LifeSpec => GoneIsSaid
<1> DEFINE Told == \A s \in Sid :
             /\ s \in Removed /\ left[s] > 0 =>
                  s \in tombstones' \/ Cardinality({t \in tombstones : left[t] > 0}) >= TombstonesMax
             /\ s \in tombstones /\ left[s] > 0 => s \in tombstones'
<1>1. LifeInit => IsFiniteSet(tombstones)
  BY FS_EmptySet DEF LifeInit
<1>2. IsFiniteSet(tombstones) /\ [LifeNext]_all_vars => IsFiniteSet(tombstones)'
  BY BuriedFinite
<1>3. ASSUME IsFiniteSet(tombstones), TypeOK, [LifeNext]_all_vars PROVE Told
  <2>1. Cardinality(Retained) \in Nat
    BY <1>3, FS_Subset, FS_CardinalityType DEF Retained
  <2>2. CASE Removed = {} /\ tombstones' = tombstones
    BY <2>2
  <2>3. CASE Follows
    <3>1. \A s, t \in Removed : s = t
      BY <1>3, LifeStep, OneRemoved
    <3>2. ASSUME NEW s \in Removed, Bury(s) PROVE Told
      <4>1. Retained \subseteq tombstones'
        BY <3>2 DEF Bury
      <4>2. s \in tombstones' \/ Cardinality(Retained) >= TombstonesMax
        BY <2>1, <3>2, LivesAssumption DEF Bury
      <4> QED BY <3>1, <3>2, <4>1, <4>2 DEF Retained
    <3> QED BY <2>2, <2>3, <3>2 DEF Follows
  <2>4. Removed = {} /\ ~Follows => tombstones' = tombstones
    BY <1>3 DEF LifeNext, Fails, Cleans, Settles, GivesUp, TakesOverNow, Deletes, Ends, Kills,
                Opens, Touch, Heartbeat, Played, Sleeps, Tick, all_vars, life_vars
  <2> QED BY <1>3, <2>2, <2>3, <2>4, RemovedFollow
<1>4. LifeSpec => []TypeOK
  BY ImplementsAdmission, TypeCorrect, PTL
<1>5. [Told]_all_vars <=> [\A s \in Sid :
             /\ s \in Removed /\ left[s] > 0 =>
                  s \in tombstones' \/ Cardinality({t \in tombstones : left[t] > 0}) >= TombstonesMax
             /\ s \in tombstones /\ left[s] > 0 => s \in tombstones']_all_vars
  OBVIOUS
<1> HIDE DEF Told
<1> QED BY <1>1, <1>2, <1>3, <1>4, <1>5, PTL DEF LifeSpec, GoneIsSaid
===============================================================================
