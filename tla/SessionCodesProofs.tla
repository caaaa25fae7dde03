------------------------- MODULE SessionCodesProofs -------------------------
(***************************************************************************)
(* Theorems about SessionCodes, for every set of codes, devices and end    *)
(* requests, every lifetime of a code and every number of faults.          *)
(***************************************************************************)
EXTENDS SessionCodes, TLAPS

-----------------------------------------------------------------------------
(* The inductive invariant *)

\* A rotation knows both of its codes from PollGet to its last SET.
Rotating == {"poll_update", "poll_commit", "poll_set_code", "poll_set_prev"}
Rotated  == {"poll_set_code", "poll_set_prev", "shown"}

\* The codes that requests hold are codes: what they store is a well formed key.
Held ==
  /\ codeKey.code = NoCode => codeKey = Gone
  /\ phase # "unstarted" => dbCode \in Codes
  /\ pc[Starter] = "start_code" => initial \in Codes
  /\ \A p \in Pollers :
       /\ pc[p] \in Rotating \cup {"poll_get"} => old[p] \in Codes
       /\ pc[p] \in Rotating \cup Rotated => new[p] \in Codes
  /\ \A e \in Enders :
       pc[e] \in {"end_update", "end_commit"} => phase # "unstarted"

TypeInv == TypeOK /\ Held

\* Where the codes are that have been committed.
Committed ==
  /\ phase # "unstarted" => dbCode \in issued
  /\ pc[Starter] = "start_code" => initial \in issued
  /\ \A p \in Pollers :
       /\ pc[p] \in Rotating \cup {"poll_get"} => old[p] \in issued
       /\ pc[p] \in Rotated => new[p] \in issued

\* A code that the keys of Redis hold has been the live one, and so has one
\* that a device has stored, as long as nothing failed.
WasLive ==
  /\ faults = 0 => redisUp
  /\ codeKey.code # NoCode => idleFor[codeKey.code] # Never
  /\ \A p \in Pollers :
       pc[p] \in {"poll_set_prev", "shown"} /\ faults = 0 => idleFor[new[p]] # Never

CodesInv == TypeInv /\ Committed /\ CodesAreCommitted /\ WasLive

\* Nothing is committed, stored or shown yet.
LEMMA InitCodesInv == Init => CodesInv
<1> SUFFICES ASSUME Init PROVE CodesInv
  OBVIOUS
<1>1. Gone \in Key /\ Never \in 0..Never /\ 0 \in 0..MaxFaults
  BY TTLAssumption DEF Gone, Key, Never
<1>2. TypeInv
  BY <1>1, ProcessesAssumption
  DEF Init, TypeInv, TypeOK, Held, Steps, Rotating, Rotated, Processes
<1>3. Committed /\ CodesAreCommitted /\ WasLive
  BY ProcessesAssumption
  DEF Init, Committed, CodesAreCommitted, WasLive, Gone, Rotating, Rotated, Processes
<1> QED BY <1>2, <1>3 DEF CodesInv
-----------------------------------------------------------------------------
(* The keys and the history of codes *)

\* A SET stores a well formed key, and the code it stores is the live one.
LEMMA StoreKey ==
  ASSUME TypeOK, NEW key \in Key, NEW c \in Codes
  PROVE  /\ Store(key, c) \in Key
         /\ Store(key, c).code \in {key.code, c}
         /\ redisUp => Store(key, c).code = c
         /\ ~redisUp => Store(key, c) = key
         /\ Live(c) \in [Codes -> 0..Never]
         /\ \A d \in Codes : idleFor[d] # Never => Live(c)[d] # Never
         /\ redisUp => Live(c)[c] # Never
BY TTLAssumption DEF TypeOK, Store, Fresh, Key, Live, Never

\* A tick of the clock makes a key older or removes it.
LEMMA OlderKey ==
  ASSUME NEW key \in Key
  PROVE  /\ Older(key) \in Key
         /\ Older(key).code \in {key.code, NoCode}
         /\ Older(key) = Gone \/ Older(key).code = key.code
         /\ key = Gone => Older(key) = Gone
BY TTLAssumption DEF Key, Older, Gone
-----------------------------------------------------------------------------
(* One lemma per handler *)

\* StartSession.
LEMMA StartStep ==
  ASSUME CodesInv, StartCommit \/ StartCode
  PROVE  CodesInv'
<1> USE ProcessesAssumption
    DEF CodesInv, TypeInv, TypeOK, Held, Committed, CodesAreCommitted, WasLive, Goto,
        Rotating, Rotated, Processes, redis, rotation, history
<1>1. CASE StartCommit
  BY <1>1 DEF StartCommit, Steps
<1>2. CASE StartCode
  <2>1. initial \in Codes
    BY <1>2 DEF StartCode
  <2>2. /\ codeKey' \in Key
        /\ codeKey'.code \in {codeKey.code, initial}
        /\ redisUp => codeKey'.code = initial
        /\ ~redisUp => codeKey' = codeKey
        /\ idleFor' \in [Codes -> 0..Never]
        /\ \A d \in Codes : idleFor[d] # Never => idleFor'[d] # Never
        /\ redisUp => idleFor'[initial] # Never
    BY <1>2, <2>1, StoreKey DEF StartCode
  <2> QED BY <1>2, <2>1, <2>2, CodesAssumption DEF StartCode, Steps, Key
<1> QED BY <1>1, <1>2

\* GetOrRotateCode.
LEMMA PollStep ==
  ASSUME CodesInv, NEW p \in Pollers, Poll(p)
  PROVE  CodesInv'
<1> USE ProcessesAssumption
    DEF CodesInv, TypeInv, TypeOK, Held, Committed, CodesAreCommitted, WasLive, Goto,
        Rotating, Rotated, Processes, redis, rotation, history
<1>1. CASE PollSelect(p)
  BY <1>1 DEF PollSelect, Steps
<1>2. CASE PollGet(p)
  BY <1>2 DEF PollGet, Steps, Key
<1>3. CASE PollUpdate(p)
  BY <1>3 DEF PollUpdate, Steps
<1>4. CASE PollCommit(p)
  BY <1>4 DEF PollCommit, Steps
<1>5. CASE PollSetCode(p)
  <2>1. new[p] \in Codes
    BY <1>5 DEF PollSetCode
  <2>2. /\ codeKey' \in Key
        /\ codeKey'.code \in {codeKey.code, new[p]}
        /\ redisUp => codeKey'.code = new[p]
        /\ ~redisUp => codeKey' = codeKey
        /\ idleFor' \in [Codes -> 0..Never]
        /\ \A d \in Codes : idleFor[d] # Never => idleFor'[d] # Never
        /\ redisUp => idleFor'[new[p]] # Never
    BY <1>5, <2>1, StoreKey DEF PollSetCode
  <2> QED BY <1>5, <2>1, <2>2, CodesAssumption DEF PollSetCode, Steps, Key
<1>6. CASE PollSetPrev(p)
  <2>1. old[p] \in Codes
    BY <1>6 DEF PollSetPrev
  <2>2. prevKey' \in Key /\ prevKey'.code \in {prevKey.code, old[p]}
    BY <1>6, <2>1, StoreKey DEF PollSetPrev
  <2> QED BY <1>6, <2>1, <2>2 DEF PollSetPrev, Steps
<1> QED BY <1>1, <1>2, <1>3, <1>4, <1>5, <1>6 DEF Poll

\* EndSession.
LEMMA EndStep ==
  ASSUME CodesInv, NEW e \in Enders, End(e)
  PROVE  CodesInv'
<1> USE ProcessesAssumption
    DEF CodesInv, TypeInv, TypeOK, Held, Committed, CodesAreCommitted, WasLive, Goto,
        Rotating, Rotated, Processes, redis, rotation, history
<1>1. CASE EndSelect(e)
  BY <1>1 DEF EndSelect, Steps
<1>2. CASE EndUpdate(e)
  BY <1>2 DEF EndUpdate, Steps
<1>3. CASE EndCommit(e)
  BY <1>3 DEF EndCommit, Steps
<1>4. CASE EndDel(e)
  BY <1>4, TTLAssumption DEF EndDel, Steps, Gone, Key
<1> QED BY <1>1, <1>2, <1>3, <1>4 DEF End

\* The clock, Redis outages, and failing requests.
LEMMA OtherStep ==
  ASSUME CodesInv,
         Tick \/ RedisDown \/ RedisBack \/ \E p \in Processes : Fail(p)
  PROVE  CodesInv'
<1> USE ProcessesAssumption, TTLAssumption
    DEF CodesInv, TypeInv, TypeOK, Held, Committed, CodesAreCommitted, WasLive, Goto,
        Rotating, Rotated, Processes, redis, rotation, history
<1>1. CASE Tick
  <2>1. /\ codeKey' \in Key /\ prevKey' \in Key
        /\ codeKey' = Gone \/ codeKey'.code = codeKey.code
        /\ codeKey = Gone => codeKey' = Gone
        /\ prevKey' = Gone \/ prevKey'.code = prevKey.code
    BY <1>1, OlderKey DEF Tick
  <2>2. idleFor' \in [Codes -> 0..Never]
    BY <1>1 DEF Tick, Never
  <2>3. \A c \in Codes : idleFor[c] # Never => idleFor'[c] # Never
    BY <1>1 DEF Tick, Never
  <2> QED BY <1>1, <2>1, <2>2, <2>3 DEF Tick, Gone, Key
<1>2. CASE RedisDown
  <2>1. faults' \in 0..MaxFaults /\ faults' # 0
    BY <1>2 DEF RedisDown, Fault
  <2> QED BY <1>2, <2>1 DEF RedisDown
<1>3. CASE RedisBack
  BY <1>3 DEF RedisBack, Gone, Key
<1>4. CASE \E p \in Processes : Fail(p)
  <2>1. PICK p \in Processes : Fail(p)
    BY <1>4
  <2>2. faults' \in 0..MaxFaults /\ faults' # 0
    BY <2>1 DEF Fail, Fault
  <2> QED BY <2>1, <2>2 DEF Fail, Steps
<1> QED BY <1>1, <1>2, <1>3, <1>4

\* The inductive step.
LEMMA NextCodesInv == CodesInv /\ [Next]_vars => CodesInv'
<1> SUFFICES ASSUME CodesInv, [Next]_vars PROVE CodesInv'
  OBVIOUS
<1>1. CASE UNCHANGED vars
  BY <1>1 DEF vars, redis, rotation, history, CodesInv, TypeInv, TypeOK, Held, Committed,
       CodesAreCommitted, WasLive
<1>2. CASE Next
  BY <1>2, StartStep, PollStep, EndStep, OtherStep DEF Next
<1> QED BY <1>1, <1>2
-----------------------------------------------------------------------------
(* The theorems *)

\* The keys, the row and the requests keep their shape: whatever a rotation
\* stores, whenever it is interrupted, is a code with a lifetime of at most TTL.
THEOREM TypeCorrect == Spec => []TypeOK
<1>1. CodesInv => TypeOK
  BY DEF CodesInv, TypeInv
<1> QED BY InitCodesInv, NextCodesInv, <1>1, PTL DEF Spec

\* No code reaches Redis or a teacher's screen before its transaction commits.
THEOREM CodesCommitted == Spec => []CodesAreCommitted
<1>1. CodesInv => CodesAreCommitted
  BY DEF CodesInv
<1> QED BY InitCodesInv, NextCodesInv, <1>1, PTL DEF Spec

\* Without faults a shown code has been the live one, however many devices poll.
THEOREM ShownLive == Spec => []ShownWasLive
<1>1. CodesInv => ShownWasLive
  BY DEF CodesInv, WasLive, ShownWasLive
<1> QED BY InitCodesInv, NextCodesInv, <1>1, PTL DEF Spec
-----------------------------------------------------------------------------
(* The row lock *)

\* The row of the session is updated by one transaction at a time, and who has
\* updated it has only the commit left: it waits for nobody.
RowLockIsBrief ==
  /\ rowLock \subseteq Pollers \cup Enders
  /\ \A p, q \in rowLock : p = q
  /\ \A p \in rowLock : pc[p] = IF p \in Pollers THEN "poll_commit" ELSE "end_commit"

\* A device's request.
LEMMA PollLocks ==
  ASSUME TypeOK, RowLockIsBrief, NEW p \in Pollers, Poll(p)
  PROVE  RowLockIsBrief'
<1> USE ProcessesAssumption DEF RowLockIsBrief, TypeOK, Goto, Processes
<1>1. CASE p \in rowLock
  BY <1>1 DEF Poll, PollSelect, PollGet, PollUpdate, PollCommit, PollSetCode, PollSetPrev
<1>2. CASE p \notin rowLock
  <2>1. CASE PollUpdate(p)
    BY <1>2, <2>1 DEF PollUpdate, Locked
  <2>2. CASE ~PollUpdate(p)
    <3>1. rowLock' = rowLock
      <4>1. rowLock \ {p} = rowLock
        BY <1>2
      <4> QED BY <4>1, <2>2 DEF Poll, PollSelect, PollGet, PollCommit, PollSetCode, PollSetPrev
    <3>2. \A q \in rowLock : pc'[q] = pc[q]
      BY <1>2, <2>2 DEF Poll, PollSelect, PollGet, PollCommit, PollSetCode, PollSetPrev
    <3> QED BY <3>1, <3>2
  <2> QED BY <2>1, <2>2
<1> QED BY <1>1, <1>2

\* A request to end the session.
LEMMA EndLocks ==
  ASSUME TypeOK, RowLockIsBrief, NEW e \in Enders, End(e)
  PROVE  RowLockIsBrief'
<1> USE ProcessesAssumption DEF RowLockIsBrief, TypeOK, Goto, Processes
<1>1. CASE e \in rowLock
  BY <1>1 DEF End, EndSelect, EndUpdate, EndCommit, EndDel
<1>2. CASE e \notin rowLock
  <2>1. CASE EndUpdate(e)
    BY <1>2, <2>1 DEF EndUpdate, Locked
  <2>2. CASE ~EndUpdate(e)
    <3>1. rowLock' = rowLock
      <4>1. rowLock \ {e} = rowLock
        BY <1>2
      <4> QED BY <4>1, <2>2 DEF End, EndSelect, EndCommit, EndDel
    <3>2. \A q \in rowLock : pc'[q] = pc[q]
      BY <1>2, <2>2 DEF End, EndSelect, EndCommit, EndDel
    <3> QED BY <3>1, <3>2
  <2> QED BY <2>1, <2>2
<1> QED BY <1>1, <1>2

\* The inductive step.
LEMMA NextLocks == TypeOK /\ RowLockIsBrief /\ [Next]_vars => RowLockIsBrief'
<1> SUFFICES ASSUME TypeOK, RowLockIsBrief, [Next]_vars PROVE RowLockIsBrief'
  OBVIOUS
<1>1. CASE UNCHANGED <<rowLock, pc>>
  BY <1>1 DEF RowLockIsBrief
<1>2. CASE StartCommit \/ StartCode
  BY <1>2, ProcessesAssumption
  DEF StartCommit, StartCode, RowLockIsBrief, TypeOK, Goto, Processes
<1>3. ASSUME NEW p \in Processes, Fail(p) PROVE RowLockIsBrief'
  <2>1. rowLock' = rowLock \ {p} /\ \A q \in Processes \ {p} : pc'[q] = pc[q]
    BY <1>3 DEF Fail, Goto, TypeOK
  <2> QED BY <2>1, ProcessesAssumption DEF RowLockIsBrief, TypeOK, Processes
<1>4. CASE Tick \/ RedisDown \/ RedisBack
  BY <1>4, <1>1 DEF Tick, RedisDown, RedisBack
<1> QED BY <1>1, <1>2, <1>3, <1>4, PollLocks, EndLocks DEF Next, vars

\* However many devices rotate while sessions are being ended, and whatever
\* fails, at most one of them holds the row, and it is about to commit.
THEOREM RowLockBrief == Spec => []RowLockIsBrief
<1>1. Init => RowLockIsBrief
  BY DEF Init, RowLockIsBrief
<1>2. CodesInv => TypeOK
  BY DEF CodesInv, TypeInv
<1> QED BY <1>1, <1>2, NextLocks, InitCodesInv, NextCodesInv, PTL DEF Spec
-----------------------------------------------------------------------------
(* How far a request is from its answer *)

\* The statements that a request has still to run.
Left(p) ==
  CASE pc[p] = "poll_get"      -> 5
    [] pc[p] = "poll_update"   -> 4
    [] pc[p] = "poll_commit"   -> 3
    [] pc[p] = "poll_set_code" -> 2
    [] pc[p] = "poll_set_prev" -> 1
    [] pc[p] = "end_update"    -> 3
    [] pc[p] = "end_commit"    -> 2
    [] pc[p] = "end_del"       -> 1
    [] OTHER                   -> 0

\* Every step of a request under way is one statement less; nothing that the
\* others do, no fault and no outage adds one.
AnswersComeNearer ==
  [][\A p \in Pollers \cup Enders :
       pc[p] \notin Answered =>
         /\ Left(p)' <= Left(p)
         /\ (p \in Pollers /\ Poll(p)) \/ (p \in Enders /\ End(p)) => Left(p)' < Left(p)]_vars

\* A poll is answered after at most five statements of its own and an end after
\* three, whatever the other requests and Redis do.
THEOREM AnswersGetNearer == Spec => AnswersComeNearer
<1> DEFINE Nearer ==
      \A p \in Pollers \cup Enders :
        pc[p] \notin Answered =>
          /\ Left(p)' <= Left(p)
          /\ (p \in Pollers /\ Poll(p)) \/ (p \in Enders /\ End(p)) => Left(p)' < Left(p)
<1>1. TypeOK /\ [Next]_vars => [Nearer]_vars
  <2> SUFFICES ASSUME TypeOK, Next, NEW p \in Pollers \cup Enders, pc[p] \notin Answered
               PROVE  /\ Left(p)' <= Left(p)
                      /\ (p \in Pollers /\ Poll(p)) \/ (p \in Enders /\ End(p)) =>
                           Left(p)' < Left(p)
    OBVIOUS
  <2> USE ProcessesAssumption DEF TypeOK, Goto, Left, Answered, Processes
  <2>1. CASE p \in Pollers /\ Poll(p)
    BY <2>1 DEF Poll, PollSelect, PollGet, PollUpdate, PollCommit, PollSetCode, PollSetPrev
  <2>2. CASE p \in Enders /\ End(p)
    BY <2>2 DEF End, EndSelect, EndUpdate, EndCommit, EndDel
  <2>3. ASSUME ~(p \in Pollers /\ Poll(p)), ~(p \in Enders /\ End(p)), ~Fail(p)
        PROVE  pc'[p] = pc[p]
    <3>1. CASE StartCommit \/ StartCode \/ Tick \/ RedisDown \/ RedisBack
      BY <3>1 DEF StartCommit, StartCode, Tick, RedisDown, RedisBack
    <3>2. ASSUME NEW q \in Pollers \ {p}, Poll(q) PROVE pc'[p] = pc[p]
      BY <3>2 DEF Poll, PollSelect, PollGet, PollUpdate, PollCommit, PollSetCode, PollSetPrev
    <3>3. ASSUME NEW q \in Enders \ {p}, End(q) PROVE pc'[p] = pc[p]
      BY <3>3 DEF End, EndSelect, EndUpdate, EndCommit, EndDel
    <3>4. ASSUME NEW q \in Processes \ {p}, Fail(q) PROVE pc'[p] = pc[p]
      BY <3>4 DEF Fail
    <3> QED BY <2>3, <3>1, <3>2, <3>3, <3>4 DEF Next
  <2>4. CASE Fail(p)
    <3>1. Left(p)' = 0
      BY <2>4 DEF Fail
    <3>2. ~(p \in Pollers /\ Poll(p)) /\ ~(p \in Enders /\ End(p))
      BY <2>4 DEF Fail, Fault, Poll, PollSelect, PollGet, PollUpdate, PollCommit, PollSetCode,
                  PollSetPrev, End, EndSelect, EndUpdate, EndCommit, EndDel
    <3> QED BY <3>1, <3>2
  <2> QED BY <2>1, <2>2, <2>3, <2>4
<1>2. CodesInv => TypeOK
  BY DEF CodesInv, TypeInv
<1> QED BY <1>1, <1>2, InitCodesInv, NextCodesInv, PTL DEF Spec, AnswersComeNearer
-----------------------------------------------------------------------------
(* The codes of an ended session *)

\* Every key that Redis holds has a lifetime that is running.
Expiring(key) == key = Gone \/ key \in [code : Codes, left : 1..TTL]

KeysExpire == Expiring(codeKey) /\ Expiring(prevKey)

\* What may still store a code: a rotation that read the session as active and
\* has not finished, and the first SET of the session.
MayStore ==
  {p \in Pollers : pc[p] \in Rotating \cup {"poll_get"}} \cup
  {p \in {Starter} : pc[p] = "start_code"}

\* A key never changes but to be older, or gone.
Fades(key, next) ==
  next \in {key, Gone} \/ (next.code = key.code /\ next.left < key.left)

\* An ended session stays ended and nothing joins those that may still store a
\* code.  When they are through, the keys only age, and the clock ages them.
OldCodesFade ==
  [][phase = "ended" =>
       /\ phase' = "ended"
       /\ MayStore' \subseteq MayStore
       /\ MayStore = {} =>
            /\ Fades(codeKey, codeKey') /\ Fades(prevKey, prevKey')
            /\ Tick => /\ codeKey = Gone \/ codeKey' # codeKey
                       /\ prevKey = Gone \/ prevKey' # prevKey]_vars

\* A SET gives a key a lifetime; a tick takes from it, or removes the key.
LEMMA KeysAge ==
  ASSUME NEW key, Expiring(key)
  PROVE  /\ \A c \in Codes : Expiring(Store(key, c))
         /\ Expiring(Older(key)) /\ Fades(key, Older(key))
         /\ key = Gone \/ Older(key) # key
<1>1. \A c \in Codes : Expiring(Store(key, c))
  BY TTLAssumption DEF Expiring, Store, Fresh
<1>2. CASE key = Gone
  <2>1. Older(key) = key
    BY <1>2 DEF Older, Gone
  <2> QED BY <1>1, <1>2, <2>1 DEF Expiring, Fades
<1>3. CASE key \in [code : Codes, left : 1..TTL] /\ key.left = 1
  <2>1. Older(key) = Gone
    BY <1>3 DEF Older
  <2> QED BY <1>1, <1>3, <2>1 DEF Expiring, Fades, Gone
<1>4. CASE key \in [code : Codes, left : 1..TTL] /\ key.left # 1
  <2>1. Older(key) = [key EXCEPT !.left = @ - 1]
    BY <1>4 DEF Older
  <2> QED BY <1>1, <1>4, <2>1, TTLAssumption DEF Expiring, Fades
<1> QED BY <1>2, <1>3, <1>4 DEF Expiring
\* Every step keeps the lifetimes running.
LEMMA NextKeys == CodesInv /\ KeysExpire /\ [Next]_vars => KeysExpire'
<1> SUFFICES ASSUME CodesInv, KeysExpire, [Next]_vars PROVE KeysExpire'
  OBVIOUS
<1> USE DEF KeysExpire, CodesInv, TypeInv, Held
<1>1. CASE UNCHANGED redis
  BY <1>1 DEF redis, Expiring
<1>2. CASE StartCode
  BY <1>2, KeysAge DEF StartCode, Expiring
<1>3. ASSUME NEW p \in Pollers, PollSetCode(p) \/ PollSetPrev(p) PROVE KeysExpire'
  <2>1. new[p] \in Codes /\ old[p] \in Codes
    BY <1>3 DEF PollSetCode, PollSetPrev, Rotating, Rotated
  <2>2. CASE PollSetCode(p)
    BY <2>1, <2>2, KeysAge DEF PollSetCode, Expiring
  <2>3. CASE PollSetPrev(p)
    BY <2>1, <2>3, KeysAge DEF PollSetPrev, Expiring
  <2> QED BY <1>3, <2>2, <2>3
<1>4. ASSUME NEW e \in Enders, EndDel(e) PROVE KeysExpire'
  BY <1>4 DEF EndDel, Expiring
<1>5. CASE Tick
  BY <1>5, KeysAge DEF Tick
<1>6. CASE RedisBack
  BY <1>6 DEF RedisBack, redis, Expiring
<1>7. CASE StartCommit \/ RedisDown \/ \E p \in Processes : Fail(p)
  BY <1>1, <1>7 DEF StartCommit, RedisDown, Fail
<1>8. ASSUME NEW p \in Pollers, Poll(p), ~PollSetCode(p), ~PollSetPrev(p)
      PROVE  UNCHANGED redis
  BY <1>8 DEF Poll, PollSelect, PollGet, PollUpdate, PollCommit
<1>9. ASSUME NEW e \in Enders, End(e), ~EndDel(e) PROVE UNCHANGED redis
  BY <1>9 DEF End, EndSelect, EndUpdate, EndCommit
<1> QED BY <1>1, <1>2, <1>3, <1>4, <1>5, <1>6, <1>7, <1>8, <1>9 DEF Next, vars

\* What may still store a code, after a step in an ended session.
LEMMA NobodyJoins ==
  ASSUME TypeOK, Next, phase = "ended",
         phase = "ended" => pc[Starter] # "idle"
  PROVE  phase' = "ended" /\ MayStore' \subseteq MayStore
<1> USE ProcessesAssumption DEF TypeOK, MayStore, Rotating, Goto, Processes
<1>1. CASE StartCommit \/ StartCode
  BY <1>1 DEF StartCommit, StartCode
<1>2. ASSUME NEW p \in Pollers, Poll(p)
      PROVE  phase' = "ended" /\ MayStore' \subseteq MayStore
  BY <1>2 DEF Poll, PollSelect, PollGet, PollUpdate, PollCommit, PollSetCode, PollSetPrev
<1>3. ASSUME NEW e \in Enders, End(e)
      PROVE  phase' = "ended" /\ MayStore' \subseteq MayStore
  BY <1>3 DEF End, EndSelect, EndUpdate, EndCommit, EndDel
<1>4. ASSUME NEW p \in Processes, Fail(p)
      PROVE  phase' = "ended" /\ MayStore' \subseteq MayStore
  BY <1>4 DEF Fail
<1>5. CASE Tick \/ RedisDown \/ RedisBack
  BY <1>5 DEF Tick, RedisDown, RedisBack
<1> QED BY <1>1, <1>2, <1>3, <1>4, <1>5 DEF Next

\* When nothing may store a code any more the keys fade.
LEMMA KeysFade ==
  ASSUME KeysExpire, Next, MayStore = {}
  PROVE  /\ Fades(codeKey, codeKey') /\ Fades(prevKey, prevKey')
         /\ Tick => /\ codeKey = Gone \/ codeKey' # codeKey
                    /\ prevKey = Gone \/ prevKey' # prevKey
<1>1. CASE Tick
  BY <1>1, KeysAge DEF Tick, KeysExpire
<1>2. ASSUME codeKey' \in {codeKey, Gone}, prevKey' \in {prevKey, Gone}, ~Tick
      PROVE  /\ Fades(codeKey, codeKey') /\ Fades(prevKey, prevKey')
             /\ Tick => /\ codeKey = Gone \/ codeKey' # codeKey
                        /\ prevKey = Gone \/ prevKey' # prevKey
  BY <1>2 DEF Fades
<1>3. ~StartCode /\ \A p \in Pollers : ~PollSetCode(p) /\ ~PollSetPrev(p)
  BY DEF MayStore, Rotating, StartCode, PollSetCode, PollSetPrev
<1>4. CASE StartCommit \/ RedisDown \/ RedisBack \/ \E p \in Processes : Fail(p)
  BY <1>1, <1>2, <1>4 DEF StartCommit, RedisDown, RedisBack, Fail, redis
<1>5. ASSUME NEW p \in Pollers, Poll(p) PROVE codeKey' = codeKey /\ prevKey' = prevKey
  BY <1>3, <1>5 DEF Poll, PollSelect, PollGet, PollUpdate, PollCommit, redis
<1>6. ASSUME NEW e \in Enders, End(e)
      PROVE  codeKey' \in {codeKey, Gone} /\ prevKey' \in {prevKey, Gone}
  BY <1>6 DEF End, EndSelect, EndUpdate, EndCommit, EndDel, redis
<1> QED BY <1>1, <1>2, <1>3, <1>4, <1>5, <1>6 DEF Next

\* No key is ever left in Redis without an expiry.
THEOREM KeysAlwaysExpire == Spec => []KeysExpire
<1>1. Init => KeysExpire
  BY DEF Init, KeysExpire, Expiring
<1> QED BY <1>1, NextKeys, InitCodesInv, NextCodesInv, PTL DEF Spec

\* A session starts once.
StartedOnce == phase # "unstarted" => pc[Starter] # "idle"

LEMMA NextStarted == TypeInv /\ StartedOnce /\ [Next]_vars => StartedOnce'
<1> SUFFICES ASSUME TypeInv, StartedOnce, [Next]_vars PROVE StartedOnce'
  OBVIOUS
<1> USE ProcessesAssumption DEF StartedOnce, TypeInv, TypeOK, Held, Goto, Processes
<1>1. CASE StartCommit \/ StartCode
  BY <1>1 DEF StartCommit, StartCode
<1>2. ASSUME NEW p \in Pollers, Poll(p) PROVE StartedOnce'
  BY <1>2 DEF Poll, PollSelect, PollGet, PollUpdate, PollCommit, PollSetCode, PollSetPrev
<1>3. ASSUME NEW e \in Enders, End(e) PROVE StartedOnce'
  BY <1>3 DEF End, EndSelect, EndUpdate, EndCommit, EndDel
<1>4. ASSUME NEW p \in Processes, Fail(p) PROVE StartedOnce'
  BY <1>4 DEF Fail
<1>5. CASE Tick \/ RedisDown \/ RedisBack \/ UNCHANGED vars
  BY <1>5 DEF Tick, RedisDown, RedisBack, vars
<1> QED BY <1>1, <1>2, <1>3, <1>4, <1>5 DEF Next

\* The codes of an ended session fade: rotations that were under way may store
\* theirs once more, but none joins them, and what they leave only expires.
THEOREM OldCodesAreFading == Spec => OldCodesFade
<1> DEFINE Fading ==
      phase = "ended" =>
        /\ phase' = "ended"
        /\ MayStore' \subseteq MayStore
        /\ MayStore = {} =>
             /\ Fades(codeKey, codeKey') /\ Fades(prevKey, prevKey')
             /\ Tick => /\ codeKey = Gone \/ codeKey' # codeKey
                        /\ prevKey = Gone \/ prevKey' # prevKey
<1>1. TypeOK /\ KeysExpire /\ StartedOnce /\ [Next]_vars => [Fading]_vars
  BY NobodyJoins, KeysFade DEF StartedOnce
<1>2. Init => StartedOnce
  BY DEF Init, StartedOnce
<1>3. CodesInv => TypeInv /\ TypeOK
  BY DEF CodesInv, TypeInv
<1> QED BY <1>1, <1>2, <1>3, NextStarted, KeysAlwaysExpire, InitCodesInv, NextCodesInv, PTL
        DEF Spec, OldCodesFade
=============================================================================
