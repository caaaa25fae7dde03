---------------------------- MODULE SessionCodes ----------------------------
(***************************************************************************)
(* The rotating code of one class session: StartSession, GetOrRotateCode   *)
(* and EndSession (server/internal/session/service.go), and what they      *)
(* leave for SubmitCheckin to compare a code with (server/internal/        *)
(* verification/service.go), over PostgreSQL, Redis and a clock.           *)
(*                                                                         *)
(* The code lives twice: in class_sessions.current_code, under a row lock, *)
(* and in two Redis keys that expire.  Nothing makes the two writes one.   *)
(*                                                                         *)
(* Pollers are the teacher's devices: each polls for as long as the        *)
(* session screen is open (teacher_app/lib/providers/session_provider.dart) *)
(* and runs one request at a time.  Enders are requests to end the         *)
(* session; the absences EndSession records are in ClassAttendance.        *)
(***************************************************************************)
EXTENDS Naturals, FiniteSets

CONSTANTS Codes,      \* six-digit codes
          Pollers,    \* devices that poll GET /teacher/sessions/{id}/code
          Enders,     \* POST /teacher/sessions/{id}/end requests
          Starter,    \* the POST that starts the session
          TTL,        \* ten seconds, in ticks of the clock
          MaxFaults,  \* bound: failed statements, crashes and Redis outages
          MaxIdle,    \* bound: where the history idleFor stops counting
          NoCode

ASSUME CodesAssumption == IsFiniteSet(Codes) /\ Cardinality(Codes) > 1 /\ NoCode \notin Codes
ASSUME TTLAssumption   == TTL \in Nat \ {0} /\ MaxFaults \in Nat /\ MaxIdle \in Nat
ASSUME ProcessesAssumption ==
  Starter \notin Pollers \cup Enders /\ Pollers \cap Enders = {}

VARIABLES phase,      \* class_sessions: unstarted, active, ended
          dbCode,     \* class_sessions.current_code
          rowLock,    \* the transactions that have updated the row
          codeKey,    \* Redis session:<id>:code, with the ticks it has left
          prevKey,    \* Redis session:<id>:prev
          redisUp,
          faults,     \* faults so far
          pc,         \* next statement of each request, or its reply
          initial,    \* initialCode of StartSession
          old, new,   \* oldCode and newCode of a rotation
          idleFor,    \* history: ticks since a code was last the live code
          issued      \* history: the codes that were ever committed

redis    == <<codeKey, prevKey>>
rotation == <<initial, old, new>>
history  == <<idleFor, issued>>
vars == <<phase, dbCode, rowLock, redis, redisUp, faults, pc, rotation, history>>

Processes == {Starter} \cup Pollers \cup Enders
Key       == [code : Codes \cup {NoCode}, left : 0..TTL]
Gone      == [code |-> NoCode, left |-> 0]
Never     == MaxIdle + 1  \* idleFor of a code that has not been live

\* Mutant: the key is set without an expiry.
NoExpiry(c) == [code |-> c, left |-> 0]

\* Mutant: a lifetime longer than ten seconds.
LongLived(c) == [code |-> c, left |-> TTL + 1]

\* SET key c EX 10.
Fresh(c) == [code |-> c, left |-> TTL]

Goto(p, step) == pc' = [pc EXCEPT ![p] = step]

\* SET of a key, to no effect when Redis does not answer.
Store(key, c) == IF redisUp THEN Fresh(c) ELSE key

\* The history of a code that becomes the live one.
Live(c) == IF redisUp THEN [idleFor EXCEPT ![c] = 0] ELSE idleFor

Locked(p) == \E q \in rowLock : q # p
-----------------------------------------------------------------------------
(* StartSession *)

StartCommit ==
  /\ pc[Starter] = "idle"
  /\ \E c \in Codes : dbCode' = c /\ initial' = c /\ issued' = issued \cup {c}
  /\ phase' = "active"
  /\ Goto(Starter, "start_code")
  /\ UNCHANGED <<rowLock, redis, redisUp, faults, old, new, idleFor>>

\* A Redis error is the teacher's error, though the session exists.
StartCode ==
  /\ pc[Starter] = "start_code"
  /\ codeKey' = Store(codeKey, initial)
  /\ idleFor' = Live(initial)
  /\ Goto(Starter, IF redisUp THEN "started" ELSE "failed")
  /\ initial' = NoCode
  /\ UNCHANGED <<phase, dbCode, rowLock, prevKey, redisUp, faults, old, new,
                 issued>>
-----------------------------------------------------------------------------
(* GetOrRotateCode *)

PollSelect(p) ==
  /\ pc[p] \in {"idle", "shown"}
  /\ phase # "unstarted"
  /\ IF phase = "active"
       THEN old' = [old EXCEPT ![p] = dbCode] /\ Goto(p, "poll_get")
       ELSE Goto(p, "idle") /\ UNCHANGED old
  /\ new' = [new EXCEPT ![p] = NoCode]
  /\ UNCHANGED <<phase, dbCode, rowLock, redis, redisUp, faults, initial, history>>

\* Mutant: a missing key is an error, and nothing rotates.
PollGetMissFails(p) ==
  /\ pc[p] = "poll_get"
  /\ redisUp /\ codeKey # Gone
  /\ new' = [new EXCEPT ![p] = codeKey.code]
  /\ old' = [old EXCEPT ![p] = NoCode]
  /\ Goto(p, "shown")
  /\ UNCHANGED <<phase, dbCode, rowLock, redis, redisUp, faults, initial, history>>

\* A hit is returned.  A miss, or no answer from Redis, rotates.
PollGet(p) ==
  /\ pc[p] = "poll_get"
  /\ IF redisUp /\ codeKey # Gone
       THEN /\ new' = [new EXCEPT ![p] = codeKey.code]
            /\ old' = [old EXCEPT ![p] = NoCode]
            /\ Goto(p, "shown")
       ELSE /\ \E c \in Codes \ {old[p]} : new' = [new EXCEPT ![p] = c]
            /\ Goto(p, "poll_update")
            /\ UNCHANGED old
  /\ UNCHANGED <<phase, dbCode, rowLock, redis, redisUp, faults, initial, history>>

\* Mutant: Redis is written before the commit.
PollUpdateStores(p) ==
  /\ pc[p] = "poll_update"
  /\ ~Locked(p)
  /\ rowLock' = rowLock \cup {p}
  /\ codeKey' = Store(codeKey, new[p])
  /\ idleFor' = Live(new[p])
  /\ Goto(p, "poll_commit")
  /\ UNCHANGED <<phase, dbCode, prevKey, redisUp, faults, rotation, issued>>

\* UPDATE ... WHERE id = $2: waits for the row, looks at no other column.
PollUpdate(p) ==
  /\ pc[p] = "poll_update"
  /\ ~Locked(p)
  /\ rowLock' = rowLock \cup {p}
  /\ Goto(p, "poll_commit")
  /\ UNCHANGED <<phase, dbCode, redis, redisUp, faults, rotation, history>>

PollCommit(p) ==
  /\ pc[p] = "poll_commit"
  /\ dbCode' = new[p]
  /\ issued' = issued \cup {new[p]}
  /\ rowLock' = rowLock \ {p}
  /\ Goto(p, "poll_set_code")
  /\ UNCHANGED <<phase, redis, redisUp, faults, rotation, idleFor>>

\* Mutant: the two codes of a rotation are swapped.
PollSetCodeSwapped(p) ==
  /\ pc[p] = "poll_set_code"
  /\ codeKey' = Store(codeKey, old[p])
  /\ idleFor' = Live(old[p])
  /\ Goto(p, "poll_set_prev")
  /\ UNCHANGED <<phase, dbCode, rowLock, prevKey, redisUp, faults, rotation, issued>>

PollSetCode(p) ==
  /\ pc[p] = "poll_set_code"
  /\ codeKey' = Store(codeKey, new[p])
  /\ idleFor' = Live(new[p])
  /\ Goto(p, "poll_set_prev")
  /\ UNCHANGED <<phase, dbCode, rowLock, prevKey, redisUp, faults, rotation, issued>>

PollSetPrev(p) ==
  /\ pc[p] = "poll_set_prev"
  /\ prevKey' = Store(prevKey, old[p])
  /\ old' = [old EXCEPT ![p] = NoCode]
  /\ Goto(p, "shown")
  /\ UNCHANGED <<phase, dbCode, rowLock, codeKey, redisUp, faults, initial, new,
                 history>>

Poll(p) == \/ PollSelect(p) \/ PollGet(p) \/ PollUpdate(p) \/ PollCommit(p)
           \/ PollSetCode(p) \/ PollSetPrev(p)
-----------------------------------------------------------------------------
(* EndSession *)

EndSelect(e) ==
  /\ pc[e] = "idle"
  /\ phase # "unstarted"
  /\ Goto(e, IF phase = "active" THEN "end_update" ELSE "conflict")
  /\ UNCHANGED <<phase, dbCode, rowLock, redis, redisUp, faults, rotation, history>>

EndUpdate(e) ==
  /\ pc[e] = "end_update"
  /\ ~Locked(e)
  /\ rowLock' = rowLock \cup {e}
  /\ Goto(e, "end_commit")
  /\ UNCHANGED <<phase, dbCode, redis, redisUp, faults, rotation, history>>

EndCommit(e) ==
  /\ pc[e] = "end_commit"
  /\ phase' = "ended"
  /\ rowLock' = rowLock \ {e}
  /\ Goto(e, "end_del")
  /\ UNCHANGED <<dbCode, redis, redisUp, faults, rotation, history>>

\* DEL of both keys; an error is ignored.
EndDel(e) ==
  /\ pc[e] = "end_del"
  /\ codeKey' = IF redisUp THEN Gone ELSE codeKey
  /\ prevKey' = IF redisUp THEN Gone ELSE prevKey
  /\ Goto(e, "ended")
  /\ UNCHANGED <<phase, dbCode, rowLock, redisUp, faults, rotation, history>>

End(e) == EndSelect(e) \/ EndUpdate(e) \/ EndCommit(e) \/ EndDel(e)
-----------------------------------------------------------------------------
(* SubmitCheckin: the codes that match, while the session is active. *)

Acceptable == {codeKey.code, prevKey.code} \ {NoCode}
-----------------------------------------------------------------------------
(* The clock and the faults *)

\* A key without an expiry has nothing left to count down.
Older(key) ==
  CASE key.left = 0 -> key
    [] key.left = 1 -> Gone
    [] OTHER        -> [key EXCEPT !.left = @ - 1]

Tick ==
  /\ codeKey' = Older(codeKey)
  /\ prevKey' = Older(prevKey)
  /\ idleFor' = [c \in Codes |->
       IF c = codeKey.code THEN 0
       ELSE IF idleFor[c] < MaxIdle THEN idleFor[c] + 1 ELSE idleFor[c]]
  /\ UNCHANGED <<phase, dbCode, rowLock, redisUp, faults, pc, rotation, issued>>

Fault == faults < MaxFaults /\ faults' = faults + 1

\* Redis stops answering; it may come back without its keys.
RedisDown ==
  /\ redisUp /\ redisUp' = FALSE
  /\ Fault
  /\ UNCHANGED <<phase, dbCode, rowLock, redis, pc, rotation, history>>

RedisBack ==
  /\ ~redisUp /\ redisUp' = TRUE
  /\ \/ UNCHANGED redis
     \/ codeKey' = Gone /\ prevKey' = Gone
  /\ UNCHANGED <<phase, dbCode, rowLock, faults, pc, rotation, history>>

\* Mutant: the failing request leaves its transaction open.
FailLeaksLock(p) ==
  /\ pc[p] \in {"start_code", "poll_get", "poll_update", "poll_commit", "poll_set_code",
                "poll_set_prev", "end_update", "end_commit", "end_del"}
  /\ Fault
  /\ IF p \in Pollers
       THEN /\ old' = [old EXCEPT ![p] = NoCode]
            /\ new' = [new EXCEPT ![p] = NoCode]
            /\ Goto(p, "idle")
       ELSE Goto(p, "failed") /\ UNCHANGED <<old, new>>
  /\ initial' = IF p = Starter THEN NoCode ELSE initial
  /\ UNCHANGED <<phase, dbCode, rowLock, redis, redisUp, history>>

\* A statement fails or the replica dies, before the commit or after it; a
\* transaction that was open is rolled back.  A device polls again.
Fail(p) ==
  /\ pc[p] \in {"start_code", "poll_get", "poll_update", "poll_commit", "poll_set_code",
                "poll_set_prev", "end_update", "end_commit", "end_del"}
  /\ Fault
  /\ rowLock' = rowLock \ {p}
  /\ IF p \in Pollers
       THEN /\ old' = [old EXCEPT ![p] = NoCode]
            /\ new' = [new EXCEPT ![p] = NoCode]
            /\ Goto(p, "idle")
       ELSE Goto(p, "failed") /\ UNCHANGED <<old, new>>
  /\ initial' = IF p = Starter THEN NoCode ELSE initial
  /\ UNCHANGED <<phase, dbCode, redis, redisUp, history>>

Init ==
  /\ phase     = "unstarted"
  /\ dbCode    = NoCode
  /\ rowLock   = {}
  /\ codeKey   = Gone
  /\ prevKey   = Gone
  /\ redisUp   = TRUE
  /\ faults    = 0
  /\ pc        = [p \in Processes |-> "idle"]
  /\ initial   = NoCode
  /\ old       = [p \in Pollers |-> NoCode]
  /\ new       = [p \in Pollers |-> NoCode]
  /\ idleFor   = [c \in Codes |-> Never]
  /\ issued    = {}

Next ==
  \/ StartCommit \/ StartCode
  \/ \E p \in Pollers  : Poll(p)
  \/ \E e \in Enders   : End(e)
  \/ \E p \in Processes : Fail(p)
  \/ Tick \/ RedisDown \/ RedisBack

\* Time passes, Redis comes back, requests that arrived are run to their end
\* and the teacher's devices keep polling.  Nobody has to end a session.
\* PostgreSQL grants a row to its waiters in turn, so one that waits while
\* others keep rotating gets it (strong fairness of the two UPDATEs).
Fairness ==
  /\ WF_vars(Tick) /\ WF_vars(RedisBack) /\ WF_vars(StartCode)
  /\ \A p \in Pollers : WF_vars(Poll(p)) /\ SF_vars(PollUpdate(p))
  /\ \A e \in Enders  : WF_vars(pc[e] # "idle" /\ End(e)) /\ SF_vars(EndUpdate(e))

Spec == Init /\ [][Next]_vars /\ Fairness
-----------------------------------------------------------------------------
(* Properties *)

Steps == {"idle", "start_code", "started", "poll_get", "poll_update", "poll_commit",
          "poll_set_code", "poll_set_prev", "shown", "end_update", "end_commit",
          "end_del", "ended", "conflict", "failed"}

Answered == {"idle", "shown", "failed", "ended", "conflict"}

\* The variables keep their shape.
TypeOK ==
  /\ phase \in {"unstarted", "active", "ended"}
  /\ dbCode \in Codes \cup {NoCode}
  /\ rowLock \subseteq Processes
  /\ codeKey \in Key /\ prevKey \in Key
  /\ redisUp \in BOOLEAN
  /\ faults \in 0..MaxFaults
  /\ pc \in [Processes -> Steps]
  /\ initial \in Codes \cup {NoCode}
  /\ old \in [Pollers -> Codes \cup {NoCode}]
  /\ new \in [Pollers -> Codes \cup {NoCode}]
  /\ idleFor \in [Codes -> 0..Never]
  /\ issued \subseteq Codes

\* No code leaves the server before the transaction that made it current has
\* committed: not to Redis, where check-ins look, and not to the teacher's screen.
CodesAreCommitted ==
  /\ {codeKey.code, prevKey.code} \subseteq issued \cup {NoCode}
  /\ \A p \in Pollers  : pc[p] = "shown"   => new[p] \in issued

\* Without faults a code on the teacher's screen has been the live code in
\* Redis, however the polls of two devices interleave.
ShownWasLive ==
  \A p \in Pollers : pc[p] = "shown" /\ faults = 0 => idleFor[new[p]] # Never

\* An active session is never left without a usable code for good: after a
\* crash between commit and SET, an outage or an expiry, polling restores it,
\* as often as it is lost.
SessionRecovers == []<>(phase = "active" => codeKey # Gone)

\* The codes of an ended session disappear and stay away, also when rotations
\* that were under way store theirs after EndSession's DEL, and when DEL fails.
CodesDieWithSession == <>[](phase = "ended" => codeKey = Gone /\ prevKey = Gone)

\* Polls and end requests are answered: nobody keeps the row lock.
RequestsAnswered ==
  \A p \in Pollers \cup Enders : []<>(pc[p] \in Answered)

\* What the code does not give.  A code that a check-in may submit was live at
\* most one code lifetime ago: "a code refreshed within the last ~10 seconds"
\* (README.md:63), with the grace period on top.
AcceptableIsRecent ==
  phase = "active" => \A c \in Acceptable : idleFor[c] \in 0..TTL \cup {Never}
=============================================================================
