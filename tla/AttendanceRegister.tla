------------------------- MODULE AttendanceRegister -------------------------
(***************************************************************************)
(* What the attendance side of the AtApp server promises, with nothing of  *)
(* how it is done: a register of one outcome per student and session.  A   *)
(* session is opened once and closed once; closing it marks, in the same   *)
(* step, every enrolled student who has no outcome as absent.  Nothing     *)
(* else marks a student absent, and no outcome is ever erased.             *)
(*                                                                         *)
(* Decide is deliberately allowed after Close: a teacher may override a    *)
(* closed session, and the code lets a check-in that was already under way *)
(* land after it too.                                                      *)
(***************************************************************************)
CONSTANTS Sessions, Sections, Students, SectionOf, Enrolled

VARIABLES phase,    \* [Sessions -> Phases]
          status    \* [Sessions -> [Students -> Outcomes]]

registerVars == <<phase, status>>

Phases   == {"unstarted", "active", "ended"}
Decided  == {"present", "overridden_present", "overridden_absent"}
Outcomes == Decided \cup {"none", "absent"}

Roster(s) == Enrolled[SectionOf[s]]

RegisterInit ==
  /\ phase  \in [Sessions -> {"unstarted", "active"}]
  /\ status = [s \in Sessions |-> [u \in Students |-> "none"]]

Open(s) ==
  /\ phase[s] = "unstarted"
  /\ phase' = [phase EXCEPT ![s] = "active"]
  /\ UNCHANGED status

Decide(s, u, v) ==
  /\ phase[s] # "unstarted"
  /\ status' = [status EXCEPT ![s][u] = v]
  /\ UNCHANGED phase

Close(s) ==
  /\ phase[s] = "active"
  /\ phase' = [phase EXCEPT ![s] = "ended"]
  /\ status' = [status EXCEPT ![s] =
       [u \in Students |-> IF u \in Roster(s) /\ @[u] = "none"
                             THEN "absent" ELSE @[u]]]

RegisterNext ==
  \E s \in Sessions :
     \/ Open(s)
     \/ Close(s)
     \/ \E u \in Students, v \in Decided : Decide(s, u, v)

RegisterSpec == RegisterInit /\ [][RegisterNext]_registerVars
=============================================================================
