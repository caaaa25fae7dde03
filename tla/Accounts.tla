------------------------------ MODULE Accounts ------------------------------
(***************************************************************************)
(* Who is in the directory of the colleges and who may change it: the      *)
(* tokens of server/internal/auth, the check of them in internal/gateway,  *)
(* the founding of colleges (internal/tenant) and the transactions of      *)
(* their administrators (internal/admin).                                  *)
(*                                                                         *)
(* A request that writes is one transaction: its statements run one by one *)
(* among those of others, its rows are seen when it commits.  An INSERT    *)
(* waits while another transaction holds an uncommitted row with its key.  *)
(* PostgreSQL's transactions and row security are the environment; foreign *)
(* keys are checked regardless of the tenant.                              *)
(*                                                                         *)
(* A request that is refused before it writes changes nothing, and is not  *)
(* an action.                                                              *)
(***************************************************************************)
EXTENDS Naturals, Sequences, FiniteSets

CONSTANTS Requests,   \* transactions in flight at once
          Colleges,   \* ids that may be generated
          Emails,
          Sections,   \* ids of sections
          Founders,   \* emails given as a new college's administrator
          Persons,    \* what CreateUser is asked for: [email, role]
          UserFiles,  \* uploads: sequences of [email, role], a header's role is no role
          EnrollmentFiles,  \* uploads: sequences of [email, section]
          Clients,    \* bound: emails whose owners log in
          Forgetful,  \* bound: emails whose owners reset their password
          MaxTokens   \* bound: tokens that clients hold on to

ASSUME RequestsAssumption == IsFiniteSet(Requests)
ASSUME InputsAssumption   ==
  /\ Founders \subseteq Emails /\ Clients \subseteq Emails /\ Forgetful \subseteq Emails
  /\ Persons \subseteq [email : Emails, role : {"student", "teacher", "admin"}]
  /\ MaxTokens \in Nat
ASSUME FilesAssumption    ==
  /\ UserFiles \subseteq Seq([email : Emails, role : STRING]) \ {<<>>}
  /\ \A f \in EnrollmentFiles : f # <<>> /\ Tail(f) \in Seq([email : Emails, section : Sections])

VARIABLES db,        \* committed rows of each table
          password,  \* of each account
          tokens,    \* those that are valid and in somebody's hands
          state,     \* of each request: running, or how the last one ended
          tenant,    \* the college it is about
          asked,     \* its statements, and
          rest,      \* those that are still to run
          pending    \* its uncommitted rows

request == <<state, tenant, asked, rest, pending>>
vars    == <<db, password, tokens, request>>

Roles      == {"student", "teacher", "admin"}
Tables     == {"colleges", "users", "units", "enrollments"}
TokenKinds == {"access", "refresh", "password_reset"}
Units      == {"course"} \cup Sections
NoRows     == [t \in Tables |-> {}]

\* Departments are like courses, a parent and nothing more.
Parent(u) == IF u = "course" THEN {} ELSE {"course"}

\* Rows: of a college or unit, and of users.
Named(x) == [id |-> x]
Ids(t)   == {row.id : row \in t}

Account(e, r, c) == [email |-> e, role |-> r, college |-> c]

\* An INSERT; `skip` says whether it has ON CONFLICT DO NOTHING.
Statement(t, row, skip) == [table |-> t, row |-> row, skip |-> skip]
-----------------------------------------------------------------------------
(* Tokens *)

Token(k, u) == [kind |-> k, email |-> u.email, role |-> u.role, college |-> u.college]

\* Mutant: a token is taken whatever its purpose.
AnyPurpose(k) == tokens

Valid(k) == {t \in tokens : t.kind = k}

\* A client comes to hold one of the tokens that it is sent.
Issue(k, u) ==
  /\ tokens' = tokens \cup {Token(k, u)}
  /\ Cardinality(tokens') <= MaxTokens

\* With the right password; get_user_for_auth looks in every college.
Login(u) ==
  /\ u \in db["users"] /\ u.email \in Clients
  /\ Issue("access", u) \/ Issue("refresh", u)
  /\ UNCHANGED <<db, password, request>>

\* A new pair, with the claims of the token and without a look at the database.
Refresh(t) ==
  /\ t \in Valid("refresh")
  /\ Issue("access", t)
  /\ UNCHANGED <<db, password, request>>

RequestPasswordReset(u) ==
  /\ u \in db["users"] /\ u.email \in Forgetful
  /\ Issue("password_reset", u)
  /\ UNCHANGED <<db, password, request>>

\* The token stays valid until it expires.
ConfirmPasswordReset(t, p) ==
  /\ t \in Valid("password_reset")
  /\ \E u \in db["users"] : u.email = t.email /\ u.college = t.college
  /\ password' = [password EXCEPT ![t.email] = p]
  /\ UNCHANGED <<db, tokens, request>>

\* It expires, or nobody keeps it.
Expire(t) ==
  /\ t \in tokens
  /\ tokens' = tokens \ {t}
  /\ UNCHANGED <<db, password, request>>
-----------------------------------------------------------------------------
(* The requests that write *)

Begin(r, c, statements) ==
  /\ state[r] # "running"
  /\ state' = [state EXCEPT ![r] = "running"]
  /\ tenant' = [tenant EXCEPT ![r] = c]
  /\ asked' = [asked EXCEPT ![r] = statements]
  /\ rest' = [rest EXCEPT ![r] = statements]
  /\ UNCHANGED <<db, password, tokens, pending>>

\* Mutant: the administrator is inserted as the imports insert users.
FoundingSkips(c, e) ==
  <<Statement("colleges", Named(c), FALSE), Statement("users", Account(e, "admin", c), TRUE)>>

Founding(c, e) ==
  <<Statement("colleges", Named(c), FALSE), Statement("users", Account(e, "admin", c), FALSE)>>

\* With the platform's key; the id is a new UUID.
CreateCollege(r, c, e) ==
  /\ c \notin Ids(db["colleges"]) /\ \A q \in Requests : tenant[q] # c
  /\ Begin(r, c, Founding(c, e))

\* AuthMiddleware and RequireRole: colleges in whose name somebody may act.
Administered == {t.college : t \in {a \in Valid("access") : a.role = "admin"}}

CreateUser(r, c, u) ==
  Begin(r, c, <<Statement("users", Account(u.email, u.role, c), FALSE)>>)

\* CreateDepartment, CreateCourse, CreateSection.
CreateUnit(r, c, unit) == Begin(r, c, <<Statement("units", Named(unit), FALSE)>>)

\* A first row is a header unless it names a role.  The reader refuses a file whose
\* rows differ in length; one whose rows are all too short, which the loops skip
\* and answer with success and a count of zero, is not among the files.
DataRows(file) ==
  IF file # <<>> /\ Head(file).role \in Roles THEN file ELSE Tail(file)

BulkImportUsersCSV(r, c, file) ==
  Begin(r, c, [i \in 1..Len(DataRows(file)) |->
    LET row == DataRows(file)[i]
    IN Statement("users", Account(row.email, row.role, c), TRUE)])

\* The first row is always taken for a header.
BulkImportEnrollmentsCSV(r, c, file) ==
  Begin(r, c, [i \in 1..Len(Tail(file)) |-> Statement("enrollments", Tail(file)[i], TRUE)])
-----------------------------------------------------------------------------
(* A request's transaction *)

Ready(r) == state[r] = "running" /\ rest[r] # <<>>
Stmt(r)  == Head(rest[r])

Visible(r, t) == db[t] \cup pending[r][t]

SameKey(t, a, b) == IF t = "users" THEN a.email = b.email ELSE t # "units" /\ a = b

Taken(r) == \E row \in Visible(r, Stmt(r).table) : SameKey(Stmt(r).table, row, Stmt(r).row)

\* The requests whose uncommitted row the statement waits for.
WaitsFor(r) ==
  IF ~Ready(r) THEN {}
  ELSE {q \in Requests \ {r} :
          \E row \in pending[q][Stmt(r).table] : SameKey(Stmt(r).table, row, Stmt(r).row)}

\* An enrollment is inserted for a student of the college only.
Wanted(r) ==
  Stmt(r).table = "enrollments" =>
    Account(Stmt(r).row.email, "student", tenant[r]) \in Visible(r, "users")

\* Mutant: the table has no CHECK on the role.
RoleUnchecked(r) ==
  CASE Stmt(r).table = "users"       -> Stmt(r).row.college \in Ids(Visible(r, "colleges"))
    [] Stmt(r).table = "units"       -> Parent(Stmt(r).row.id) \subseteq Ids(Visible(r, "units"))
    [] Stmt(r).table = "enrollments" -> Stmt(r).row.section \in Ids(Visible(r, "units"))
    [] OTHER -> TRUE

\* The table's CHECKs and foreign keys.
Fits(r) ==
  CASE Stmt(r).table = "users"       -> /\ Stmt(r).row.role \in Roles
                                        /\ Stmt(r).row.college \in Ids(Visible(r, "colleges"))
    [] Stmt(r).table = "units"       -> Parent(Stmt(r).row.id) \subseteq Ids(Visible(r, "units"))
    [] Stmt(r).table = "enrollments" -> Stmt(r).row.section \in Ids(Visible(r, "units"))
    [] OTHER -> TRUE

Insert(r) ==
  /\ Ready(r)
  /\ Wanted(r) /\ Fits(r) /\ ~Taken(r) /\ WaitsFor(r) = {}
  /\ pending' = [pending EXCEPT ![r][Stmt(r).table] = @ \cup {Stmt(r).row}]
  /\ rest' = [rest EXCEPT ![r] = Tail(@)]
  /\ UNCHANGED <<db, password, tokens, state, tenant, asked>>

\* A row that is there already, or of somebody who is no student here.
Skip(r) ==
  /\ Ready(r)
  /\ ~Wanted(r) \/ (Fits(r) /\ Taken(r) /\ Stmt(r).skip)
  /\ rest' = [rest EXCEPT ![r] = Tail(@)]
  /\ UNCHANGED <<db, password, tokens, state, tenant, asked, pending>>

\* Mutant: the transaction is left open.
LeftOpen(r) == UNCHANGED pending

\* The deferred Rollback.
RolledBack(r) == pending' = [pending EXCEPT ![r] = NoRows]

Answers(r, s) ==
  /\ state' = [state EXCEPT ![r] = s]
  /\ tenant' = [tenant EXCEPT ![r] = "none"]
  /\ asked' = [asked EXCEPT ![r] = <<>>]
  /\ rest' = [rest EXCEPT ![r] = <<>>]

\* Mutant: an import answers with its count and not with its error.
ErrorIgnored == "done"

Error == "failed"

End(r) ==
  /\ Answers(r, Error)
  /\ RolledBack(r)
  /\ UNCHANGED <<db, password, tokens>>

\* The statement is refused: a CHECK, a foreign key, or the email is taken.
Refuse(r) ==
  /\ Ready(r)
  /\ Wanted(r) /\ (~Fits(r) \/ (Taken(r) /\ ~Stmt(r).skip))
  /\ End(r)

\* Everyone in S waits for one of S, and is waited for by one of S.
Deadlocked(S) ==
  \A r \in S : /\ WaitsFor(r) \cap S # {}
               /\ \E q \in S : r \in WaitsFor(q)

\* PostgreSQL breaks a deadlock by an error to one of the transactions.
Abort(r) ==
  /\ \E S \in SUBSET Requests : r \in S /\ Deadlocked(S)
  /\ End(r)

\* A statement, the connection or the commit fails, the client goes away or the
\* replica dies.
Fail(r) == state[r] = "running" /\ End(r)

Commit(r) ==
  /\ state[r] = "running" /\ rest[r] = <<>>
  /\ db' = [t \in Tables |-> db[t] \cup pending[r][t]]
  /\ pending' = [pending EXCEPT ![r] = NoRows]
  /\ Answers(r, "done")
  /\ UNCHANGED <<password, tokens>>

Run(r) == Insert(r) \/ Skip(r) \/ Refuse(r) \/ Commit(r) \/ Abort(r)
-----------------------------------------------------------------------------
Passwords == {"first", "second"}

Init ==
  /\ db = NoRows
  /\ password = [e \in Emails |-> "first"]
  /\ tokens = {}
  /\ state = [r \in Requests |-> "done"]
  /\ tenant = [r \in Requests |-> "none"]
  /\ asked = [r \in Requests |-> <<>>]
  /\ rest = [r \in Requests |-> <<>>]
  /\ pending = [r \in Requests |-> NoRows]

Next ==
  \/ \E u \in db["users"] : Login(u) \/ RequestPasswordReset(u)
  \/ \E t \in tokens :
       Refresh(t) \/ Expire(t) \/ \E p \in Passwords : ConfirmPasswordReset(t, p)
  \/ \E r \in Requests :
       \/ \E c \in Colleges, e \in Founders : CreateCollege(r, c, e)
       \/ \E c \in Administered :
            \/ \E u \in Persons : CreateUser(r, c, u)
            \/ \E unit \in Units : CreateUnit(r, c, unit)
            \/ \E f \in UserFiles : BulkImportUsersCSV(r, c, f)
            \/ \E f \in EnrollmentFiles : BulkImportEnrollmentsCSV(r, c, f)
       \/ Run(r) \/ Fail(r)

\* Statements run; a transaction that waits gets its turn, however many others
\* take the key before it; deadlocks are broken.
Spec ==
  /\ Init /\ [][Next]_vars
  /\ \A r \in Requests : SF_vars(Run(r))
-----------------------------------------------------------------------------
(* Properties *)

\* The tables hold rows of their columns, an email is one account's in all the
\* colleges together, and a request that does not run holds no rows.
TypeOK ==
  /\ DOMAIN db = Tables
  /\ db["colleges"] \subseteq [id : Colleges]
  /\ db["users"] \subseteq [email : Emails, role : Roles, college : Colleges]
  /\ db["units"] \subseteq [id : Units]
  /\ db["enrollments"] \subseteq [email : Emails, section : Sections]
  /\ \A u, v \in db["users"] : u.email = v.email => u = v
  /\ password \in [Emails -> Passwords]
  /\ tokens \subseteq [kind : TokenKinds, email : Emails, role : Roles, college : Colleges]
  /\ state \in [Requests -> {"running", "done", "failed"}]
  /\ tenant \in [Requests -> Colleges \cup {"none"}]
  /\ \A r \in Requests : state[r] # "running" => pending[r] = NoRows

\* However requests of several administrators interleave, fail and are rolled
\* back: every college has an administrator, every account a college, every unit
\* its parent, every enrollment a student and a section; and a token says of its
\* account what the directory says.
DirectoryIsSound ==
  /\ \A c \in Ids(db["colleges"]) :
       \E u \in db["users"] : u.college = c /\ u.role = "admin"
  /\ \A u \in db["users"] : u.college \in Ids(db["colleges"])
  /\ \A unit \in Ids(db["units"]) : Parent(unit) \subseteq Ids(db["units"])
  /\ \A n \in db["enrollments"] :
       /\ n.section \in Ids(db["units"])
       /\ \E u \in db["users"] : u.email = n.email /\ u.role = "student"
  /\ \A t \in tokens : Account(t.email, t.role, t.college) \in db["users"]

\* A request that is answered with success has its effect: a college, unit or
\* user that it creates is there as asked for, and everyone named in a file that
\* it imports has an account, though perhaps an older one, of another role or
\* college.
AnswersHold ==
  [][\A r \in Requests : state[r] = "running" /\ state'[r] = "done" =>
       \A i \in DOMAIN asked[r] :
         LET s == asked[r][i]
         IN /\ ~s.skip => s.row \in db'[s.table]
            /\ s.skip /\ s.table = "users" =>
                 \E u \in db'["users"] : u.email = s.row.email]_vars

\* Nobody is moved to another role or college, whatever is imported over them,
\* and nobody's password changes without a reset token of that account.
AccountsStand ==
  [][/\ db["users"] \subseteq db'["users"]
     /\ \A u \in db["users"] : password'[u.email] # password[u.email] =>
          Token("password_reset", u) \in tokens]_vars

\* Every request is answered, though two imports that name the same people in
\* opposite order wait for each other.
RequestsAnswered ==
  \A r \in Requests : []<>(state[r] # "running")
=============================================================================
