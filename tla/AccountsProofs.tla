--------------------------- MODULE AccountsProofs ---------------------------
(***************************************************************************)
(* Proofs about Accounts for any number of requests, colleges, people and  *)
(* files, and any number of tokens.                                        *)
(*                                                                         *)
(* What holds of the committed tables must hold of what each transaction   *)
(* sees, its own rows among them (View): a commit makes the one the other. *)
(* Two transactions see different rows, but never two accounts of one      *)
(* email, since an INSERT waits for the uncommitted row with its key       *)
(* (PendingApart).  A college may lack its administrator in the view of    *)
(* the transaction that founds it, which then still has to insert it       *)
(* (Founded), and what a transaction has executed is in its view           *)
(* (Executed).                                                             *)
(***************************************************************************)
EXTENDS Accounts, SequenceTheorems, FiniteSetTheorems, TLAPS

View(r) == [t \in Tables |-> Visible(r, t)]

Columns == [colleges    |-> [id : Colleges],
        users       |-> [email : Emails, role : Roles, college : Colleges],
        units       |-> [id : Units],
        enrollments |-> [email : Emails, section : Sections]]

\* What a file may name as a role.
RoleNames == STRING \cup Roles

\* The statements that requests ask for.
Statements ==
       [table : {"colleges"}, row : [id : Colleges], skip : {FALSE}]
  \cup [table : {"users"}, skip : BOOLEAN,
        row : [email : Emails, role : RoleNames, college : Colleges]]
  \cup [table : {"units"}, row : [id : Units], skip : {FALSE}]
  \cup [table : {"enrollments"}, row : [email : Emails, section : Sections], skip : {TRUE}]

Typed(V) == DOMAIN V = Tables /\ \A t \in Tables : V[t] \subseteq Columns[t]

OneAccount(V) == \A u, v \in V["users"] : u.email = v.email => u = v

Linked(V) ==
  /\ \A u \in V["users"] : u.college \in Ids(V["colleges"])
  /\ \A unit \in Ids(V["units"]) : Parent(unit) \subseteq Ids(V["units"])
  /\ \A n \in V["enrollments"] :
       /\ n.section \in Ids(V["units"])
       /\ \E u \in V["users"] : u.email = n.email /\ u.role = "student"

Sound(V) == Typed(V) /\ OneAccount(V) /\ Linked(V)

Adds(c, s) == \E e \in Emails : s = Statement("users", Account(e, "admin", c), FALSE)

\* Every college has its administrator, or a statement of `later` adds it.
Founded(V, later) ==
  \A c \in Ids(V["colleges"]) :
    \/ \E u \in V["users"] : u.college = c /\ u.role = "admin"
    \/ \E i \in 1..Len(later) : Adds(c, later[i])

\* Who founds a college goes on to add its administrator.
FoundsWhole(later) ==
  \A i \in 1..Len(later) : later[i].table = "colleges" =>
    \E j \in (i+1)..Len(later) : Adds(later[i].row.id, later[j])

Effect(V, s) ==
  /\ ~s.skip => s.row \in V[s.table]
  /\ s.skip /\ s.table = "users" => \E u \in V["users"] : u.email = s.row.email

\* `later` is what is left of `all`, and the rest has had its effect.
Executed(V, all, later) ==
  /\ Len(later) <= Len(all)
  /\ \A i \in 1..Len(later) : later[i] = all[Len(all) - Len(later) + i]
  /\ \A i \in 1..(Len(all) - Len(later)) : Effect(V, all[i])

PendingApart ==
  \A q, r \in Requests : q # r =>
    \A u \in pending[q]["users"], v \in pending[r]["users"] : u.email # v.email

\* The variables have their shapes.
Shapes ==
  /\ db = [t \in Tables |-> db[t]]
  /\ pending = [r \in Requests |-> [t \in Tables |-> pending[r][t]]]
  /\ password \in [Emails -> Passwords]
  /\ tokens \subseteq [kind : TokenKinds, email : Emails, role : Roles, college : Colleges]
  /\ state \in [Requests -> {"running", "done", "failed"}]
  /\ tenant \in [Requests -> Colleges \cup {"none"}]
  /\ asked \in [Requests -> Seq(Statements)]
  /\ rest \in [Requests -> Seq(Statements)]

Claims == \A t \in tokens : Account(t.email, t.role, t.college) \in db["users"]

OfRequest(r) ==
  /\ Sound(View(r))
  /\ Founded(View(r), rest[r])
  /\ FoundsWhole(rest[r])
  /\ Executed(View(r), asked[r], rest[r])
  /\ state[r] # "running" => pending[r] = NoRows

Tabular == Sound(db) /\ Founded(db, <<>>)

AccountsInv ==
  /\ Shapes
  /\ Tabular
  /\ Claims
  /\ PendingApart
  /\ \A r \in Requests : OfRequest(r)

-----------------------------------------------------------------------------
(* Tables *)

\* A row that fits is seen with the others.
With(V, t, row) == [V EXCEPT ![t] = @ \cup {row}]

\* What Insert asks of a row keeps the tables sound.
LEMMA InsertSound ==
  ASSUME NEW V, Sound(V), NEW t \in Tables, NEW row \in Columns[t],
         t = "users" => /\ row.college \in Ids(V["colleges"])
                        /\ \A u \in V["users"] : u.email # row.email,
         t = "units" => Parent(row.id) \subseteq Ids(V["units"]),
         t = "enrollments" => /\ row.section \in Ids(V["units"])
                              /\ \E u \in V["users"] : u.email = row.email /\ u.role = "student"
  PROVE  Sound(With(V, t, row))
<1> DEFINE W == With(V, t, row)
<1>1. DOMAIN W = Tables /\ \A s \in Tables : W[s] = IF s = t THEN V[s] \cup {row} ELSE V[s]
  BY DEF With, Sound, Typed
<1> HIDE DEF W
<1>2. Typed(W)
  BY <1>1 DEF Sound, Typed
<1>3. OneAccount(W)
  BY <1>1 DEF Sound, OneAccount, Tables
<1>4. Linked(W)
  BY <1>1 DEF Sound, Linked, Ids, Tables
<1> QED BY <1>2, <1>3, <1>4 DEF Sound, W

\* Two sound sets of tables that agree on every account are sound together.
Both(V, W) == [t \in Tables |-> V[t] \cup W[t]]

LEMMA BothSound ==
  ASSUME NEW V, NEW W, Sound(V), Sound(W),
         \A u \in V["users"], v \in W["users"] : u.email = v.email => u = v
  PROVE  Sound(Both(V, W))
<1> DEFINE B == Both(V, W)
<1>1. DOMAIN B = Tables /\ \A s \in Tables : B[s] = V[s] \cup W[s]
  BY DEF Both
<1> HIDE DEF B
<1>2. Typed(B)
  BY <1>1 DEF Sound, Typed
<1>3. OneAccount(B)
  BY <1>1 DEF Sound, OneAccount, Tables
<1>4. Linked(B)
  BY <1>1 DEF Sound, Linked, Ids, Tables
<1> QED BY <1>2, <1>3, <1>4 DEF Sound, B

\* Tables that hold more keep the effects of statements.
LEMMA EffectsStay ==
  ASSUME NEW V, NEW W, \A t \in Tables : V[t] \subseteq W[t],
         NEW s \in Statements, Effect(V, s)
  PROVE  Effect(W, s)
BY DEF Effect, Statements, Tables

\* And the founding of colleges.
LEMMA FoundedTogether ==
  ASSUME NEW V, NEW W, NEW later, Founded(V, later), Founded(W, <<>>)
  PROVE  Founded(Both(V, W), later)
<1>1. \A t \in Tables : Both(V, W)[t] = V[t] \cup W[t]
  BY DEF Both
<1>2. Len(<<>>) = 0
  OBVIOUS
<1> QED BY <1>1, <1>2 DEF Founded, Ids, Tables

-----------------------------------------------------------------------------
(* What requests ask for *)

\* Statements that found no college are no half of a founding.
LEMMA NoFounding ==
  ASSUME NEW s \in Seq(Statements), \A i \in 1..Len(s) : s[i].table # "colleges"
  PROVE  FoundsWhole(s)
BY DEF FoundsWhole

\* The founding of a college is whole.
LEMMA FoundingIsWhole ==
  ASSUME NEW c \in Colleges, NEW e \in Founders
  PROVE  Founding(c, e) \in Seq(Statements) /\ FoundsWhole(Founding(c, e))
<1>1. e \in Emails
  BY InputsAssumption
<1>2. Statement("colleges", Named(c), FALSE) \in Statements
  BY DEF Statement, Named, Statements
<1>3. Statement("users", Account(e, "admin", c), FALSE) \in Statements
  BY <1>1 DEF Statement, Account, Statements, RoleNames, Roles
<1> DEFINE a == Statement("colleges", Named(c), FALSE)
           b == Statement("users", Account(e, "admin", c), FALSE)
<1>4. /\ Founding(c, e) \in Seq(Statements) /\ Len(Founding(c, e)) = 2
      /\ Founding(c, e)[1] = a /\ Founding(c, e)[2] = b
  <2>1. a \in Statements /\ b \in Statements
    BY <1>2, <1>3
  <2>2. Founding(c, e) = <<a, b>>
    BY DEF Founding
  <2> HIDE DEF a, b
  <2> QED BY <2>1, <2>2
<1>5. Founding(c, e)[1].row.id = c /\ Founding(c, e)[2].table # "colleges"
  BY <1>4 DEF Statement, Named
<1>6. Adds(c, Founding(c, e)[2])
  BY <1>1, <1>4 DEF Adds
<1> DEFINE s == Founding(c, e)
<1>7. /\ s \in Seq(Statements) /\ Len(s) = 2 /\ s[1].row.id = c
      /\ s[2].table # "colleges" /\ Adds(c, s[2])
  BY <1>4, <1>5, <1>6
<1> HIDE DEF s
<1>8. \A i \in 1..Len(s) : s[i].table = "colleges" => i = 1
  BY <1>7
<1> QED BY <1>7, <1>8 DEF FoundsWhole, s

\* One statement.
LEMMA OneStatement ==
  ASSUME NEW s \in Statements, s.table # "colleges"
  PROVE  <<s>> \in Seq(Statements) /\ FoundsWhole(<<s>>)
BY DEF FoundsWhole

\* The rows of a file of users.
LEMMA UserRows ==
  ASSUME NEW c \in Colleges, NEW f \in UserFiles
  PROVE  LET s == [i \in 1..Len(DataRows(f)) |->
                     LET row == DataRows(f)[i]
                     IN Statement("users", Account(row.email, row.role, c), TRUE)]
         IN s \in Seq(Statements) /\ FoundsWhole(s)
<1> DEFINE R == [email : Emails, role : STRING]
           s == [i \in 1..Len(DataRows(f)) |->
                   LET row == DataRows(f)[i]
                   IN Statement("users", Account(row.email, row.role, c), TRUE)]
<1>1. f \in Seq(R) /\ f # <<>>
  BY FilesAssumption
<1>2. DataRows(f) \in Seq(R)
  BY <1>1, HeadTailProperties DEF DataRows
<1>3. Len(DataRows(f)) \in Nat /\ \A i \in 1..Len(DataRows(f)) : DataRows(f)[i] \in R
  BY <1>2, LenProperties, ElementOfSeq
<1>4. \A i \in 1..Len(DataRows(f)) : s[i] \in Statements /\ s[i].table = "users"
  BY <1>3 DEF Statement, Account, Statements, RoleNames
<1>5. s \in Seq(Statements) /\ Len(s) = Len(DataRows(f))
  <2> HIDE DEF R
  <2>1. s \in [1..Len(DataRows(f)) -> Statements]
    BY <1>4
  <2> HIDE DEF s
  <2> QED BY <2>1, <1>3
<1> HIDE DEF s
<1>6. FoundsWhole(s)
  BY <1>4, <1>5 DEF FoundsWhole
<1> QED BY <1>5, <1>6 DEF s

\* The rows of a file of enrollments.
LEMMA EnrollmentRows ==
  ASSUME NEW f \in EnrollmentFiles
  PROVE  LET s == [i \in 1..Len(Tail(f)) |-> Statement("enrollments", Tail(f)[i], TRUE)]
         IN s \in Seq(Statements) /\ FoundsWhole(s)
<1> DEFINE R == [email : Emails, section : Sections]
           s == [i \in 1..Len(Tail(f)) |-> Statement("enrollments", Tail(f)[i], TRUE)]
<1>2. Tail(f) \in Seq(R)
  BY FilesAssumption
<1>3. Len(Tail(f)) \in Nat /\ \A i \in 1..Len(Tail(f)) : Tail(f)[i] \in R
  BY <1>2, LenProperties, ElementOfSeq
<1>4. \A i \in 1..Len(Tail(f)) : s[i] \in Statements /\ s[i].table = "enrollments"
  BY <1>3 DEF Statement, Statements
<1>5. s \in Seq(Statements) /\ Len(s) = Len(Tail(f))
  <2> HIDE DEF R
  <2>1. s \in [1..Len(Tail(f)) -> Statements]
    BY <1>4
  <2> HIDE DEF s
  <2> QED BY <2>1, <1>3
<1> HIDE DEF s
<1>6. FoundsWhole(s)
  BY <1>4, <1>5 DEF FoundsWhole
<1> QED BY <1>5, <1>6 DEF s

-----------------------------------------------------------------------------
(* What is left of a request *)

HasAdmin(V, c) == \E u \in V["users"] : u.college = c /\ u.role = "admin"

\* A founding that has begun is whole in what is left of it.
LEMMA TailFoundsWhole ==
  ASSUME NEW s \in Seq(Statements), s # <<>>, FoundsWhole(s)
  PROVE  FoundsWhole(Tail(s))
<1> DEFINE t == Tail(s)
<1>1. Len(s) \in Nat \ {0} /\ t \in Seq(Statements) /\ Len(t) = Len(s) - 1
  BY EmptySeq, HeadTailProperties
<1>2. \A i \in 1..Len(t) : t[i] = s[i+1]
  BY HeadTailProperties
<1> HIDE DEF t
<1>3. ASSUME NEW i \in 1..Len(t), t[i].table = "colleges"
      PROVE  \E j \in (i+1)..Len(t) : Adds(t[i].row.id, t[j])
  <2>1. i + 1 \in 1..Len(s) /\ s[i+1].table = "colleges"
    BY <1>1, <1>2, <1>3
  <2>2. PICK j \in ((i+1)+1)..Len(s) : Adds(s[i+1].row.id, s[j])
    BY <2>1 DEF FoundsWhole
  <2>3. j - 1 \in (i+1)..Len(t) /\ t[j-1] = s[j]
    BY <1>1, <1>2
  <2> QED BY <2>2, <2>3, <1>2
<1> QED BY <1>3 DEF FoundsWhole, t

\* A statement that has had its effect is executed.
LEMMA TailExecuted ==
  ASSUME NEW V, NEW s \in Seq(Statements), NEW all \in Seq(Statements), s # <<>>,
         Executed(V, all, s), Effect(V, Head(s))
  PROVE  Executed(V, all, Tail(s))
<1> DEFINE t == Tail(s)
<1>1. Len(s) \in Nat \ {0} /\ t \in Seq(Statements) /\ Len(t) = Len(s) - 1 /\ Len(all) \in Nat
  BY EmptySeq, HeadTailProperties, LenProperties
<1>2. (\A i \in 1..Len(t) : t[i] = s[i+1]) /\ Head(s) = s[1]
  BY HeadTailProperties
<1> HIDE DEF t
<1>3. /\ Len(s) <= Len(all)
      /\ \A i \in 1..Len(s) : s[i] = all[Len(all) - Len(s) + i]
      /\ \A i \in 1..(Len(all) - Len(s)) : Effect(V, all[i])
  BY DEF Executed
<1>4. \A i \in 1..Len(t) : t[i] = all[Len(all) - Len(t) + i]
  <2> SUFFICES ASSUME NEW i \in 1..Len(t) PROVE t[i] = all[Len(all) - Len(t) + i]
    OBVIOUS
  <2>1. i + 1 \in 1..Len(s) /\ Len(all) - Len(s) + (i + 1) = Len(all) - Len(t) + i
    BY <1>1
  <2>2. s[i+1] = all[Len(all) - Len(s) + (i + 1)]
    BY <2>1, <1>3
  <2> QED BY <2>1, <2>2, <1>2
<1>5. Effect(V, all[Len(all) - Len(s) + 1])
  BY <1>1, <1>2, <1>3
<1>6. \A i \in 1..(Len(all) - Len(t)) : i \in 1..(Len(all) - Len(s)) \/ i = Len(all) - Len(s) + 1
  <2>1. Len(all) - Len(t) = (Len(all) - Len(s)) + 1 /\ Len(all) - Len(s) \in Nat
    BY <1>1, <1>3
  <2> DEFINE d == Len(all) - Len(s)
  <2> HIDE DEF d
  <2>2. \A i \in 1..(d + 1) : d \in Nat => i \in 1..d \/ i = d + 1
    OBVIOUS
  <2> QED BY <2>1, <2>2 DEF d
<1>7. \A i \in 1..(Len(all) - Len(t)) : Effect(V, all[i])
  BY <1>3, <1>5, <1>6
<1> QED BY <1>1, <1>3, <1>4, <1>7 DEF Executed, t

\* What the first statement does not add, the others do.
LEMMA TailFounded ==
  ASSUME NEW V, NEW s \in Seq(Statements), s # <<>>, Founded(V, s),
         \A c \in Ids(V["colleges"]) : Adds(c, Head(s)) => HasAdmin(V, c)
  PROVE  Founded(V, Tail(s))
<1> DEFINE t == Tail(s)
<1>1. Len(s) \in Nat \ {0} /\ t \in Seq(Statements) /\ Len(t) = Len(s) - 1
  BY EmptySeq, HeadTailProperties
<1>2. (\A i \in 1..Len(t) : t[i] = s[i+1]) /\ Head(s) = s[1]
  BY HeadTailProperties
<1> HIDE DEF t
<1>3. ASSUME NEW c \in Ids(V["colleges"]), ~HasAdmin(V, c)
      PROVE  \E i \in 1..Len(t) : Adds(c, t[i])
  <2>1. PICK i \in 1..Len(s) : Adds(c, s[i])
    BY <1>3 DEF Founded, HasAdmin
  <2>2. i # 1
    BY <2>1, <1>2, <1>3
  <2>3. i - 1 \in 1..Len(t) /\ t[i-1] = s[i]
    BY <2>2, <1>1, <1>2
  <2> QED BY <2>1, <2>3
<1> QED BY <1>3 DEF Founded, HasAdmin, t

-----------------------------------------------------------------------------
(* Steps *)

OthersAlone(r) ==
  \A q \in Requests : q # r =>
    /\ pending'[q] = pending[q] /\ state'[q] = state[q]
    /\ asked'[q] = asked[q] /\ rest'[q] = rest[q]

\* A step of one request, before it commits, leaves the others as they are.
LEMMA OthersStand ==
  ASSUME NEW r \in Requests, \A q \in Requests : OfRequest(q), db' = db, OthersAlone(r)
  PROVE  \A q \in Requests : q # r => OfRequest(q)'
<1> SUFFICES ASSUME NEW q \in Requests, q # r PROVE OfRequest(q)'
  OBVIOUS
<1>1. View(q)' = View(q)
  BY DEF View, Visible, OthersAlone
<1>2. state'[q] = state[q] /\ rest'[q] = rest[q] /\ asked'[q] = asked[q] /\ pending'[q] = pending[q]
  BY DEF OthersAlone
<1> QED BY <1>1, <1>2 DEF OfRequest

\* Nothing changes for requests when their variables and the tables stay.
LEMMA RequestsStand ==
  ASSUME AccountsInv, UNCHANGED <<db, request>>
  PROVE  Tabular' /\ PendingApart' /\ \A q \in Requests : OfRequest(q)'
<1>1. \A q \in Requests : View(q)' = View(q)
  BY DEF View, Visible, request
<1>2. Tabular' /\ PendingApart'
  BY DEF AccountsInv, Tabular, PendingApart, request
<1>3. \A q \in Requests : OfRequest(q)'
  BY <1>1 DEF AccountsInv, OfRequest, request
<1> QED BY <1>2, <1>3

\* With no rows of its own a request sees the committed tables.
LEMMA ViewOfNoRows ==
  ASSUME Shapes, NEW r \in Requests, pending[r] = NoRows
  PROVE  View(r) = db
<1>1. \A t \in Tables : Visible(r, t) = db[t]
  BY DEF Visible, NoRows
<1> QED BY <1>1 DEF View, Shapes

\* A token that is issued says what the directory says.
LEMMA TokenStep ==
  ASSUME AccountsInv,
         \/ \E u \in db["users"] : Login(u) \/ RequestPasswordReset(u)
         \/ \E t \in tokens :
              Refresh(t) \/ Expire(t) \/ \E p \in Passwords : ConfirmPasswordReset(t, p)
  PROVE  AccountsInv'
<1> USE DEF AccountsInv
<1>1. UNCHANGED <<db, request>>
  BY DEF Login, RequestPasswordReset, Refresh, Expire, ConfirmPasswordReset
<1>2. Tabular' /\ PendingApart' /\ \A q \in Requests : OfRequest(q)'
  BY <1>1, RequestsStand
<1>3. db["users"] \subseteq [email : Emails, role : Roles, college : Colleges]
  BY DEF Tabular, Sound, Typed, Columns, Tables
<1>4. password' \in [Emails -> Passwords]
  BY DEF Login, RequestPasswordReset, Refresh, Expire, ConfirmPasswordReset, Shapes
<1> DEFINE Known(x) == /\ Account(x.email, x.role, x.college) \in db["users"]
                       /\ x \in [kind : TokenKinds, email : Emails,
                                 role : Roles, college : Colleges]
<1>5. \A x \in tokens : Known(x)
  BY DEF Shapes, Claims
<1>6. ASSUME NEW u \in db["users"], NEW k \in TokenKinds PROVE Known(Token(k, u))
  BY <1>3 DEF Token, Account
<1>7. ASSUME NEW t \in tokens, NEW k \in TokenKinds PROVE Known(Token(k, t))
  BY <1>5 DEF Token, Account
<1>8. \A x \in tokens' : Known(x)
  <2>1. CASE \E u \in db["users"] : Login(u) \/ RequestPasswordReset(u)
    BY <2>1, <1>5, <1>6 DEF Login, RequestPasswordReset, Issue, TokenKinds
  <2>2. CASE \E t \in tokens : Refresh(t) \/ Expire(t)
    BY <2>2, <1>5, <1>7 DEF Refresh, Expire, Issue, TokenKinds
  <2>3. CASE \E t \in tokens, p \in Passwords : ConfirmPasswordReset(t, p)
    BY <2>3, <1>5 DEF ConfirmPasswordReset
  <2> QED BY <2>1, <2>2, <2>3
<1>9. Claims'
  BY <1>1, <1>8 DEF Claims
<1>10. Shapes'
  BY <1>1, <1>4, <1>8 DEF Shapes, request
<1> QED BY <1>2, <1>9, <1>10

\* A request that begins has nothing written and everything to do.
LEMMA BeginStep ==
  ASSUME AccountsInv, NEW r \in Requests, NEW c \in Colleges,
         NEW s \in Seq(Statements), FoundsWhole(s), Begin(r, c, s)
  PROVE  AccountsInv'
<1> USE DEF AccountsInv
<1>1. Shapes' /\ OthersAlone(r)
  BY DEF Begin, Shapes, OthersAlone
<1>2. Tabular' /\ Claims' /\ PendingApart'
  BY DEF Begin, Tabular, Claims, PendingApart
<1>3. \A q \in Requests : q # r => OfRequest(q)'
  BY <1>1, OthersStand DEF Begin
<1>4. OfRequest(r)'
  <2>1. View(r)' = db /\ db' = db
    <3>1. View(r) = db
      BY ViewOfNoRows DEF Begin, OfRequest
    <3>2. View(r)' = View(r)
      BY DEF Begin, View, Visible
    <3> QED BY <3>1, <3>2 DEF Begin
  <2>2. rest'[r] = s /\ asked'[r] = s /\ state'[r] = "running"
    BY DEF Begin, Shapes
  <2>3. Founded(db, s)
    BY DEF Tabular, Founded
  <2>4. Executed(db, s, s)
    BY LenProperties DEF Executed
  <2> QED BY <2>1, <2>2, <2>3, <2>4 DEF OfRequest, Tabular
<1> QED BY <1>1, <1>2, <1>3, <1>4

\* The parts of a statement.
LEMMA StatementParts ==
  ASSUME NEW s \in Statements
  PROVE  /\ s.table \in Tables /\ s.skip \in BOOLEAN
         /\ s.table = "colleges" => s.row \in [id : Colleges] /\ ~s.skip
         /\ s.table = "users" => s.row \in [email : Emails, role : RoleNames, college : Colleges]
         /\ s.table = "units" => s.row \in [id : Units] /\ ~s.skip
         /\ s.table = "enrollments" => s.row \in [email : Emails, section : Sections] /\ s.skip
BY DEF Statements, Tables

\* The next statement of a request.
LEMMA NextStatement ==
  ASSUME Shapes, NEW r \in Requests, Ready(r)
  PROVE  /\ rest[r] \in Seq(Statements) /\ asked[r] \in Seq(Statements) /\ rest[r] # <<>>
         /\ Stmt(r) \in Statements /\ Stmt(r) = Head(rest[r])
BY HeadTailProperties DEF Shapes, Ready, Stmt

\* What Insert adds has the types of its table.
LEMMA InsertedRowTyped ==
  ASSUME Shapes, NEW r \in Requests, Ready(r), Fits(r)
  PROVE  Stmt(r).row \in Columns[Stmt(r).table]
<1> DEFINE s == Stmt(r)
<1>1. s \in Statements
  BY NextStatement
<1>2. CASE s.table = "colleges"
  BY <1>1, <1>2, StatementParts DEF Columns
<1>3. CASE s.table = "users"
  <2>1. s.row.role \in Roles
    BY <1>3 DEF Fits
  <2> QED BY <1>1, <1>3, <2>1, StatementParts DEF Columns
<1>4. CASE s.table = "units"
  BY <1>1, <1>4, StatementParts DEF Columns
<1>5. CASE s.table = "enrollments"
  BY <1>1, <1>5, StatementParts DEF Columns
<1> QED BY <1>1, <1>2, <1>3, <1>4, <1>5, StatementParts DEF Tables

\* An inserted row is new to its own transaction and to those it would wait for.
LEMMA InsertStep ==
  ASSUME AccountsInv, NEW r \in Requests, Insert(r)
  PROVE  AccountsInv'
<1> DEFINE s == Stmt(r)
           V == View(r)
<1> USE DEF AccountsInv
<1>1. /\ Ready(r) /\ Wanted(r) /\ Fits(r) /\ ~Taken(r) /\ WaitsFor(r) = {}
      /\ pending' = [pending EXCEPT ![r][s.table] = @ \cup {s.row}]
      /\ rest' = [rest EXCEPT ![r] = Tail(@)]
      /\ UNCHANGED <<db, password, tokens, state, tenant, asked>>
  BY DEF Insert
<1>2. /\ rest[r] \in Seq(Statements) /\ asked[r] \in Seq(Statements) /\ rest[r] # <<>>
      /\ s \in Statements /\ s = Head(rest[r])
  BY <1>1, NextStatement
<1>3. s.table \in Tables /\ s.skip \in BOOLEAN
  BY <1>2, StatementParts
<1>4. /\ \A q \in Requests : q # r => pending'[q] = pending[q] /\ rest'[q] = rest[q]
      /\ \A t \in Tables : pending'[r][t] = IF t = s.table THEN pending[r][t] \cup {s.row}
                                            ELSE pending[r][t]
      /\ rest'[r] = Tail(rest[r])
      /\ pending' = [q \in Requests |-> [t \in Tables |-> pending'[q][t]]]
  <2>1. pending = [q \in Requests |-> [t \in Tables |-> pending[q][t]]]
    BY DEF Shapes
  <2>2. rest \in [Requests -> Seq(Statements)]
    BY DEF Shapes
  <2> HIDE DEF AccountsInv, s
  <2> QED BY <2>1, <2>2, <1>1, <1>3
<1>5. View(r)' = With(V, s.table, s.row)
  <2> DEFINE W == [t \in Tables |-> IF t = s.table THEN V[t] \cup {s.row} ELSE V[t]]
  <2>1. \A t \in Tables : View(r)'[t] = W[t]
    BY <1>1, <1>4 DEF View, Visible
  <2>2. View(r)' = [t \in Tables |-> View(r)'[t]]
    BY DEF View
  <2>3. With(V, s.table, s.row) = W
    BY <1>3 DEF With, View
  <2> QED BY <2>1, <2>2, <2>3
<1>6. V["users"] = Visible(r, "users") /\ V["colleges"] = Visible(r, "colleges")
      /\ V["units"] = Visible(r, "units") /\ V[s.table] = Visible(r, s.table)
  BY <1>3 DEF View, Tables
<1>7. Sound(View(r)')
  <2>1. s.row \in Columns[s.table]
    BY <1>1, InsertedRowTyped
  <2>2. s.table = "users" => /\ s.row.college \in Ids(V["colleges"])
                             /\ \A u \in V["users"] : u.email # s.row.email
    BY <1>1, <1>6 DEF Fits, Taken, SameKey
  <2>3. s.table = "units" => Parent(s.row.id) \subseteq Ids(V["units"])
    BY <1>1, <1>6 DEF Fits
  <2>4. s.table = "enrollments" =>
          /\ s.row.section \in Ids(V["units"])
          /\ \E u \in V["users"] : u.email = s.row.email /\ u.role = "student"
    <3>1. s.table = "enrollments" => Account(s.row.email, "student", tenant[r]) \in V["users"]
      BY <1>1, <1>6 DEF Wanted
    <3>2. s.table = "enrollments" => s.row.section \in Ids(V["units"])
      BY <1>1, <1>6 DEF Fits
    <3> QED BY <3>1, <3>2 DEF Account
  <2>5. Sound(V)
    BY DEF OfRequest
  <2> HIDE DEF s, V
  <2>6. Sound(With(V, s.table, s.row))
    BY <1>3, <2>1, <2>2, <2>3, <2>4, <2>5, InsertSound
  <2> QED BY <2>6, <1>5
<1>8. \A t \in Tables : V[t] \subseteq View(r)'[t]
  BY <1>4, <1>1 DEF View, Visible
<1>9. s.row \in View(r)'[s.table]
  BY <1>3, <1>4 DEF View, Visible
<1>10. Executed(View(r)', asked[r], Tail(rest[r]))
  <2>1. Executed(View(r)', asked[r], rest[r])
    <3>1. Executed(V, asked[r], rest[r])
      BY DEF OfRequest
    <3>2. \A i \in 1..(Len(asked[r]) - Len(rest[r])) : asked[r][i] \in Statements
      BY <1>2, LenProperties, ElementOfSeq
    <3> QED BY <3>1, <3>2, <1>8, EffectsStay DEF Executed
  <2>2. Effect(View(r)', s)
    BY <1>3, <1>9 DEF Effect
  <2> QED BY <2>1, <2>2, <1>2, TailExecuted
<1>11. Founded(View(r)', Tail(rest[r]))
  <2>1. Founded(View(r)', rest[r])
    <3> SUFFICES ASSUME NEW c \in Ids(View(r)'["colleges"]), ~HasAdmin(View(r)', c)
                 PROVE  \E i \in 1..Len(rest[r]) : Adds(c, rest[r][i])
      BY DEF Founded, HasAdmin
    <3>1. ~HasAdmin(V, c)
      BY <1>8 DEF HasAdmin, Tables
    <3>2. CASE c \in Ids(V["colleges"])
      BY <3>1, <3>2 DEF OfRequest, Founded, HasAdmin
    <3>3. CASE s.table = "colleges" /\ c = s.row.id
      <4>1. 1 \in 1..Len(rest[r]) /\ rest[r][1] = s
        BY <1>2, EmptySeq, HeadTailProperties
      <4>2. \E j \in (1+1)..Len(rest[r]) : Adds(s.row.id, rest[r][j])
        BY <4>1, <3>3 DEF OfRequest, FoundsWhole
      <4> QED BY <4>1, <4>2, <3>3
    <3>4. s.table = "colleges" \/ View(r)'["colleges"] = V["colleges"]
      BY <1>1, <1>4 DEF View, Visible, Tables
    <3>5. s.table = "colleges" => View(r)'["colleges"] = V["colleges"] \cup {s.row}
      BY <1>1, <1>4 DEF View, Visible, Tables
    <3>6. c \in Ids(V["colleges"]) \/ (s.table = "colleges" /\ c = s.row.id)
      BY <3>4, <3>5 DEF Ids
    <3> QED BY <3>2, <3>3, <3>6
  <2>2. \A c : Adds(c, s) => HasAdmin(View(r)', c)
    BY <1>9 DEF Adds, HasAdmin, Statement, Account
  <2> QED BY <2>1, <2>2, <1>2, TailFounded
<1>12. FoundsWhole(Tail(rest[r]))
  BY <1>2, TailFoundsWhole DEF OfRequest
<1>13. state'[r] = "running"
  BY <1>1 DEF Ready
<1>14. OfRequest(r)'
  BY <1>1, <1>4, <1>7, <1>10, <1>11, <1>12, <1>13 DEF OfRequest
<1>15. \A q \in Requests : q # r => OfRequest(q)'
  BY <1>1, <1>4, OthersStand DEF OthersAlone
<1>16. Shapes'
  <2>1. rest' \in [Requests -> Seq(Statements)]
    BY <1>1, <1>2, HeadTailProperties DEF Shapes
  <2> QED BY <2>1, <1>1, <1>4 DEF Shapes
<1>17. Tabular' /\ Claims'
  BY <1>1 DEF Tabular, Claims
<1>18. PendingApart'
  <2>1. \A q \in Requests : q # r /\ s.table = "users" =>
          \A u \in pending[q]["users"] : u.email # s.row.email
    BY <1>1 DEF WaitsFor, SameKey
  <2>2. pending'[r]["users"] =
          IF s.table = "users" THEN pending[r]["users"] \cup {s.row} ELSE pending[r]["users"]
    BY <1>4 DEF Tables
  <2> QED BY <2>1, <2>2, <1>4 DEF PendingApart
<1> QED BY <1>14, <1>15, <1>16, <1>17, <1>18

\* A skipped statement had its effect before, or wants none.
LEMMA SkipStep ==
  ASSUME AccountsInv, NEW r \in Requests, Skip(r)
  PROVE  AccountsInv'
<1> DEFINE s == Stmt(r)
           V == View(r)
<1> USE DEF AccountsInv
<1>1. /\ Ready(r) /\ (~Wanted(r) \/ (Taken(r) /\ s.skip))
      /\ rest' = [rest EXCEPT ![r] = Tail(@)]
      /\ UNCHANGED <<db, password, tokens, state, tenant, asked, pending>>
  BY DEF Skip
<1>2. /\ rest[r] \in Seq(Statements) /\ asked[r] \in Seq(Statements) /\ rest[r] # <<>>
      /\ s \in Statements /\ s = Head(rest[r])
  BY <1>1, NextStatement
<1>3. s.skip /\ (s.table = "users" => Taken(r))
  BY <1>1, <1>2, StatementParts DEF Wanted
<1>4. /\ \A q \in Requests : q # r => rest'[q] = rest[q]
      /\ rest'[r] = Tail(rest[r]) /\ rest' \in [Requests -> Seq(Statements)]
  BY <1>1, <1>2, HeadTailProperties DEF Shapes
<1>5. View(r)' = V
  BY <1>1 DEF View, Visible
<1>6. Effect(V, s)
  BY <1>3 DEF Effect, Taken, SameKey, View, Tables
<1>7. Executed(V, asked[r], Tail(rest[r]))
  BY <1>2, <1>6, TailExecuted DEF OfRequest
<1>8. Founded(V, Tail(rest[r]))
  <2>1. \A c : ~Adds(c, s)
    BY <1>3 DEF Adds, Statement
  <2> QED BY <2>1, <1>2, TailFounded DEF OfRequest
<1>9. FoundsWhole(Tail(rest[r]))
  BY <1>2, TailFoundsWhole DEF OfRequest
<1>10. OfRequest(r)'
  BY <1>1, <1>4, <1>5, <1>7, <1>8, <1>9 DEF OfRequest
<1>11. \A q \in Requests : q # r => OfRequest(q)'
  BY <1>1, <1>4, OthersStand DEF OthersAlone
<1>12. Tabular' /\ Claims' /\ PendingApart'
  BY <1>1 DEF Tabular, Claims, PendingApart
<1>13. Shapes'
  BY <1>1, <1>4 DEF Shapes
<1> QED BY <1>10, <1>11, <1>12, <1>13

\* What an answer leaves of a request.
LEMMA AnswerLeaves ==
  ASSUME Shapes, NEW r \in Requests, NEW s \in {"done", "failed"},
         Answers(r, s), RolledBack(r)
  PROVE  /\ state' \in [Requests -> {"running", "done", "failed"}]
         /\ tenant' \in [Requests -> Colleges \cup {"none"}]
         /\ asked' \in [Requests -> Seq(Statements)] /\ rest' \in [Requests -> Seq(Statements)]
         /\ pending' = [q \in Requests |-> [t \in Tables |-> pending'[q][t]]]
         /\ state'[r] = s /\ pending'[r] = NoRows /\ asked'[r] = <<>> /\ rest'[r] = <<>>
         /\ OthersAlone(r)
<1>1. <<>> \in Seq(Statements)
  BY EmptySeq
<1>2. /\ pending'[r] = NoRows /\ \A q \in Requests : q # r => pending'[q] = pending[q]
      /\ pending' = [q \in Requests |-> [t \in Tables |-> pending'[q][t]]]
  BY DEF RolledBack, NoRows, Shapes
<1> QED BY <1>1, <1>2 DEF Answers, Shapes, OthersAlone

\* A request with nothing to do and no rows is in order.
LEMMA NothingToDo ==
  ASSUME NEW V
  PROVE  Executed(V, <<>>, <<>>) /\ FoundsWhole(<<>>)
BY DEF Executed, FoundsWhole

\* A rollback leaves the committed tables.
LEMMA EndStep ==
  ASSUME AccountsInv, NEW r \in Requests, End(r)
  PROVE  AccountsInv'
<1> USE DEF AccountsInv
<1>1. /\ db' = db /\ password' = password /\ tokens' = tokens
      /\ Answers(r, "failed") /\ RolledBack(r)
  BY DEF End, Error
<1>2. OthersAlone(r) /\ pending'[r] = NoRows /\ asked'[r] = <<>> /\ rest'[r] = <<>>
  BY <1>1, AnswerLeaves
<1>3. Shapes'
  BY <1>1, AnswerLeaves DEF Shapes
<1>4. \A q \in Requests : q # r => OfRequest(q)'
  BY <1>1, <1>2, OthersStand
<1>5. Tabular' /\ Claims'
  BY <1>1 DEF Tabular, Claims
<1>6. View(r)' = db'
  <2>1. \A t \in Tables : Visible(r, t)' = db[t]
    BY <1>1, <1>2 DEF Visible, NoRows
  <2>2. View(r)' = [t \in Tables |-> db[t]]
    BY <2>1 DEF View
  <2> QED BY <2>2, <1>1 DEF Shapes
<1>7. OfRequest(r)'
  BY <1>2, <1>5, <1>6, NothingToDo DEF OfRequest, Tabular
<1>8. PendingApart'
  <2>1. pending'[r]["users"] = {}
    BY <1>2 DEF NoRows, Tables
  <2> QED BY <2>1, <1>2 DEF PendingApart, OthersAlone
<1> QED BY <1>3, <1>4, <1>5, <1>7, <1>8

\* A commit makes what the transaction saw the committed tables, and adds it to
\* what others see.
LEMMA CommitStep ==
  ASSUME AccountsInv, NEW r \in Requests, Commit(r)
  PROVE  AccountsInv'
<1> USE DEF AccountsInv
<1>1. /\ state[r] = "running" /\ rest[r] = <<>>
      /\ db' = [t \in Tables |-> db[t] \cup pending[r][t]]
      /\ Answers(r, "done") /\ RolledBack(r)
      /\ password' = password /\ tokens' = tokens
  BY DEF Commit, RolledBack
<1>2. OthersAlone(r) /\ pending'[r] = NoRows /\ asked'[r] = <<>> /\ rest'[r] = <<>>
  BY <1>1, AnswerLeaves
<1>3. db' = View(r) /\ (\A t \in Tables : db'[t] = db[t] \cup pending[r][t])
  BY <1>1 DEF View, Visible
<1>4. Shapes'
  <2>1. db' = [t \in Tables |-> db'[t]]
    BY <1>1
  <2> QED BY <2>1, <1>1, AnswerLeaves DEF Shapes
<1>5. Tabular'
  BY <1>1, <1>3 DEF OfRequest, Tabular
<1>6. Claims'
  BY <1>1, <1>3 DEF Claims, Tables
<1>7. View(r)' = db'
  <2>1. \A t \in Tables : Visible(r, t)' = db'[t]
    BY <1>2 DEF Visible, NoRows
  <2>2. View(r)' = [t \in Tables |-> db'[t]]
    BY <2>1 DEF View
  <2> QED BY <2>2, <1>1
<1>8. OfRequest(r)'
  BY <1>2, <1>5, <1>7, NothingToDo DEF OfRequest, Tabular
<1>9. ASSUME NEW q \in Requests, q # r
      PROVE  OfRequest(q)'
  <2> DEFINE V == View(q)
             W == View(r)
  <2>1. /\ state'[q] = state[q] /\ rest'[q] = rest[q] /\ asked'[q] = asked[q]
        /\ pending'[q] = pending[q]
    BY <1>2, <1>9 DEF OthersAlone
  <2>2. View(q)' = Both(V, W)
    <3>1. \A t \in Tables : Visible(q, t)' = V[t] \cup W[t]
      BY <1>3, <2>1 DEF View, Visible
    <3> QED BY <3>1 DEF View, Both
  <2>3. \A u \in V["users"], v \in W["users"] : u.email = v.email => u = v
    <3>1. V["users"] = db["users"] \cup pending[q]["users"]
          /\ W["users"] = db["users"] \cup pending[r]["users"]
      BY DEF View, Visible, Tables
    <3>2. OneAccount(V) /\ OneAccount(W)
      BY DEF OfRequest, Sound
    <3> QED BY <3>1, <3>2, <1>9 DEF OneAccount, PendingApart
  <2>4. Sound(V) /\ Sound(W) /\ Founded(V, rest[q]) /\ Founded(W, <<>>)
    BY <1>1 DEF OfRequest
  <2>5. Executed(Both(V, W), asked[q], rest[q])
    <3>1. asked[q] \in Seq(Statements) /\ rest[q] \in Seq(Statements)
      BY DEF Shapes
    <3>2. \A i \in 1..(Len(asked[q]) - Len(rest[q])) : asked[q][i] \in Statements
      BY <3>1, LenProperties, ElementOfSeq
    <3>3. \A t \in Tables : V[t] \subseteq Both(V, W)[t]
      BY DEF Both
    <3>4. Executed(V, asked[q], rest[q])
      BY DEF OfRequest
    <3> QED BY <3>2, <3>3, <3>4, EffectsStay DEF Executed
  <2> HIDE DEF V, W
  <2>6. Sound(Both(V, W)) /\ Founded(Both(V, W), rest[q])
    BY <2>3, <2>4, BothSound, FoundedTogether
  <2>7. FoundsWhole(rest[q]) /\ (state[q] # "running" => pending[q] = NoRows)
    BY DEF OfRequest
  <2> QED BY <2>1, <2>2, <2>5, <2>6, <2>7 DEF OfRequest
<1>10. PendingApart'
  <2>1. pending'[r]["users"] = {}
    BY <1>2 DEF NoRows, Tables
  <2> QED BY <2>1, <1>2 DEF PendingApart, OthersAlone
<1> QED BY <1>4, <1>5, <1>6, <1>8, <1>9, <1>10

-----------------------------------------------------------------------------
(* The invariant *)

\* It holds of the empty directory.
LEMMA InitAccounts == Init => AccountsInv
<1> SUFFICES ASSUME Init PROVE AccountsInv
  OBVIOUS
<1> DEFINE E == NoRows
<1>1. /\ db = E /\ \A t \in Tables : E[t] = {}
      /\ \A r \in Requests : pending[r] = E /\ asked[r] = <<>> /\ rest[r] = <<>>
  BY DEF Init, NoRows
<1>2. E = [t \in Tables |-> E[t]]
  BY DEF NoRows
<1>3. <<>> \in Seq(Statements)
  BY EmptySeq
<1>4. Shapes
  BY <1>1, <1>2, <1>3 DEF Init, Shapes, Passwords
<1> HIDE DEF E
<1>5. Tabular
  BY <1>1, <1>2 DEF Tabular, Sound, Typed, OneAccount, Linked, Founded, Ids, Tables
<1>6. Claims
  BY DEF Init, Claims
<1>7. PendingApart
  BY <1>1 DEF PendingApart, Tables
<1>8. ASSUME NEW r \in Requests PROVE OfRequest(r)
  <2>1. View(r) = db
    BY <1>1, <1>4, ViewOfNoRows DEF E
  <2> QED BY <2>1, <1>1, <1>5, NothingToDo DEF OfRequest, Tabular, E
<1> QED BY <1>4, <1>5, <1>6, <1>7, <1>8 DEF AccountsInv

\* The requests that begin.
LEMMA Beginnings ==
  ASSUME AccountsInv, NEW r \in Requests,
         \/ \E c \in Colleges, e \in Founders : CreateCollege(r, c, e)
         \/ \E c \in Administered :
              \/ \E u \in Persons : CreateUser(r, c, u)
              \/ \E unit \in Units : CreateUnit(r, c, unit)
              \/ \E f \in UserFiles : BulkImportUsersCSV(r, c, f)
              \/ \E f \in EnrollmentFiles : BulkImportEnrollmentsCSV(r, c, f)
  PROVE  AccountsInv'
<1>1. Administered \subseteq Colleges
  BY DEF AccountsInv, Shapes, Administered, Valid
<1>2. ASSUME NEW c \in Colleges, NEW e \in Founders, CreateCollege(r, c, e)
      PROVE  AccountsInv'
  BY <1>2, FoundingIsWhole, BeginStep DEF CreateCollege
<1>3. ASSUME NEW c \in Administered, NEW u \in Persons, CreateUser(r, c, u)
      PROVE  AccountsInv'
  <2> DEFINE s == Statement("users", Account(u.email, u.role, c), FALSE)
  <2>1. u \in [email : Emails, role : Roles]
    BY InputsAssumption DEF Roles
  <2>2. s \in Statements /\ s.table # "colleges"
    BY <2>1, <1>1 DEF Statement, Account, Statements, RoleNames
  <2>3. Begin(r, c, <<s>>)
    BY <1>3 DEF CreateUser
  <2> HIDE DEF s
  <2> QED BY <1>1, <2>2, <2>3, OneStatement, BeginStep
<1>4. ASSUME NEW c \in Administered, NEW unit \in Units, CreateUnit(r, c, unit)
      PROVE  AccountsInv'
  <2> DEFINE s == Statement("units", Named(unit), FALSE)
  <2>1. s \in Statements /\ s.table # "colleges"
    BY DEF Statement, Named, Statements
  <2>2. Begin(r, c, <<s>>)
    BY <1>4 DEF CreateUnit
  <2> HIDE DEF s
  <2> QED BY <1>1, <2>1, <2>2, OneStatement, BeginStep
<1>5. ASSUME NEW c \in Administered, NEW f \in UserFiles, BulkImportUsersCSV(r, c, f)
      PROVE  AccountsInv'
  BY <1>1, <1>5, UserRows, BeginStep DEF BulkImportUsersCSV
<1>6. ASSUME NEW c \in Administered, NEW f \in EnrollmentFiles,
             BulkImportEnrollmentsCSV(r, c, f)
      PROVE  AccountsInv'
  BY <1>1, <1>6, EnrollmentRows, BeginStep DEF BulkImportEnrollmentsCSV
<1> QED BY <1>2, <1>3, <1>4, <1>5, <1>6

\* Every step keeps it.
LEMMA NextAccounts == AccountsInv /\ [Next]_vars => AccountsInv'
<1> SUFFICES ASSUME AccountsInv, [Next]_vars PROVE AccountsInv'
  OBVIOUS
<1>1. CASE \/ \E u \in db["users"] : Login(u) \/ RequestPasswordReset(u)
           \/ \E t \in tokens :
                Refresh(t) \/ Expire(t) \/ \E p \in Passwords : ConfirmPasswordReset(t, p)
  BY <1>1, TokenStep
<1>2. ASSUME NEW r \in Requests,
             \/ \E c \in Colleges, e \in Founders : CreateCollege(r, c, e)
             \/ \E c \in Administered :
                  \/ \E u \in Persons : CreateUser(r, c, u)
                  \/ \E unit \in Units : CreateUnit(r, c, unit)
                  \/ \E f \in UserFiles : BulkImportUsersCSV(r, c, f)
                  \/ \E f \in EnrollmentFiles : BulkImportEnrollmentsCSV(r, c, f)
      PROVE  AccountsInv'
  BY <1>2, Beginnings
<1>3. ASSUME NEW r \in Requests, Run(r) \/ Fail(r)
      PROVE  AccountsInv'
  <2>1. CASE Insert(r)
    BY <2>1, InsertStep
  <2>2. CASE Skip(r)
    BY <2>2, SkipStep
  <2>3. CASE Refuse(r) \/ Abort(r) \/ Fail(r)
    BY <2>3, EndStep DEF Refuse, Abort, Fail
  <2>4. CASE Commit(r)
    BY <2>4, CommitStep
  <2> QED BY <1>3, <2>1, <2>2, <2>3, <2>4 DEF Run
<1>4. CASE UNCHANGED vars
  <2>1. Tabular' /\ PendingApart' /\ \A q \in Requests : OfRequest(q)'
    BY <1>4, RequestsStand DEF vars
  <2>2. Shapes' /\ Claims'
    BY <1>4 DEF AccountsInv, Shapes, Claims, vars, request
  <2> QED BY <2>1, <2>2 DEF AccountsInv
<1> QED BY <1>1, <1>2, <1>3, <1>4 DEF Next

\* Whatever requests interleave, the directory and what each transaction sees of
\* it stay sound.
THEOREM AccountsAlways == Spec => []AccountsInv
<1> QED BY InitAccounts, NextAccounts, PTL DEF Spec

-----------------------------------------------------------------------------
(* What follows *)

\* The variables have their types, and an email is one account's.
THEOREM TypeCorrect == Spec => []TypeOK
<1>1. AccountsInv => TypeOK
  <2> SUFFICES ASSUME AccountsInv PROVE TypeOK
    OBVIOUS
  <2>1. DOMAIN db = Tables
    BY DEF AccountsInv, Shapes
  <2>2. /\ db["colleges"] \subseteq [id : Colleges]
        /\ db["users"] \subseteq [email : Emails, role : Roles, college : Colleges]
        /\ db["units"] \subseteq [id : Units]
        /\ db["enrollments"] \subseteq [email : Emails, section : Sections]
    BY DEF AccountsInv, Tabular, Sound, Typed, Columns, Tables
  <2>3. \A u, v \in db["users"] : u.email = v.email => u = v
    BY DEF AccountsInv, Tabular, Sound, OneAccount
  <2> QED BY <2>1, <2>2, <2>3 DEF AccountsInv, Shapes, OfRequest, TypeOK
<1> QED BY <1>1, AccountsAlways, PTL

\* Every college keeps an administrator, every row what it refers to, and every
\* token an account it describes.
THEOREM DirectoryStaysSound == Spec => []DirectoryIsSound
<1>1. AccountsInv => DirectoryIsSound
  <2> SUFFICES ASSUME AccountsInv PROVE DirectoryIsSound
    OBVIOUS
  <2>1. \A c \in Ids(db["colleges"]) : \E u \in db["users"] : u.college = c /\ u.role = "admin"
    BY DEF AccountsInv, Tabular, Founded
  <2> QED BY <2>1 DEF AccountsInv, Tabular, Sound, Linked, Claims, DirectoryIsSound
<1> QED BY <1>1, AccountsAlways, PTL

\* No step moves an account or changes a password without its owner's token.
THEOREM AccountsStayWhatTheyAre == Spec => AccountsStand
<1> DEFINE Stand == /\ db["users"] \subseteq db'["users"]
                    /\ \A u \in db["users"] : password'[u.email] # password[u.email] =>
                         Token("password_reset", u) \in tokens
<1>1. AccountsInv /\ [Next]_vars => [Stand]_vars
  <2> SUFFICES ASSUME AccountsInv, Next PROVE Stand
    OBVIOUS
  <2>1. CASE \E t \in tokens, p \in Passwords : ConfirmPasswordReset(t, p)
    <3>1. PICK t \in tokens, p \in Passwords : ConfirmPasswordReset(t, p)
      BY <2>1
    <3>2. db' = db
      BY <3>1 DEF ConfirmPasswordReset
    <3>3. ASSUME NEW u \in db["users"], password'[u.email] # password[u.email]
          PROVE  Token("password_reset", u) \in tokens
      <4>1. u.email = t.email
        BY <3>1, <3>3 DEF ConfirmPasswordReset, AccountsInv, Shapes
      <4>2. Account(t.email, t.role, t.college) \in db["users"]
        BY DEF AccountsInv, Claims
      <4>3. u = Account(t.email, t.role, t.college)
        BY <4>1, <4>2 DEF AccountsInv, Tabular, Sound, OneAccount, Account
      <4>4. /\ t \in [kind : TokenKinds, email : Emails, role : Roles, college : Colleges]
            /\ t.kind = "password_reset"
        BY <3>1 DEF ConfirmPasswordReset, Valid, AccountsInv, Shapes
      <4> QED BY <4>3, <4>4 DEF Token, Account
    <3> QED BY <3>2, <3>3
  <2>2. CASE ~\E t \in tokens, p \in Passwords : ConfirmPasswordReset(t, p)
    <3>1. password' = password
      BY <2>2 DEF Next, Login, RequestPasswordReset, Refresh, Expire, CreateCollege, CreateUser,
        CreateUnit, BulkImportUsersCSV, BulkImportEnrollmentsCSV, Begin, Run, Insert, Skip,
        Refuse, Commit, Abort, Fail, End
    <3>2. db' = db \/ \E r \in Requests : Commit(r)
      BY <2>2 DEF Next, Login, RequestPasswordReset, Refresh, Expire, CreateCollege, CreateUser,
        CreateUnit, BulkImportUsersCSV, BulkImportEnrollmentsCSV, Begin, Run, Insert, Skip,
        Refuse, Abort, Fail, End
    <3>3. db["users"] \subseteq db'["users"]
      BY <3>2 DEF Commit, Tables
    <3> QED BY <3>1, <3>3
  <2> QED BY <2>1, <2>2
<1>2. Spec => [][Stand]_vars
  BY <1>1, AccountsAlways, PTL DEF Spec
<1> QED BY <1>2 DEF AccountsStand

\* Who is answered with success finds what was asked for.
THEOREM AnswersAreKept == Spec => AnswersHold
<1> DEFINE Hold == \A r \in Requests : state[r] = "running" /\ state'[r] = "done" =>
                     \A i \in DOMAIN asked[r] :
                       LET s == asked[r][i]
                       IN /\ ~s.skip => s.row \in db'[s.table]
                          /\ s.skip /\ s.table = "users" =>
                               \E u \in db'["users"] : u.email = s.row.email
<1>1. AccountsInv /\ [Next]_vars => [Hold]_vars
  <2> SUFFICES ASSUME AccountsInv, Next, NEW r \in Requests,
                      state[r] = "running", state'[r] = "done",
                      NEW i \in DOMAIN asked[r]
               PROVE  Effect(db', asked[r][i])
    BY DEF Effect
  <2>1. Commit(r)
    <3>1. state \in [Requests -> {"running", "done", "failed"}]
      BY DEF AccountsInv, Shapes
    <3>2. CASE state' = state
      BY <3>2
    <3>3. CASE \E q \in Requests, x \in {"running", "failed"} : state' = [state EXCEPT ![q] = x]
      BY <3>1, <3>3
    <3>4. CASE \E q \in Requests : Commit(q)
      BY <3>1, <3>4 DEF Commit, Answers
    <3>5. CASE \E u \in db["users"] : Login(u) \/ RequestPasswordReset(u)
      BY <3>2, <3>5 DEF Login, RequestPasswordReset, request
    <3>6. CASE \E t \in tokens :
                 Refresh(t) \/ Expire(t) \/ \E p \in Passwords : ConfirmPasswordReset(t, p)
      BY <3>2, <3>6 DEF Refresh, Expire, ConfirmPasswordReset, request
    <3>7. ASSUME NEW q \in Requests, Run(q) \/ Fail(q)
          PROVE  Commit(r)
      BY <3>2, <3>3, <3>4, <3>7 DEF Run, Insert, Skip, Refuse, Abort, Fail, End, Answers, Error
    <3>8. ASSUME NEW q \in Requests, NEW c, NEW s, Begin(q, c, s)
          PROVE  Commit(r)
      BY <3>3, <3>8 DEF Begin
    <3> QED BY <3>5, <3>6, <3>7, <3>8 DEF Next, CreateCollege, CreateUser, CreateUnit,
        BulkImportUsersCSV, BulkImportEnrollmentsCSV
  <2>2. db' = View(r) /\ rest[r] = <<>>
    BY <2>1 DEF Commit, View, Visible
  <2>3. Executed(View(r), asked[r], <<>>)
    BY <2>2 DEF AccountsInv, OfRequest
  <2>4. asked[r] \in Seq(Statements)
    BY DEF AccountsInv, Shapes
  <2>5. i \in 1..(Len(asked[r]) - Len(<<>>))
    BY <2>4, LenProperties
  <2> QED BY <2>2, <2>3, <2>5 DEF Executed
<1>2. Spec => [][Hold]_vars
  BY <1>1, AccountsAlways, PTL DEF Spec
<1> QED BY <1>2 DEF AnswersHold
-----------------------------------------------------------------------------
(* Tenants *)

\* A statement that writes to the college c only.
Within(s, c) ==
  /\ s.table = "users" => s.row.college = c
  /\ s.table = "colleges" => s.row.id = c

\* An administrator of the college is behind the request, or the college is not
\* there yet.
Authorised(r) == HasAdmin(db, tenant[r]) \/ tenant[r] \notin Ids(db["colleges"])

OfTenant(r) ==
  /\ \A i \in 1..Len(rest[r]) : Within(rest[r][i], tenant[r])
  /\ \A u \in pending[r]["users"] : u.college = tenant[r]
  /\ \A c \in Ids(pending[r]["colleges"]) : c = tenant[r]
  /\ \A n \in pending[r]["enrollments"] :
       Account(n.email, "student", tenant[r]) \in Visible(r, "users")
  /\ state[r] = "running" => Authorised(r)

TenantInv == \A r \in Requests : OfTenant(r)

Succeeds(r) == state[r] = "running" /\ state'[r] = "done"

\* An account, an administrator's among them, comes to a college only by the
\* success of a request that one of its administrators made or that founds the
\* college; and whoever is enrolled is a student of the college of the request.
Apart ==
  /\ \A c \in Ids(db'["colleges"]) \ Ids(db["colleges"]) :
       \E r \in Requests : Succeeds(r) /\ tenant[r] = c
  /\ \A u \in db'["users"] \ db["users"] :
       \E r \in Requests : Succeeds(r) /\ tenant[r] = u.college /\ Authorised(r)
  /\ \A n \in db'["enrollments"] \ db["enrollments"] :
       \E r \in Requests :
         /\ Succeeds(r) /\ Authorised(r)
         /\ Account(n.email, "student", tenant[r]) \in db'["users"]

TenantsApart == [][Apart]_vars

\* What the tables hold more of does not take an authorisation away, and a
\* college that appears comes with its administrator.
LEMMA StaysAuthorised ==
  ASSUME NEW r \in Requests, Authorised(r), tenant'[r] = tenant[r],
         db["users"] \subseteq db'["users"], Founded(db', <<>>)
  PROVE  Authorised(r)'
<1>1. Len(<<>>) = 0
  OBVIOUS
<1>2. \A c \in Ids(db'["colleges"]) : HasAdmin(db', c)
  BY <1>1 DEF Founded, HasAdmin
<1>3. HasAdmin(db, tenant[r]) => HasAdmin(db', tenant[r])
  BY DEF HasAdmin
<1> QED BY <1>2, <1>3 DEF Authorised

\* Nor does it concern a request whose own variables stay.
LEMMA OtherTenants ==
  ASSUME NEW r \in Requests, OfTenant(r), tenant'[r] = tenant[r], state'[r] = state[r],
         rest'[r] = rest[r], pending'[r] = pending[r],
         db["users"] \subseteq db'["users"], Founded(db', <<>>)
  PROVE  OfTenant(r)'
<1>1. state'[r] = "running" => Authorised(r)'
  BY StaysAuthorised DEF OfTenant
<1>2. \A n \in pending'[r]["enrollments"] :
        Account(n.email, "student", tenant'[r]) \in Visible(r, "users")'
  BY DEF OfTenant, Visible
<1> QED BY <1>1, <1>2 DEF OfTenant

\* A request begins with statements about its own college.
LEMMA BeginTenant ==
  ASSUME AccountsInv, TenantInv, NEW r \in Requests, NEW c, NEW s,
         Begin(r, c, s), \A i \in 1..Len(s) : Within(s[i], c),
         HasAdmin(db, c) \/ c \notin Ids(db["colleges"])
  PROVE  TenantInv'
<1>1. Founded(db, <<>>) /\ db' = db
  BY DEF AccountsInv, Tabular, Begin
<1>2. ASSUME NEW q \in Requests, q # r PROVE OfTenant(q)'
  <2>1. /\ tenant'[q] = tenant[q] /\ state'[q] = state[q] /\ rest'[q] = rest[q]
        /\ pending'[q] = pending[q]
    BY <1>2 DEF Begin, AccountsInv, Shapes
  <2> QED BY <1>1, <2>1, OtherTenants DEF TenantInv
<1>3. OfTenant(r)'
  <2>1. /\ tenant'[r] = c /\ rest'[r] = s /\ pending'[r] = NoRows
    BY DEF Begin, AccountsInv, Shapes, OfRequest
  <2>2. NoRows["users"] = {} /\ NoRows["colleges"] = {} /\ NoRows["enrollments"] = {}
    BY DEF NoRows, Tables
  <2>3. Authorised(r)'
    BY <1>1, <2>1 DEF Authorised
  <2> QED BY <2>1, <2>2, <2>3 DEF OfTenant, Ids
<1> QED BY <1>2, <1>3 DEF TenantInv

\* An answer leaves nothing of a request.
LEMMA AnswerTenant ==
  ASSUME AccountsInv, TenantInv, NEW r \in Requests, NEW s \in {"done", "failed"},
         Answers(r, s), RolledBack(r),
         db["users"] \subseteq db'["users"], Founded(db', <<>>)
  PROVE  TenantInv'
<1>1. Shapes
  BY DEF AccountsInv
<1>2. ASSUME NEW q \in Requests, q # r PROVE OfTenant(q)'
  <2>1. /\ tenant'[q] = tenant[q] /\ state'[q] = state[q] /\ rest'[q] = rest[q]
        /\ pending'[q] = pending[q]
    BY <1>1, <1>2 DEF Answers, RolledBack, Shapes
  <2> QED BY <2>1, OtherTenants DEF TenantInv
<1>3. OfTenant(r)'
  <2>1. state'[r] = s /\ rest'[r] = <<>> /\ pending'[r] = NoRows
    BY <1>1, AnswerLeaves
  <2>2. NoRows["users"] = {} /\ NoRows["colleges"] = {} /\ NoRows["enrollments"] = {}
    BY DEF NoRows, Tables
  <2>3. Len(<<>>) = 0
    OBVIOUS
  <2> QED BY <2>1, <2>2, <2>3 DEF OfTenant, Ids
<1> QED BY <1>2, <1>3 DEF TenantInv

\* A statement is taken from those that are left.
LEMMA TailWithin ==
  ASSUME NEW s \in Seq(Statements), s # <<>>, NEW c, \A i \in 1..Len(s) : Within(s[i], c)
  PROVE  Within(Head(s), c) /\ \A i \in 1..Len(Tail(s)) : Within(Tail(s)[i], c)
<1> DEFINE t == Tail(s)
<1>1. Len(s) \in Nat \ {0} /\ Len(t) = Len(s) - 1 /\ Head(s) = s[1]
  BY EmptySeq, HeadTailProperties
<1>2. \A i \in 1..Len(t) : t[i] = s[i+1]
  BY HeadTailProperties
<1> HIDE DEF t
<1>3. \A i \in 1..Len(t) : i + 1 \in 1..Len(s)
  BY <1>1
<1> QED BY <1>1, <1>2, <1>3 DEF t

\* A row is written to the college of the request, and an enrollment is of one
\* of its students.
LEMMA InsertTenant ==
  ASSUME AccountsInv, TenantInv, NEW r \in Requests, Insert(r) \/ Skip(r)
  PROVE  TenantInv'
<1> DEFINE s == Stmt(r)
<1>0. Shapes /\ Founded(db, <<>>) /\ db' = db /\ Ready(r)
  BY DEF AccountsInv, Tabular, Insert, Skip
<1>1. /\ rest[r] \in Seq(Statements) /\ rest[r] # <<>> /\ s = Head(rest[r])
      /\ s.table \in Tables
  BY <1>0, NextStatement, StatementParts
<1>2. /\ Within(s, tenant[r])
      /\ \A i \in 1..Len(Tail(rest[r])) : Within(Tail(rest[r])[i], tenant[r])
  BY <1>1, TailWithin DEF TenantInv, OfTenant
<1>3. ASSUME NEW q \in Requests, q # r PROVE OfTenant(q)'
  <2>1. /\ tenant'[q] = tenant[q] /\ state'[q] = state[q] /\ rest'[q] = rest[q]
        /\ pending'[q] = pending[q]
    BY <1>0, <1>3 DEF Insert, Skip, Shapes
  <2> QED BY <1>0, <2>1, OtherTenants DEF TenantInv
<1>4. OfTenant(r)'
  <2>1. /\ rest'[r] = Tail(rest[r]) /\ tenant'[r] = tenant[r] /\ state'[r] = state[r]
    BY <1>0 DEF Insert, Skip, Shapes
  <2>2. state'[r] = "running" => Authorised(r)'
    BY <1>0, <2>1, StaysAuthorised DEF TenantInv, OfTenant
  <2>3. CASE Skip(r)
    <3>1. pending' = pending
      BY <2>3 DEF Skip
    <3> QED BY <1>0, <1>2, <2>1, <2>2, <3>1 DEF TenantInv, OfTenant, Visible
  <2>4. CASE Insert(r)
    <3>1. Wanted(r) /\ \A t \in Tables :
            pending'[r][t] = IF t = s.table THEN pending[r][t] \cup {s.row} ELSE pending[r][t]
      BY <1>0, <1>1, <2>4 DEF Insert, Shapes
    <3>2. \A u \in pending'[r]["users"] : u.college = tenant[r]
      BY <1>2, <3>1 DEF TenantInv, OfTenant, Within, Tables
    <3>3. \A c \in Ids(pending'[r]["colleges"]) : c = tenant[r]
      BY <1>2, <3>1 DEF TenantInv, OfTenant, Within, Tables, Ids
    <3>4. \A n \in pending'[r]["enrollments"] :
            Account(n.email, "student", tenant[r]) \in Visible(r, "users")
      BY <3>1 DEF TenantInv, OfTenant, Wanted, Tables
    <3>5. Visible(r, "users") \subseteq Visible(r, "users")'
      BY <1>0, <3>1 DEF Visible, Tables
    <3> QED BY <1>2, <2>1, <2>2, <3>2, <3>3, <3>4, <3>5 DEF OfTenant
  <2> QED BY <2>3, <2>4
<1> QED BY <1>3, <1>4 DEF TenantInv

\* The requests that begin are about the college of their administrator.
LEMMA BeginningsTenant ==
  ASSUME AccountsInv, TenantInv, NEW r \in Requests,
         \/ \E c \in Colleges, e \in Founders : CreateCollege(r, c, e)
         \/ \E c \in Administered :
              \/ \E u \in Persons : CreateUser(r, c, u)
              \/ \E unit \in Units : CreateUnit(r, c, unit)
              \/ \E f \in UserFiles : BulkImportUsersCSV(r, c, f)
              \/ \E f \in EnrollmentFiles : BulkImportEnrollmentsCSV(r, c, f)
  PROVE  TenantInv'
<1>1. \A c \in Administered : c \in Colleges /\ HasAdmin(db, c)
  BY DEF AccountsInv, Shapes, Claims, Administered, Valid, HasAdmin, Account
<1>2. ASSUME NEW c \in Colleges, NEW e \in Founders, CreateCollege(r, c, e)
      PROVE  TenantInv'
  <2>1. \A i \in 1..Len(Founding(c, e)) : Within(Founding(c, e)[i], c)
    <3> DEFINE a == Statement("colleges", Named(c), FALSE)
               b == Statement("users", Account(e, "admin", c), FALSE)
    <3>1. Within(a, c) /\ Within(b, c) /\ Founding(c, e) = <<a, b>>
      BY DEF Within, Statement, Named, Account, Founding
    <3> HIDE DEF a, b
    <3> QED BY <3>1
  <2> QED BY <1>2, <2>1, BeginTenant DEF CreateCollege
<1>3. ASSUME NEW c \in Administered, NEW u \in Persons, CreateUser(r, c, u)
      PROVE  TenantInv'
  <2> DEFINE s == Statement("users", Account(u.email, u.role, c), FALSE)
  <2>1. Within(s, c) /\ Begin(r, c, <<s>>)
    BY <1>3 DEF CreateUser, Within, Statement, Account
  <2> HIDE DEF s
  <2>2. \A i \in 1..Len(<<s>>) : Within(<<s>>[i], c)
    BY <2>1
  <2> QED BY <1>1, <2>1, <2>2, BeginTenant
<1>4. ASSUME NEW c \in Administered, NEW unit \in Units, CreateUnit(r, c, unit)
      PROVE  TenantInv'
  <2> DEFINE s == Statement("units", Named(unit), FALSE)
  <2>1. Within(s, c) /\ Begin(r, c, <<s>>)
    BY <1>4 DEF CreateUnit, Within, Statement
  <2> HIDE DEF s
  <2>2. \A i \in 1..Len(<<s>>) : Within(<<s>>[i], c)
    BY <2>1
  <2> QED BY <1>1, <2>1, <2>2, BeginTenant
<1>5. ASSUME NEW c \in Administered, NEW f \in UserFiles, BulkImportUsersCSV(r, c, f)
      PROVE  TenantInv'
  <2> DEFINE n == Len(DataRows(f))
             s == [i \in 1..n |->
                     LET row == DataRows(f)[i]
                     IN Statement("users", Account(row.email, row.role, c), TRUE)]
  <2>1. s \in Seq(Statements) /\ Begin(r, c, s)
    BY <1>1, <1>5, UserRows DEF BulkImportUsersCSV
  <2>2. \A i \in DOMAIN s : Within(s[i], c)
    BY DEF Within, Statement, Account
  <2> HIDE DEF s
  <2>3. \A i \in 1..Len(s) : Within(s[i], c)
    BY <2>1, <2>2, LenProperties
  <2> QED BY <1>1, <2>1, <2>3, BeginTenant
<1>6. ASSUME NEW c \in Administered, NEW f \in EnrollmentFiles,
             BulkImportEnrollmentsCSV(r, c, f)
      PROVE  TenantInv'
  <2> DEFINE s == [i \in 1..Len(Tail(f)) |-> Statement("enrollments", Tail(f)[i], TRUE)]
  <2>1. s \in Seq(Statements) /\ Begin(r, c, s)
    BY <1>6, EnrollmentRows DEF BulkImportEnrollmentsCSV
  <2>2. \A i \in DOMAIN s : Within(s[i], c)
    BY DEF Within, Statement
  <2> HIDE DEF s
  <2>3. \A i \in 1..Len(s) : Within(s[i], c)
    BY <2>1, <2>2, LenProperties
  <2> QED BY <1>1, <2>1, <2>3, BeginTenant
<1> QED BY <1>2, <1>3, <1>4, <1>5, <1>6

LEMMA NextTenant == AccountsInv /\ TenantInv /\ [Next]_vars => TenantInv'
<1> SUFFICES ASSUME AccountsInv, TenantInv, [Next]_vars PROVE TenantInv'
  OBVIOUS
<1>1. AccountsInv'
  BY NextAccounts
<1>2. Founded(db, <<>>) /\ Founded(db', <<>>)
  BY <1>1 DEF AccountsInv, Tabular
<1>3. ASSUME UNCHANGED <<db, request>> PROVE TenantInv'
  BY <1>2, <1>3, OtherTenants DEF TenantInv, request
<1>4. CASE \/ UNCHANGED vars
           \/ \E u \in db["users"] : Login(u) \/ RequestPasswordReset(u)
           \/ \E t \in tokens :
                Refresh(t) \/ Expire(t) \/ \E p \in Passwords : ConfirmPasswordReset(t, p)
  BY <1>3, <1>4 DEF Login, RequestPasswordReset, Refresh, Expire, ConfirmPasswordReset, vars
<1>5. ASSUME NEW r \in Requests,
             \/ \E c \in Colleges, e \in Founders : CreateCollege(r, c, e)
             \/ \E c \in Administered :
                  \/ \E u \in Persons : CreateUser(r, c, u)
                  \/ \E unit \in Units : CreateUnit(r, c, unit)
                  \/ \E f \in UserFiles : BulkImportUsersCSV(r, c, f)
                  \/ \E f \in EnrollmentFiles : BulkImportEnrollmentsCSV(r, c, f)
      PROVE  TenantInv'
  BY <1>5, BeginningsTenant
<1>6. ASSUME NEW r \in Requests, Run(r) \/ Fail(r) PROVE TenantInv'
  <2>1. CASE Insert(r) \/ Skip(r)
    BY <2>1, InsertTenant
  <2>2. CASE End(r)
    BY <1>2, <2>2, AnswerTenant DEF End, Error
  <2>3. CASE Commit(r)
    <3>1. db["users"] \subseteq db'["users"]
      BY <2>3 DEF Commit, Tables
    <3> QED BY <1>2, <2>3, <3>1, AnswerTenant DEF Commit, RolledBack
  <2> QED BY <1>6, <2>1, <2>2, <2>3 DEF Run, Refuse, Abort, Fail
<1> QED BY <1>4, <1>5, <1>6 DEF Next

LEMMA TenantsAlways == Spec => [](AccountsInv /\ TenantInv)
<1>1. Init => TenantInv
  <2>1. Len(<<>>) = 0
    OBVIOUS
  <2>2. NoRows["users"] = {} /\ NoRows["colleges"] = {} /\ NoRows["enrollments"] = {}
    BY DEF NoRows, Tables
  <2> QED BY <2>1, <2>2 DEF Init, TenantInv, OfTenant, Ids
<1> QED BY <1>1, NextTenant, AccountsAlways, PTL DEF Spec

\* Nobody gets into a college, as its administrator least of all, and nobody is
\* enrolled but by a request of that college's own administrator or founder,
\* whatever requests of other colleges interleave and whatever files name.
THEOREM TenantsStayApart == Spec => TenantsApart
<1>1. AccountsInv /\ TenantInv /\ [Next]_vars => [Apart]_vars
  <2> SUFFICES ASSUME AccountsInv, TenantInv, Next PROVE Apart
    OBVIOUS
  <2>1. CASE db' = db
    BY <2>1 DEF Apart
  <2>2. ASSUME NEW r \in Requests, Commit(r) PROVE Apart
    <3>1. /\ state[r] = "running" /\ \A t \in Tables : db'[t] = db[t] \cup pending[r][t]
          /\ Answers(r, "done")
      BY <2>2 DEF Commit
    <3>2. Succeeds(r) /\ Authorised(r) /\ OfTenant(r)
      BY <3>1 DEF Succeeds, Answers, AccountsInv, Shapes, TenantInv, OfTenant
    <3>3. \A u \in db'["users"] \ db["users"] : tenant[r] = u.college
      BY <3>1, <3>2 DEF OfTenant, Tables
    <3>4. \A n \in db'["enrollments"] \ db["enrollments"] :
            Account(n.email, "student", tenant[r]) \in db'["users"]
      BY <3>1, <3>2 DEF OfTenant, Visible, Tables
    <3>5. \A c \in Ids(db'["colleges"]) \ Ids(db["colleges"]) : tenant[r] = c
      BY <3>1, <3>2 DEF OfTenant, Ids, Tables
    <3> QED BY <3>2, <3>3, <3>4, <3>5 DEF Apart
  <2>3. db' = db \/ \E r \in Requests : Commit(r)
    BY DEF Next, Login, RequestPasswordReset, Refresh, Expire, ConfirmPasswordReset, CreateCollege,
      CreateUser, CreateUnit, BulkImportUsersCSV, BulkImportEnrollmentsCSV, Begin, Run, Insert, Skip,
      Refuse, Abort, Fail, End
  <2> QED BY <2>1, <2>2, <2>3
<1> QED BY <1>1, TenantsAlways, PTL DEF Spec, TenantsApart
-----------------------------------------------------------------------------
(* Waiting *)

\* Where everybody waits for one of their own, some of them wait in a circle:
\* a smallest such set is one that PostgreSQL finds deadlocked.
LEMMA StandstillIsDeadlock ==
  ASSUME NEW R \in SUBSET Requests, R # {}, \A r \in R : WaitsFor(r) \cap R # {}
  PROVE  \E S \in SUBSET R : S # {} /\ Deadlocked(S)
<1> DEFINE Closed(S) == S # {} /\ \A r \in S : WaitsFor(r) \cap S # {}
           T == {S \in SUBSET R : Closed(S)}
           Less == StrictSubsetOrdering(Requests)
<1>1. IsWellFoundedOn(Less, SUBSET Requests)
  BY FS_StrictSubsetOrderingWellFounded, FS_FiniteSubsetsOfFinite, RequestsAssumption
<1>2. T \subseteq SUBSET Requests /\ R \in T
  OBVIOUS
<1>3. PICK S \in T : \A Q \in T : ~(<<Q, S>> \in Less)
  <2> HIDE DEF T, Less
  <2>1. T # {}
    BY <1>2
  <2> QED BY <1>1, <1>2, <2>1, WFMin
<1>4. S \in SUBSET R /\ Closed(S)
  BY <1>3
<1>5. ASSUME NEW x \in S, \A q \in S : x \notin WaitsFor(q)
      PROVE  FALSE
  <2>1. S \ {x} \in T
    <3>1. S \ {x} # {}
      <4>1. PICK y : y \in WaitsFor(x) \cap S
        BY <1>4
      <4>2. y # x
        BY <1>5, <4>1
      <4> QED BY <4>1, <4>2
    <3>2. \A r \in S \ {x} : WaitsFor(r) \cap (S \ {x}) # {}
      BY <1>4, <1>5
    <3> QED BY <1>4, <3>1, <3>2
  <2>2. <<S \ {x}, S>> \in Less
    BY <1>2, <1>3 DEF StrictSubsetOrdering
  <2> QED BY <1>3, <2>1, <2>2
<1>6. Deadlocked(S)
  BY <1>4, <1>5 DEF Deadlocked
<1> QED BY <1>4, <1>6

\* Whoever is waited for runs: nobody keeps a key after the end of a request.
LEMMA WaitsForRunning ==
  ASSUME AccountsInv, NEW r \in Requests, NEW q \in WaitsFor(r)
  PROVE  q \in Requests /\ state[q] = "running"
<1>1. Ready(r) /\ q \in Requests /\ pending[q][Stmt(r).table] # {}
  BY DEF WaitsFor
<1>2. Stmt(r).table \in Tables
  BY <1>1, NextStatement, StatementParts DEF AccountsInv
<1>3. NoRows[Stmt(r).table] = {}
  BY <1>2 DEF NoRows
<1> QED BY <1>1, <1>3 DEF AccountsInv, OfRequest

\* Take a running request and all it waits for, directly or through others: one
\* of them waits for nobody, so that its statement runs, is skipped or refused, or
\* it commits; or it is in a deadlock, which PostgreSQL breaks.
SomebodyGoesOn ==
  \A R \in SUBSET Requests :
    /\ \E r \in R : state[r] = "running"
    /\ \A r \in R : WaitsFor(r) \subseteq R
    => \E q \in R :
         /\ state[q] = "running"
         /\ WaitsFor(q) = {} \/ \E S \in SUBSET R : q \in S /\ Deadlocked(S)

\* Requests never stand still together without a deadlock among them: with
\* StatementsGetFewer, what fairness turns into RequestsAnswered.
THEOREM NobodyIsStuck == Spec => []SomebodyGoesOn
<1>1. AccountsInv => SomebodyGoesOn
  <2> SUFFICES ASSUME AccountsInv, NEW R \in SUBSET Requests, NEW r \in R, state[r] = "running",
                      \A x \in R : WaitsFor(x) \subseteq R,
                      \A q \in R : state[q] = "running" => WaitsFor(q) # {}
               PROVE  \E q \in R : /\ state[q] = "running"
                                   /\ \E S \in SUBSET R : q \in S /\ Deadlocked(S)
    BY DEF SomebodyGoesOn
  <2> DEFINE W == {q \in R : state[q] = "running"}
  <2>1. W \in SUBSET Requests /\ W # {} /\ \A x \in W : WaitsFor(x) \cap W # {}
    BY WaitsForRunning
  <2>2. PICK S \in SUBSET W : S # {} /\ Deadlocked(S)
    <3> HIDE DEF W
    <3> QED BY <2>1, StandstillIsDeadlock
  <2>3. PICK q : q \in S
    BY <2>2
  <2> QED BY <2>2, <2>3
<1> QED BY <1>1, AccountsAlways, PTL

\* A step of a request runs one of its statements, or answers it; nobody else's
\* step touches what a request has left to do.
Fewer ==
  \A r \in Requests : state[r] = "running" =>
    /\ Run(r) \/ Fail(r) =>
         state'[r] # "running" \/ Len(rest'[r]) < Len(rest[r])
    /\ ~(Run(r) \/ Fail(r)) => state'[r] = "running" /\ rest'[r] = rest[r]

StatementsGetFewer == [][Fewer]_vars

\* A request makes each of its statements once and is then answered.
THEOREM RequestsGetShorter == Spec => StatementsGetFewer
<1>1. AccountsInv /\ [Next]_vars => [Fewer]_vars
  <2> SUFFICES ASSUME AccountsInv, Next, NEW r \in Requests, state[r] = "running"
               PROVE  /\ Run(r) \/ Fail(r) =>
                           state'[r] # "running" \/ Len(rest'[r]) < Len(rest[r])
                      /\ ~(Run(r) \/ Fail(r)) => state'[r] = "running" /\ rest'[r] = rest[r]
    BY DEF Fewer
  <2>1. Shapes
    BY DEF AccountsInv
  <2>2. CASE Run(r) \/ Fail(r)
    <3>1. CASE Insert(r) \/ Skip(r)
      <4>1. rest[r] \in Seq(Statements) /\ rest[r] # <<>> /\ rest'[r] = Tail(rest[r])
        BY <2>1, <3>1, NextStatement DEF Insert, Skip, Shapes
      <4>2. Len(rest[r]) \in Nat /\ Len(Tail(rest[r])) = Len(rest[r]) - 1
        BY <4>1, EmptySeq, HeadTailProperties
      <4> QED BY <2>2, <4>1, <4>2
    <3>2. CASE End(r) \/ Commit(r)
      BY <2>1, <2>2, <3>2 DEF End, Commit, Answers, Error, Shapes
    <3> QED BY <2>2, <3>1, <3>2 DEF Run, Refuse, Abort, Fail
  <2>3. CASE ~(Run(r) \/ Fail(r))
    <3>1. ASSUME NEW q \in Requests, Run(q) \/ Fail(q)
          PROVE  state'[r] = state[r] /\ rest'[r] = rest[r]
      <4>1. q # r
        BY <2>3, <3>1
      <4> QED BY <2>1, <3>1, <4>1
           DEF Run, Fail, Insert, Skip, Refuse, Abort, End, Commit, Answers, Shapes
    <3>2. ASSUME NEW q \in Requests, NEW c, NEW s, Begin(q, c, s)
          PROVE  state'[r] = state[r] /\ rest'[r] = rest[r]
      <4>1. q # r
        BY <3>2 DEF Begin
      <4> QED BY <2>1, <3>2, <4>1 DEF Begin, Shapes
    <3>3. CASE \/ \E u \in db["users"] : Login(u) \/ RequestPasswordReset(u)
               \/ \E t \in tokens :
                    Refresh(t) \/ Expire(t) \/ \E p \in Passwords : ConfirmPasswordReset(t, p)
      BY <2>3, <3>3 DEF Login, RequestPasswordReset, Refresh, Expire, ConfirmPasswordReset, request
    <3> QED BY <2>3, <3>1, <3>2, <3>3 DEF Next, CreateCollege, CreateUser, CreateUnit,
        BulkImportUsersCSV, BulkImportEnrollmentsCSV
  <2> QED BY <2>2, <2>3
<1> QED BY <1>1, AccountsAlways, PTL DEF Spec, StatementsGetFewer
=============================================================================
