----------------------------- MODULE MCAccounts -----------------------------
(* Two colleges that share the people they name, and two requests at once.  *)
EXTENDS Accounts

Header    == [email |-> "ann", role |-> "role"]
Row(e, r) == [email |-> e, role |-> r]

MCPersons == {Row("bob", "student")}

MCUserFiles ==
  {<<Row("ann", "student"), Row("bob", "student")>>,
   <<Header, Row("bob", "student"), Row("ann", "student"), Row("root", "staff")>>}

MCEnrollmentFiles ==
  {<<Header, [email |-> "bob", section |-> "algebra"]>>}
=============================================================================
