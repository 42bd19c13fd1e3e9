--------------------------- MODULE MCRegistration ---------------------------
(***************************************************************************)
(* Instance of Registration for TLC.                                       *)
(***************************************************************************)
EXTENDS Registration

\* The requests differ in the username and share the address.
NamesOf == [r \in Requests |-> r]
MailsOf == [r \in Requests |-> 1]

\* Only the message of request 1 is delivered again: its two runs share both.
DeliveriesOf == [r \in Requests |-> IF r = 1 THEN 2 ELSE 1]

\* The second request may bear the id of other calls.
OneShared == {2}

=============================================================================
