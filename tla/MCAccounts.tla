------------------------------ MODULE MCAccounts ------------------------------
(* Two emails, one name that both may ask for, and two requests at a time.*)
EXTENDS Accounts, TLC

CONSTANTS e1, e2, name1, c1, c2

TwoEmails == {e1, e2}
OneName == {name1}
TwoCalls == {c1, c2}

Alike == Permutations(TwoEmails) \cup Permutations(TwoCalls)
=============================================================================
