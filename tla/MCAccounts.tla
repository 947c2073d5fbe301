----------------------------- MODULE MCAccounts -----------------------------
EXTENDS Accounts
CONSTANTS root, admin, hire, o1, o2, e1, e2, t1, t2
=============================================================================
