---------------------- MODULE MCDatabaseUserReconciler ----------------------
(* Instances of DatabaseUserReconciler for TLC.                            *)
EXTENDS DatabaseUserOwnership, TLC

CONSTANTS n1, n2, m1, k1, k2, db1

\* n1 and n2 are names on k1's server, and m1 is n1 on that of k2.
HostOf  == [n \in Names |-> IF n = m1 THEN k2 ELSE k1]
SameName == [k \in Connections |->
              [n \in Names |-> IF k = k2 THEN m1 ELSE IF n = m1 THEN n1 ELSE n]]

\* Users move objects from k1 to k2 only.
There == {<<k1, k2>>}

Plain(n) == [username |-> n, ident |-> "none", tls |-> FALSE, databases |-> {}]
Secured(t, ds) == [Plain(n1) EXCEPT !.ident = "secret", !.tls = t, !.databases = ds]
Plugged        == [Plain(n1) EXCEPT !.ident = "plugin"]

Renames     == {Plain(n1), Plain(n2)}
Credentials == {Secured(FALSE, {}), Secured(TRUE, {}), Plugged}
On(n, s)    == [s EXCEPT !.username = n]
Relocations == {Secured(FALSE, {}), Secured(FALSE, {db1}), On(m1, Secured(FALSE, {}))}
Grants      == {[Plain(n1) EXCEPT !.databases = {db1}]}

\* The two names play the same part.
NameSymmetry == Permutations(Names)
=============================================================================
