-------------------------- MODULE DatabaseWebhook --------------------------
(***************************************************************************)
(* The validating webhook of Database objects                              *)
(* (api/v1alpha1/database_webhook.go).  Spec.Name is valid and never       *)
(* changes in this project, so what is left of ValidateCreate and          *)
(* ValidateUpdate is ValidateCharsetCollationCombo; ValidateDelete allows  *)
(* everything.  Warnings refuse nothing and are left out.                  *)
(***************************************************************************)

CONSTANTS
  Unset,      \* an empty string
  NoObject    \* the reference of a Database that names no AdminConnection

\* What the specification leaves open is what the server is believed to pick.
CharsetOf(spec, status) ==
  IF spec.charset = Unset THEN status.charset ELSE spec.charset

\* Variant: the collation of the specification is not looked at.
CollationOfVariant(spec, status) == status.collation

CollationOf(spec, status) ==
  IF spec.collation = Unset THEN status.collation ELSE spec.collation

\* Variant: any collation of the server goes with any character set.
ComboValidVariant(charset, collation, available) ==
  /\ \E p \in available : p[1] = charset
  /\ \E p \in available : p[2] = collation

ComboValid(charset, collation, available) == <<charset, collation>> \in available

\* `connections` is what the manager's client reads, the informer's copies.
ValidateCharsetCollationCombo(spec, connections) ==
  spec.admin # NoObject =>
    LET connection == connections[spec.admin]
        status     == connection.status
    IN  /\ connection.phase = "live"
        /\ ComboValid(CharsetOf(spec, status), CollationOf(spec, status),
                      status.available)
=============================================================================
