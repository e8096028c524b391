--------------------------- MODULE MCQuotaAdmission ---------------------------
(* QuotaAdmission on small instances. *)
EXTENDS QuotaAdmission
=============================================================================
