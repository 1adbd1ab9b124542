------------------------------ MODULE MCImport ------------------------------
(* Constants of ImportOdoo for TLC: people, one of them mapped, and the       *)
(* companies they link to.                                                    *)
EXTENDS ImportOdoo, TLC

CONSTANTS ann, bob, hq, far, adm

MCOrder == <<ann, bob, adm, hq>>
MCLink == ann :> hq @@ bob :> hq @@ adm :> far @@ hq :> adm @@ far :> far
MCMapped == adm :> 1

=============================================================================
