--------------------------- MODULE MCCatalogSeeding ----------------------------
(* Model-checking instances of CatalogSeeding. *)
EXTENDS CatalogSeedingSafety

CONSTANTS t1, t2, s1, s2

(* Two funds of FUND_CATALOG: a run may stop before, between and after them. *)
MCFundCatalog == <<"1", "2">>
===============================================================================
