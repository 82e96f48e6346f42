----------------------------- MODULE MCCatalog -----------------------------
(* Constants of the TLC runs of Catalog: sessions of different users and a *)
(* workbook with a row for each of two products.                           *)
EXTENDS Catalog, TLC
MCUserOf == [s \in Sessions |-> s]
Row(n, a) == [name |-> n, amount |-> a]
MCWorkbooks == {1 :> Row("filete", 10) @@ 2 :> Row("lomo", 20)}
Symmetry == Permutations(Editors) \cup Permutations(Importers) \cup Permutations(Sessions)
=============================================================================
