--------------------------- MODULE MCWorkstationTabs ---------------------------
(* WorkstationTabs with the cases and contents as model values.             *)
EXTENDS WorkstationTabs, TLC

MCLoads == {{}, {"workbook", "overlays"}}
Symmetry == Permutations(Cases)
===============================================================================
