---------------------------- MODULE AllApiImports ----------------------------
(***************************************************************************)
(* What desc/all.api promises to the proto-driven API generator, seen from *)
(* outside: it is a list of imports of model .api files that grows only  *)
(* at its end, by a model it does not import yet, and that a failed write *)
(* may cut back to a prefix.  Nothing is ever reordered, inserted before  *)
(* another import or imported a second time.                               *)
(***************************************************************************)
EXTENDS Naturals, Sequences

CONSTANT Models      \* the models whose .api files may be imported

VARIABLE imports     \* the models all.api imports, in file order

(* An import of m is appended to the end of the file.                     *)
Import(m) ==
    /\ \A i \in DOMAIN imports : imports[i] # m
    /\ imports' = Append(imports, m)

(* A write that fails after truncating the file keeps a prefix of it.    *)
Truncate == \E n \in 0..Len(imports) : imports' = SubSeq(imports, 1, n)

Init == imports = <<>>

Next == (\E m \in Models : Import(m)) \/ Truncate

Spec == Init /\ [][Next]_imports

=============================================================================
