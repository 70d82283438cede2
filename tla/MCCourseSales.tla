---------------------------- MODULE MCCourseSales ----------------------------
(* Values of the constants for the runs of CourseSales. *)
EXTENDS CourseSales, TLC

Curso(pagado, auditable, precio) ==
    [pagado |-> pagado, auditable |-> auditable, precio |-> precio]
Descuento(tipo, valor) == [discount_type |-> tipo, discount_value |-> valor]

CursoDePago == {Curso(TRUE, FALSE, 100)}
CursoAuditable == {Curso(TRUE, TRUE, 100)}
CursosVarios == {Curso(FALSE, FALSE, 100), Curso(TRUE, TRUE, 100)}

MitadOGratis == {Descuento("percentage", 50), Descuento("percentage", 100)}
Mitad == {Descuento("fixed", 50)}
=============================================================================
