------------------------- MODULE CertificateTemplates -------------------------
(***************************************************************************)
(* The bodies of the certificates (db/certificates_templates.py) and what  *)
(* rendering one prints (vistas/certificates.py).  A body is a template    *)
(* that asks for names; a name that the page does not have prints a blank, *)
(* and some expressions cannot be evaluated at all.  Layout and wording    *)
(* are left out.                                                           *)
(***************************************************************************)
EXTENDS Naturals, FiniteSets

\* usuario: the projection CertificateHolder.
CertificateHolder == {"usuario.id", "usuario.nombre", "usuario.apellido"}

\* Columns of Usuario that the projection leaves out.
Personales == {"usuario.correo_electronico", "usuario.nacimiento", "usuario.bio"}

Titular == {"usuario.nombre", "usuario.apellido"}
Certificacion == {"certificacion.id", "certificacion.fecha"}

\* A body is its style and its text, parsed together (insert_style_in_html).
\* pide: names that the body prints.  llama: names on whose value it calls
\* something.  anios: years that it adds to the date of the certificate.
\* analiza: it can be parsed.
Cuerpo(pide) == [pide |-> pide, llama |-> {}, anios |-> 0, analiza |-> TRUE]

----------------------------------------
(* The bodies that are installed *)

DeCurso == Titular \cup Certificacion \cup {"curso.nombre"}

Horizontal == Cuerpo(DeCurso)
Vertical == Cuerpo(DeCurso)
Elegante == Cuerpo(DeCurso)
Moderno == Cuerpo(DeCurso)
Clasico == Cuerpo(DeCurso)
Corporativo == Cuerpo(DeCurso)

\* The instructor is printed where the course has one.
Default == [Cuerpo(DeCurso \cup {"usuario.id"}) EXCEPT !.llama = {"certificacion.fecha"}]

\* The certificate expires two years later, by the body.
Profesional == [Cuerpo(DeCurso) EXCEPT !.llama = {"certificacion.fecha"}, !.anios = 2]

DePrograma == Titular \cup {"programa.nombre", "certificacion_programa.id",
                            "certificacion_programa.fecha"}

\* The courses of the program are listed too.
DelPrograma == [Cuerpo(DePrograma \cup {"programa.descripcion"}) EXCEPT
                   !.llama = {"certificacion_programa.fecha"}]

\* The default description is an expression inside an expression.
ProgramaProfesional == [DelPrograma EXCEPT !.anios = 3, !.analiza = FALSE]

CERTIFICADOS ==
    [default |-> Default, horizontal |-> Horizontal, vertical |-> Vertical,
     elegante |-> Elegante, moderno |-> Moderno, clasico |-> Clasico,
     corporativo |-> Corporativo, profesional |-> Profesional,
     programa |-> DelPrograma, programa_profesional |-> ProgramaProfesional]

DeProgramas == {"programa", "programa_profesional"}

----------------------------------------
(* The page that renders a body *)

\* A course has a name; a master class has a title.
ConCurso(tipo) ==
    CertificateHolder \cup Certificacion \cup
    (IF tipo = "course" THEN {"curso.nombre"} ELSE {"curso.title"})

ConPrograma == CertificateHolder \cup {"programa.nombre", "programa.descripcion",
                                       "certificacion_programa.id", "certificacion_programa.fecha"}

Contexto(tipo) == IF tipo = "program" THEN ConPrograma ELSE ConCurso(tipo)

\* date.replace(year = year + n), for a 29th of February of a leap year.
SinFecha(n) == n % 4 # 0

Falla(cuerpo, tipo, bisiesto) ==
    \/ ~cuerpo.analiza
    \/ ~(cuerpo.llama \subseteq Contexto(tipo))
    \/ bisiesto /\ SinFecha(cuerpo.anios)

Impreso(cuerpo, tipo) == cuerpo.pide \cap Contexto(tipo)
===============================================================================
