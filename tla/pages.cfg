SPECIFICATION Spec
CONSTANTS
    Cursos = {curso}
    Global = global
    Miembros = {ana}
    Anonimo = anon
    Variantes = {view}
    SinConsulta = {view}
    SinGeneracion = sin_generacion
    SinPagina = sin_pagina
    Lectores = {l1}
    Escritores = {w1}
    MaxVersiones = 2
    MaxMatriculas = 1
    MaxPaginas = 2
    MaxFallas = 1
    MaxPerdidas = 1
INVARIANTS TypeOK PageAnswersRequest CourseEditIsVisible
