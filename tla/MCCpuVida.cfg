SPECIFICATION SpecJusta
CONSTANTS
  r1 = r1
  r2 = r2
  r3 = r3
  nr = nr
  v1 = v1
  Arq = {r1, r2, r3}
  Nome = {r1, r2, r3}
  Valor = {nr}
  SemResposta = nr
  HistMax = 0
  Bloco = 1
  MaxT = 2
  Lista <- ComFalha
  Elegivel = {r1, r2}
  FalhaSessao = {r2}
  PodeMorrer = FALSE
  Idade = 1
PROPERTIES OrfaoDesaparece HistoriaVolta
