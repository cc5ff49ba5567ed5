\* One collected router and one that is no longer collected; kills anywhere.
SPECIFICATION Spec
CONSTANTS
  r1 = r1
  r2 = r2
  r3 = r3
  nr = nr
  v1 = v1
  Arq = {r1, r2}
  Nome = {r1, r2}
  Valor = {nr, v1}
  SemResposta = nr
  HistMax = 1
  Bloco = 1
  MaxT = 2
  Lista <- UmHost
  Elegivel = {r1}
  FalhaSessao = {r1}
  PodeMorrer = TRUE
  Idade = 1
INVARIANTS TypeOK Limite SoUltimaRasgada Ordem SumarioNaoAdiante
PROPERTIES ImplementaRegistro
