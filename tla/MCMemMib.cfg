\* What the published percentage is a percentage of.
SPECIFICATION Spec
CONSTANTS
  r1 = r1  proc = proc  sens = sens  fan = fan  pwr = pwr
  Arq = {proc, fan, pwr}
  ArqMem = {proc}
  Casa <- CasaNomes
  Nome = {r1}
  Lista <- UmHost
  Elegivel = {r1}
  FalhaSessao = {r1}
  PodeMorrer = FALSE
  Item <- UmPool
  Coluna = {1, 3}
  Valor <- Valores
  SemResposta <- Vazio
  HistMax = 0
  Bloco = 1
  MaxT = 1
  Idade = 0
INVARIANT PctEhUsada
