\* One pool: unanswered tables, cells that are zero, an ageing clock.
SPECIFICATION Spec
CONSTANTS
  r1 = r1  proc = proc  sens = sens  fan = fan  pwr = pwr
  Arq = {proc, fan, pwr}
  ArqMem = {proc}
  Casa <- CasaNomes
  Nome = {r1}
  Lista <- UmHost
  Elegivel = {r1}
  FalhaSessao = {r1}
  PodeMorrer = FALSE
  Item <- UmPool
  Coluna = {0, 1}
  Valor <- Valores
  SemResposta <- Vazio
  HistMax = 0
  Bloco = 1
  MaxT = 1
  Idade = 0
INVARIANTS
  TypeOK
  SumarioFiel
  VaziaSoMem
PROPERTIES
  VisitaRegistraFanPwr
  ImplementaRegistro
