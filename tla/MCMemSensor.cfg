\* Two sensors whose names become the name of one file; the collector is killed
\* anywhere.
SPECIFICATION Spec
CONSTANTS
  r1 = r1  proc = proc  sens = sens  fan = fan  pwr = pwr
  Arq = {proc, sens, fan, pwr}
  ArqMem = {proc}
  Casa <- CasaNomes
  Nome = {r1}
  Lista <- UmHost
  Elegivel = {r1}
  FalhaSessao = {}
  PodeMorrer = TRUE
  Item <- DoisSensores
  Coluna = {0, 1}
  Valor <- Valores
  SemResposta <- Vazio
  HistMax = 0
  Bloco = 1
  MaxT = 1
  Idade = 1
PROPERTIES
  VisitaRegistraFanPwr
  ImplementaRegistro
