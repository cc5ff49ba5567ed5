\* Two interfaces, one of which may not answer; the program may be killed.
SPECIFICATION SpecJusta
CONSTANTS
  k1 = k1  k2 = k2  vazio = vazio
  Chave = {k1, k2}
  Lista <- Entradas
  Estado <- Estados
  PodeFalhar = {k2}
  PodeMorrer = TRUE
  Vazio = vazio
  MaxT = 1
INVARIANTS
  TypeOK
  PublicacaoCompleta
  VazioSoSemNome
PROPERTIES
  ImplementaQuadro
  QuadroAlcanca
