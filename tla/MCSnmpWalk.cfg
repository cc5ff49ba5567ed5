\* A table and a single instance; the program ends, so a state without successor
\* is no error.
SPECIFICATION SpecJusta
CONSTANTS
  Nome <- MCNome
  Fixas <- MCFixas
  Moveis <- MCMoveis
  Desordem <- MCDesordem
  ComErro <- MCComErro
  Raizes <- MCRaizes
  Opcoes <- MCOpcoes
  Retries = 1
  Timeout = 1
  Mascara = 7
  MaxVolta = 2
  Sorteados = {5}
  PodeFalhar = TRUE
  Codifica <- asn_realloc_rbuild_objid
  Decodifica <- asn_parse_objid
  Invalido <- MCInvalido
INVARIANT TypeOK
INVARIANT UmPendente
INVARIANT EsperaLimitada
INVARIANT SubarvoreMostrada
PROPERTY ImplementaVarredura
PROPERTY DesordemSoDoAgente
PROPERTY Termina
CHECK_DEADLOCK FALSE
