\* The walk of a table numbered 255.
SPECIFICATION Spec
CONSTANTS
  Nome <- Nome255
  Fixas <- Fixas255
  Moveis = {}
  Desordem = {}
  ComErro = {}
  Raizes <- Raiz255
  Opcoes <- MCOpcoes
  Retries = 1
  Timeout = 1
  Mascara = 7
  MaxVolta = 2
  Sorteados = {5}
  PodeFalhar = FALSE
  Codifica <- asn_realloc_rbuild_objid
  Decodifica <- asn_parse_objid
  Invalido <- MCInvalido
INVARIANT SubarvoreMostrada
CHECK_DEADLOCK FALSE
