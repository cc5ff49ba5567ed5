\* The program ends, so a state without successor is no error.
SPECIFICATION Spec
CONSTANTS
  r1 = r1  r2 = r2  nada = nada
  Host = {r1, r2}
  LinhaCpu <- LinhasCpu
  LinhaMem <- LinhasMem
  Nada = nada
  MaxMem = 3
INVARIANTS
  TypeOK
  RotuloProprio
  JuncaoCompleta
CHECK_DEADLOCK FALSE
