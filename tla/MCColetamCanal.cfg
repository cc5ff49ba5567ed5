\* Two channels of one port.
SPECIFICATION Spec
CONSTANTS
  h1 = h1  p1 = p1  p10 = p10  vazio = vazio  c0 = c0  c1 = c1
  Host = {h1}
  Indice = {1, 2}
  ifDescr <- Canais
  Nomes = {p1, p10, vazio}
  Vazio = vazio
  Cortes <- Inicios
  Resposta <- Respostas
  MaxFalhas = 0
  MaxT = 2
INVARIANT EventoSoDeMudanca
\* The clock stops, and then the program is not started again.
CHECK_DEADLOCK FALSE
