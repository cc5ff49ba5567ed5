\* Two ports, the name of one the beginning of the other's; one kill or one cut log, anywhere.
SPECIFICATION Spec
CONSTANTS
  h1 = h1  p1 = p1  p10 = p10  vazio = vazio  c0 = c0  c1 = c1
  Host = {h1}
  Indice = {1, 2}
  ifDescr <- Portas
  Nomes = {p1, p10, vazio}
  Vazio = vazio
  Cortes <- Inicios
  Resposta <- Respostas
  MaxFalhas = 1
  MaxT = 3
INVARIANTS TypeOK TabelaExplicada EventoSoDeMudanca TotaisConferem
\* The clock stops, and then the program is not started again.
CHECK_DEADLOCK FALSE
