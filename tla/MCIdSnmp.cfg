SPECIFICATION SpecJusta
CONSTANTS
  h1 = h1  h2 = h2  s1 = s1  e1 = e1  e10 = e10  vazio = vazio
  Host = {h1, h2}
  Nome = {s1, e1, e10, vazio}
  Ordens <- MCOrdens
  Casa <- MCCasa
  Tabela <- MCTabela
  Cortes <- MCCortes
  Serial = {s1}
  Interesse <- MCInteresse
  GrupoSnmp <- MCGrupoSnmp
  ComPonto <- MCComPonto
  LadoA <- MCLadoA
  LadoB <- MCLadoB
  Nada = nada
INVARIANTS
  TypeOK
  IdCerto
  BancoConcorda
PROPERTIES
  LoginExplicado
  HostEntra
