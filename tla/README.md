# snmpcollector in TLA+

A formal model of the programs of this repository that collect SNMP data from
routers and turn it into the files other systems read. TLC checks the models on
small instances; TLAPS proves the central properties for every value of the
constants. Names of variables and definitions are those of the source, or
Portuguese like it.

## 1. The system

The repository's own code is Perl, bash and Expect, started by cron (or by hand)
and connected only by files. No program takes a lock. `pkg/` is third-party code, some
400,000 lines of C; of it, the tool the walk scripts run (`snmpwalk`) and the session
under it are modelled.

| Part | Code | State it keeps | Operations |
|---|---|---|---|
| CPU collector | `snmp/coleta_cpu.pl`, `coleta_cpu.sh` | `snmp/cpu/<host>`, newest sample first | visit each host of the list, rewrite its history |
| Memory, temperature, fan, power collector | `snmp/coleta_mem_temp_pwr.pl`, `coleta_mem_pwr.sh` | `snmp/mem`, `temp`, `fan`, `pwr` | eleven tables per host, rewrite a history per pool and sensor, one for fans, one for power supplies |
| CPU consolidation | `snmp/gera_sum/00_sum_cpu.pl` | `sum_cpu.txt` | first line of each history; remove those untouched for an hour |
| Memory consolidation | `snmp/gera_sum/01_sum_mem.pl` | four `sum_mem_*.txt` | the same, output chosen by file name |
| Final summary | `snmp/gera_sum/09sum.pl` | `sumario_cpu_mem.txt` | join by host, label the load, copy to the server |
| Interface collector | `snmp/get_int.pl`, `coleta_snmp_interfaces.sh` | `res_get.txt`, `tmp_res_get.txt` | ask every interface, keep the time of an unchanged status, publish with `mv` |
| Host query | `snmp/get_host.pl` | none | prints |
| Interface walk | `walk/00_coleta_walk_ifdescr.sh`, `leitor/00_ler_snmp_walk_host.pl`, `atualiza_bd/`, `scripts/` | logs, index lists, database, router configuration | walk in background, wait, read, update, configure |
| `snmpwalk` | `pkg/net-snmp-5.5/apps/snmpwalk.c`, `snmplib/snmp_api.c`, `snmp_client.c`, `asn1.c` | a session: pending requests, timers | GETNEXT after GETNEXT until the subtree ends; retries; matching of answers |
| CPU and temperature walks | `walk/01_*`, `walk/02_*`, `leitor/leitor_*.pl`, `leitor/sumario_*.pl` | logs, result tables | the earlier, text based pipeline |
| Collection report | `leitor/rep/leitor_coletam.pl` | `info_man.txt`, a log of changes per run, `geral_web_man.txt` | status per interface, compare with the table before, log changes, totals |
| Counter report | `leitor/rep/leitor_coletam5.pl` | none | prints |
| Log cleaner | `walk/atualiza_arq.pl` | logs | remove by age |

How they interact: the two collectors and `consolida_cpu_mem.sh` (which runs
`00_sum_cpu.pl`, `01_sum_mem.pl` and `09sum.pl` one after the other) share the
history directories. A consolidation may read, or remove, a history in the middle
of its rewrite. `get_int.pl` reads its own last publication, and the list of indexes that
the interface walk makes from the logs of `snmpwalk`.

What makes this hard:

* `open(">")` empties the only copy of a history before the new content, which
  waits in the output buffer, reaches the disk. Readers and kills see every
  state in between, lines cut in two included.
* The consolidation decides by `lstat` and removes by name, in another process.
  Meanwhile the collector may have rewritten the file, may have read it, or may
  hold it open; data then goes to a file without a name.
* An unanswered request is not an error to the collectors (the exit in
  `ResponseCheck` is commented out), an undefined session ends the program.
* The percentage of a pool is divided after the file was emptied; when both
  columns are missing, perl dies there.
* `get_int.pl` carries the time of a status from one table to the next, so an
  error would be copied forever; any failure must leave the published table alone.
* `leitor_coletam.pl` overwrites the table it compares with; a kill loses different parts of
  the table and of the log of changes.
* `$st_cpu` in `09sum.pl` survives from one host to the next.
* The interface walk starts `snmpwalk` in the background and only a `sleep` orders it and
  the reader of its log. The next round removes logs by pattern while an old walk writes.
* SNMP runs over UDP: requests and answers are lost, late, repeated and reordered, and an
  answer is matched by its request-id alone.

## 2. Modules

| Module | Models |
|---|---|
| `Historico` | a history file: read, open and print, buffer flush, close, remove, clock |
| `LacoSnmp` | the frame both collectors share: list, filter, session, `ResponseCheck`, exit, kill |
| `ColetaCpu` | `coleta_cpu.pl` on top of the two |
| `SumCpu` | `00_sum_cpu.pl` |
| `Cpu` | collector and consolidation together; properties, inductive invariant, refinement, liveness |
| `ColetaMem` | `coleta_mem_temp_pwr.pl` |
| `SumMem` | `01_sum_mem.pl` |
| `Mem` | both together; properties and refinement |
| `Registro` | abstract: what a directory of histories promises |
| `Sum09` | `09sum.pl` |
| `GetInt` | `get_int.pl`, with routers that change and a clock |
| `Interfaces` | its properties, inductive invariant, refinement, liveness |
| `Quadro` | abstract: what the published table promises |
| `Coletam` | `leitor_coletam.pl` |
| `IdSnmp` | the interface walk, its reader, the database update, the login step |
| `Oid` | comparisons of object identifiers, `memcmp` on words included |
| `Asn1` | object identifiers as octets: build and parse |
| `SnmpApi` | a version 2c session: requests, timers, retransmission, matching, the network |
| `Agente` | external: the agent of a router |
| `SnmpWalk` | `main` of `snmpwalk` on top of these; properties, inductive invariant, refinement, the conditions of the proofs |
| `Varredura` | abstract: what a walk of a subtree promises |
| `HistoricoProofs` | lemmas on histories, for the two modules below |
| `CpuProofs`, `MemProofs`, `InterfacesProofs`, `SnmpProofs`, `Sum09Proofs`, `IdSnmpProofs`, `ColetamProofs` | theorems |
| `MC*` | instances for TLC |

Definitions whose comment begins with "Variant" are wrong versions of the
definition that follows; replacing it by one of them must break a property.

### State and code

`Historico`: `dir`, `linhas`, `mtime` are the directory, the lines on disk and the
modification times. `inf`, `saida`, `w`, `ligado` are `@inf`, the lines printed
since `open(">")`, how many of them have left the buffer, and whether the open
file still has its name. A line is a time, a value and whether it is whole; date,
host name and separators are left out. `Descarrega` writes `Bloco` lines and maybe
a piece of the next one. At least one whole line fits in the buffer, which holds
for perl's 8 kB and lines of some 50 to a few hundred characters.

`LacoSnmp` and the collectors: `pc` follows the body of the loop: `sessao`, `pede`
(the requests), `le`, `abre`, `grava`. Every step another process can see in
between is an action of its own. Reading a history is one step: nobody but the
collector writes it.

`ColetaMem`: `fila` holds the rows still to be written, with the two cells of a pool.
The tables that only supply printed values are not distinguished. `DivideZero` is
the death of perl after `open(">")`. `MemPct` is the division and the rounding of
`sprintf("%4.2f")`, in hundredths.

`SumCpu`, `SumMem`: read, `lstat` and `rm` are three steps. The output files are
modelled by the lines printed; `09sum.pl` starts when both have ended.

`Sum09`: hashes are functions on hosts, `keys` is any order. `Testes` is the list of
the six ifs; the last one that applies wins.

`GetInt`: `real` is the state of the routers, which changes at any time. `tmp` and
`res` hold the last line of each key, which is all that the next run, or a reader
by key, uses. Counters and speed, copied from the answer to the line, are left out.

`Coletam`: the walks that write the logs are not in this repository and may be under way
when a log is read. `Inteiro` is a log of some rows with or without their status values,
`CortaLog` one that ends inside a line of `ifDescr`: a name cut short, the name of another
row lost, or a row for no interface (item 0). `Nome` is what the split
at ":" leaves of an interface's name: a channel is lost. `item` is carried along in lines
and events only to say which interface they are about. `Inicia` requires a later time
than the run before: the log of changes has the time in its name, and cron does not
start a program twice in the same second.

The program has three files open and closes them one after the other. `AbreGeral` empties
the file of totals (line 260), `FechaGeral` writes it (263), `Termina` writes the rest of
the table (264) and, at exit, of the events. A kill (`Morre`) between two of them leaves an
empty file of totals, or totals of a table whose tail is lost. It leaves any number of lines
of the table, and the last of them may be cut (`Rasgada`): in the status, or in the key,
which then is what `Cortes` allows. The next run puts such a line into `%status_o` under
the key it has left, without a status, over a line that was there under it. An event cut in
two counts as lost (`perdeu`). The cut of a line that leaves the key of no router is the loss
of the line. `trocadas` are the keys under which a cut log has ever given a row not theirs.

`IdSnmp`: `log` is the whole lines of a log and the name left of a line that is cut;
`vivo` are the hosts whose `snmpwalk` is running and still has the log with that name.
`lista`, `geral`, `err` are `id_getsnmp.txt`, `id_ger.txt`, `id_err_host.txt`; `bda` and
`bdb` the two columns of the database. The Expect login is one step that may or may not
leave the router configured. The database handle has `RaiseError`: a connection, select or
update that fails ends `atualiza_id_snmp_rtt2.pl` (`BancoFalha`), and the script, which has
no `set -e`, goes on to `00_start_cfg.sh` (`00_coleta_walk_ifdescr.sh:22-23`).
The reader goes over all of `host_interface.txt` (`Interesse`): only the group snmp is printed
to the list (`GrupoSnmp`), but the host of any item without an index is reported, the group
rtt included. Only an item with a "." in it finds its host (`ComPonto`): the hash for the
others, `%hostname_ip`, is never filled.

`SnmpApi`, `SnmpWalk`: `requests` is `isp->requests`, `state` the `synch_state` of the call,
`ida` and `volta` the datagrams under way. A lost datagram stays there for ever. The clock
is the time left of each request; a call ends by an answer, a time-out, or a failing send
or select. Request-ids wrap at `Mascara` (0x7fffffff in the code). Names travel as octets,
through `asn_realloc_rbuild_objid` and `asn_parse_objid`. The variables' values, version 3,
traps and TCP are left out.

## 3. Runs

| Run | Checks | Distinct states |
|---|---|---|
| `cpu` | `TypeOK`, `Limite`, `SoUltimaRasgada`, `Ordem`, `SumarioNaoAdiante`, `ImplementaRegistro` | 465,678 |
| `cpu_vida` | `OrfaoDesaparece`, `HistoriaVolta` | 635,949 |
| `mem` | `TypeOK`, `SumarioFiel`, `VaziaSoMem`, `VisitaRegistraFanPwr`, `ImplementaRegistro` | 165,825 |
| `mem_sensor` | `VisitaRegistraFanPwr`, `ImplementaRegistro`, with kills, two sensors in one file | 280,406 |
| `mem_mib` | `PctEhUsada`: violated | |
| `sum09` | `TypeOK`, `RotuloProprio`, `JuncaoCompleta` | 161,789 |
| `interfaces` | `TypeOK`, `PublicacaoCompleta`, `VazioSoSemNome`, `ImplementaQuadro`, `QuadroAlcanca` | 238,192 |
| `coletam` | `TypeOK`, `TabelaExplicada`, `EventoSoDeMudanca`, `TotaisConferem` | 3,597,372 |
| `coletam_canal` | `EventoSoDeMudanca`: violated | |
| `snmpwalk` | `TypeOK`, `UmPendente`, `EsperaLimitada`, `SubarvoreMostrada`, `ImplementaVarredura`, `DesordemSoDoAgente`, `Termina` | 115,804 |
| `snmpwalk_memcmp` | `SubarvoreMostrada`: violated | |
| `id_snmp` | `TypeOK`, `IdCerto`, `BancoConcorda`, `LoginExplicado`, `HostEntra` | 124,060 |

What they show:

* **Histories** keep at most `HistMax + 2` lines (290 for the 288 of the code), are
  ordered at every moment, and only their last line can be cut. `Registro` says it
  as a whole: a history changes by a newer sample in front, by removal or, when the
  collector is killed, by losing its oldest lines. The state in which the file is
  empty on disk counts, in the refinement mapping `Historia`, as the history the
  collector carries in memory; a kill at that moment may lose all of it.
* **Summaries** hold whole lines that are never newer than the history.
* **Liveness**: the file and the line of a host that is no longer collected go away
  for good; a host the collector reaches gets a history again and again.
* **Memory**: only a pool's history can be left empty without a kill; fans and power
  supplies are recorded in every visit that ends normally, whatever was answered.
  Only pools are removed (`Removivel` of `Registro`): the refinement shows that nothing
  of a sensor, the fans or the power supplies is lost without a kill.
* **Final summary**: the full outer join of its inputs, each label from the host's
  own load. It also records that a load that is empty or 0 is labelled `cpuok`: the
  test for "nao coletou" comes first and the next one always overwrites it.
* **Interfaces**: the table is replaced as a whole or not at all. A status keeps its
  time while it stays, and a new one is dated between two publications. An empty
  time occurs only where the status shown has no name. Once requests are answered and
  nothing is killed, a status that stays is shown, and stays shown.
* **Collection report**: for interfaces with different names, an event is a change, and the
  last event of an interface has the status and the time of its line in the table. The
  properties name the exceptions, all of which the code has. An event need not be a change
  when the log has cut the name of its row, or when the old table has a cut line, or one of
  another interface, under its key (`Turvas`). The log stops explaining the table when a
  kill loses an event while its line survives, as the two files have separate buffers
  (`perdeu`), and explains nothing of a key that a cut log once gave to another row
  (`trocadas`), as its line may keep the time of that row. The totals of a run that ended
  are those of its table. Of a run killed between lines 263 and 264 they are published, and
  the table may have lost lines they count; they are never too small.
* **snmpwalk**: the rows printed are a walk of the subtree (`Varredura`): in order, none that
  is there all the time passed over, and success only at the end. A late or repeated answer
  is never taken for the current one, a call waits a bounded time, the command ends.
* **Interface walk**: every index in the list belongs to a row of that name, or of a name
  that was cut to it. List and database agree on every interface that is not serial and
  whose lines of `id_ger.txt` were all applied; the others, after a failure of the database,
  stay as they were while the list is already new. A login has its reason in the round that
  makes it: a log that was not read in full, or an interface of any group that the table
  lacks. A host without access gets into the list, whatever the database does.

### Disagreements found

* `mem_mib`: `coleta_mem_temp_pwr.pl:71-72` takes column 5 of the pool table as free
  and column 6 as used; `pkg/mibs/CISCO-MEMORY-POOL-MIB.txt:158-181` defines them the
  other way round, so the stored percentage is that of free memory.
* `coletam_canal`: `leitor_coletam.pl:228` says that a status is compared with the one
  before and logged when different; two channels of a port share a key (line 125), so a
  channel is compared with the other one and logged in every run.
* `snmpwalk_memcmp`: `snmpwalk.c:314` tests for the end of the subtree with `memcmp` on
  words; on a little-endian machine a walk of a table numbered 255 shows nothing and
  reports success. `man/snmpwalk.1.def:36-37` says that all variables are presented.

Met while modelling, and not the subject of a run:

* The comment above `ResponseCheck` (`snmp/coleta_cpu.pl:10`) says the session is closed on
  error; the close is commented out (line 18).
* `snmpwalk` counts a printed exception (end of the MIB view) as a row, so it does not try
  the final GET. A second subidentifier of 40 is built and decodes differently, and an
  identifier of length 1 does not come back as it was.
* For a serial interface the list takes the first index, the database the last. An
  interface at both ends updates only the b side.
* `rm` by pattern also removes the logs of hosts whose name contains this host's.
* `get_int.pl` may read a list that is half written. The `rm` at `00_start_cfg.sh:22`, with
  a quoted pattern, removes nothing.
* `walk/02_coleta_temp.sh` runs `leitor_temp_pwr_flash.pl`, which the repository does not
  have; the call of `sumario_cpu_mem.pl` is commented out.

### Bounds

* `cpu`: one router that is collected and one that no longer is, two values,
  `HistMax = 1` (three lines: the limit is reached and passed), `Bloco = 1` (every
  line is flushed alone, so a rewrite has up to three visible stages), `MaxT = 2` with
  `Idade = 1` (a file can expire, and be rewritten when it has). Two collected routers
  add no interaction, as each has its own file and the collector is sequential; the
  proofs cover any number.
* `cpu_vida`: three routers: one outside the domains, one always reached, one that may
  end the run. The clock stops at `MaxT = 2`; from then on nothing new expires, so
  what these properties exercise is the expiry up to that time and the recovery
  after it.
* `mem*`: one router; one pool, the cells 0 and 1, which include the division by zero.
  Kills and the shared sensor file are in `mem_sensor`, without a pool, and the pool in
  `mem`, without kills: together they are too large. The summaries of pools under kills
  are covered by the proofs.
* `sum09`: two hosts, the loads on both sides of every threshold, up to three memory
  lines in any order. The program ends, hence `CHECK_DEADLOCK FALSE`.
* `interfaces`: two interfaces, one twice in the list, one entry that cannot be used,
  and status values without a name for one or both objects. `MaxT = 1`: two times, enough
  for a status to be dated before and after a change; the proofs cover any clock.
* `coletam*`: three runs (`MaxT = 3`), so that an interface can be missing from one and come
  back; a router with two ports, `p1` and `p10`, the name of one a beginning of the other's, so
  that a cut of one key gives the other (two channels of a port in `coletam_canal`); two
  answers and none, hence three of the four status values. `MaxFalhas = 1`: one kill or one cut
  log, at any step of any run, whose effect the later runs carry on. Two of them, over two
  runs and with all four status values, give 3,545,005 states and no error. The proofs cover
  any number of routers, runs, kills and cuts. When the clock stops the program is not
  started again, hence `CHECK_DEADLOCK FALSE`.
* `snmpwalk`: a table with two fixed rows and one that comes and goes, and a single
  instance; numbers on both sides of 128, where the encoding grows. One retransmission,
  one clock unit of time-out, eight request-ids (the wrap happens), two answers on their
  way. `ImplementaVarredura` is checked for subtrees whose number does not end in 255
  modulo 256 and identifiers below 256: `snmpwalk_memcmp` shows why. `CondicoesConferem` of
  `MCSnmpWalk` evaluates the conditions of the proofs on these identifiers: they hold of
  every subtree but that of the table numbered 255. The command ends, hence
  `CHECK_DEADLOCK FALSE`.
* `id_snmp`: two hosts, one with two rows of the same serial name, one with a name that is
  the other cut short; one interface that is not in the group snmp, and one without a ".";
  two orders of the list; kills, failing walks and a failing database in any round.

### Fairness

`cpu_vida` assumes weak fairness of each program and of the clock: cron starts them
again and again, each request ends by its timeout, and no step of one waits for the
other. `interfaces` assumes weak fairness of `get_int.pl`. That requests are answered and
nothing is killed is a premise of `QuadroAlcanca`, from some time on, not an assumption:
with an interface that never answers, no table is ever published again. `snmpwalk` assumes
weak fairness of the process, of the clock and of the time-outs, and nothing of network or
agent. `id_snmp` assumes weak fairness of cron, of the script and of the end of each walk
(well or badly: its requests time out); `HostEntra` has the absence of accidents from some
time on as a premise. No strong fairness is used.

## 4. Proofs

`CpuProofs` proves, for every list, set of files, limit, buffer and age:
`TypeOK`, `Limite`, `SoUltimaRasgada`, `Ordem`, `SumarioNaoAdiante` and `ImplementaRegistro`.
The properties speak of the disk and are not inductive, because the lines in the
memory of the collector become the file. `Indutivo` adds

* `InvMemoria`: `inf` and `saida` are as good as a file, nothing is newer than the
  clock, and the sample being taken is not older than what its file holds;
* `InvEscrita`: the file under rewrite holds exactly what has left the buffer, and one
  removed meanwhile stays empty;
* `InvSumario`: what was read or reported is not newer than what the file holds, or
  will hold at the end of the rewrite under way.

The last one carries the argument: a report stays behind its history although the
file is emptied, removed and created again in between. The refinement proof takes each
action to a step of `Registro` or a stutter, with `Historia` as the mapping.

`InterfacesProofs` proves `TypeOK`, `PublicacaoCompleta`, `VazioSoSemNome` and
`ImplementaQuadro`. Its `Indutivo` adds `InvTempo` (no time of the table is later than its
publication) and `InvCorrida` (the table a run compares with is still the published
one, the lines printed are those of the entries taken, and each follows from the old).

`MemProofs` proves `TypeOK`, `SumarioFiel`, `VaziaSoMem`, `VisitaRegistraFanPwr` and
`ImplementaRegistro`, with kills and without. Between the answers and the last close of a
visit the collector prints one time, `Teto`, and nothing is newer than it. `InvVisita` adds
that what was written outside `mem/` stays written; `InvSumario` that each name is visited
once and that what is reported stays behind its file. The lemmas on rewriting and cutting
a history are in `HistoricoProofs`, and `CpuProofs` uses them too.

`SnmpProofs` has four layers.

* `TypeOK` and `EsperaLimitada`, for every agent, number of retransmissions, time-out and
  set of identifiers. `EsperaLimitada` is not inductive: a call could wait for a request
  that is gone. `InvPrazo` says that the call in progress has a pending request whose
  retransmissions account for the time passed; `InvRede` that all that is under way was
  built from identifiers; `EmChamada` that `main` is inside the call.
* `UmPendente` and `DesordemSoDoAgente`, under `Distingue`. Requests left behind by failed
  calls stay in the list and datagrams stay on the network for ever, so the argument is
  about request-ids: `InvIds` bounds the age of every id in use by the number of requests
  made so far, which in turn is bounded by the names the walk has passed, as each name asked
  for comes after the one before. A new id is therefore new. `InvResposta` says that what is
  under way with the id of the current call belongs to it, at whatever moment it was answered.
* `SubarvoreMostrada` and `ImplementaVarredura`, under `Distingue` and `Reconhece(root)`.
  `InvCaminho` says that `name` is the last row shown, that no row that was there all the
  time lies between two rows shown, and that the loop is left with success only when none is
  left. The refinement takes each step of `main` to one of `Varredura` or a stutter. It rests on
  lemmas about the order of identifiers: it is transitive, a subtree is one piece of it, and
  `snmp_oid_compare` decides it.
* What the octets decide. `memcmp` compares words octet by octet as they lie in memory, the
  least significant first, so it agrees with the numbers only where they differ in that octet
  in the right direction (`MemcmpEh`). A name below `r` is taken for one outside exactly when
  the last number of `r` is 255 modulo 256 (`ForaSse255`). From this, `OctetosBastam`:
  `UmOcteto(root)`, a condition on the numbers alone, implies `Reconhece(root)` and with it the
  two results above; and `Mudo255`: of a table whose number is 255 modulo 256 no row is ever
  shown, which is the finding of `snmpwalk_memcmp` for every agent and network.

`AvancaSempre` is the safety half of `Termina`: each time round the loop, the set of names after
the one asked for gets smaller. With `EsperaLimitada` it bounds the walk; that the steps
are taken is fairness and stays with TLC. Both rest on the agent of the model, which answers
every GETNEXT with exactly one variable or with an error. An answer without error and without
variables skips the loop of `snmpwalk.c:311-351`, changes neither the name nor `running`, and
the same request is sent again: against such an agent the walk has no end.

The conditions are definitions of `SnmpWalk`, and the proof shows why each part is there:

* `Distingue`: identifiers are not empty and come back from a message as they went in (`Asn1`
  has the exceptions), and there are at least two more request-ids than names. With fewer, the
  counter comes round within one walk and a late answer to an old request is taken for
  the current one. The code has 0x7fffffff ids, or 0x7fff with 16-bit ids.
* `Reconhece(r)`: the comparison with `memcmp` tells the names below `r` from those past it,
  which it does not for a table numbered 255; and an agent that answers out of order does so
  within the subtree. The second part is needed because `snmpwalk.c:313` looks at the subtree
  before line 330 looks at the order: an answer out of order whose name is shorter than the
  subtree's, or past it, ends the walk with success, rows unseen.
* `UmOcteto(r)`, which says `Reconhece(r)` by what can be read off a MIB: the last number of `r` is
  not 255 modulo 256, a name that leaves the path to `r` does so where both numbers are below
  256, and an answer out of order to a name of the subtree is in the subtree. Numbers above 255 on the common path (enterprises) and in the rows
  (indexes, addresses) do not matter.

`Sum09Proofs` proves `TypeOK`, `RotuloProprio` and `JuncaoCompleta` for every set of hosts and
every content of the two files. The invariant says which hosts have had their turn (`FeitosCpu`,
`Prontos`), what `%host_mem_proc` holds then (`MemCerta`), and that each line printed has the
fields of its own host. The label is right because one of the ifs applies to every load in
0..100, which is why the value for an empty field must not be one of them (`Nada`).

`IdSnmpProofs` proves `TypeOK`, `IdCerto`, `BancoConcorda` and `LoginExplicado` for every set of
hosts, tables, cut names and orders. The invariant ties what was read of a log to the table of its
host (`Leitura`: a beginning of it, the last name cut or not), the general file to what was read
(`Geral`: the lines of a host are one block of it), the database to the lines taken so far
(`Banco`), and list and reported hosts to the same round. When the updates end, all of them
done or not, `Banco` gives the agreement of every interface whose last line was taken
(`Aplicada`). `IdSnmpAssumption` says that orders and
tables are sequences that are not empty and that cuts and monitored interfaces are made of names.

`ColetamProofs` proves `TypeOK` and `TotaisConferem` for all routers, and `EventoSoDeMudanca` and
`TabelaExplicada` for those whose interfaces have different names (`NomesUnicos`), over any number
of runs, kills and cut logs, and every set of keys a cut may leave. `coletam_canal` is a
counterexample without that condition, which `MCColetam` evaluates on both. `Indutivo` adds that
no row is printed twice (`Unicos`), that the counters are those of the lines so far (`Contagem`),
and that the totals of a run are not there before it publishes them (`Publicado`). `IndutivoNomes` adds
that a line of the old table stays explained by the log until its key is printed again
(`Explica`), and that a line under a key not its own has left that key in `trocadas` (`Trocas`).

The assumptions are the named `ASSUME`s of the modules, which TLC evaluates on each run, and the
conditions named in a theorem. `AgenteAssumption` requires that a row is either fixed or moves.

TLC agrees with the inductive invariants on the instances of section 3.
Where a definition takes the first or the last element with some property, its existence comes
from the well-foundedness of the naturals (`MenorNatural`).

A leaf names its backend where only one of them finds the proof, or needs more than its
usual time. `SnmpProofs` instantiates the library of finite sets only where it is needed: its
lemmas up to there take `Graduado` as a hypothesis, which `DistingueGradua` discharges.

Only model-checked:

* liveness: `OrfaoDesaparece`, `HistoriaVolta`, `QuadroAlcanca`, `Termina`, `HostEntra`. The proof
  system has no support for liveness under fairness and `ENABLED`;
* that `Distingue` and `UmOcteto` hold of given identifiers, the round trip of `Asn1`
  included, on the identifiers of `MCSnmpWalk`. A proof of the round trip for all identifiers is
  an induction over their encoding, which the provers cannot do. They also lose the SMT backend
  where an operator is declared `RECURSIVE` (no module here declares one);
* the three violations.

## 5. Not modelled

* **Most of `pkg/`.** Nearly all lines of the tree are vendored C: the rest of net-snmp 5.5
  (agent, MIB modules, trap daemon, version 3, other transports, perl binding) and other
  packages. This system runs a small part of it, and the models cover a small part of that:
  the loop of `snmpwalk`, the synchronous version 2c session and the encoding of object
  identifiers, about 1 line in several hundred of the C code. The rest is not part of what
  the repository's programs do, or (value types, MIB parsing, printing) moves data that no
  property here looks at.
* Two overlapping runs of the same program. Collectors would write one file at different
  byte offsets, which a model of lines does not have; runs of `get_int.pl` would share the
  temporary file.
* The earlier pipeline of CPU, memory and temperature walks with its readers. It is within
  reach of these methods and was left out by choice: the collectors under `snmp/` took its
  place, and one of its readers is not in the repository. Its two scripts remove, empty and
  append to logs of the same name without a lock, and nothing here says what that does.
* `atualiza_arq.pl`, which removes logs older than a day, while a round of the interface
  walk over the 232 hosts, a minute apart, takes some four hours.
* Kills of the consolidation and of `rm`, and copies by `scp` that fail.
* `get_host.pl` and `leitor_coletam5.pl`, which only print; `atualiza_id_snmp_rtt.pl`, which
  nothing calls.
* The contents of the tables whose values are only printed; dates, wording, layout.

## 6. Open

1. The earlier walks: two scripts on one log, and what `leitor_cpu_mem.pl` makes of it.
2. `GetInt` with two processes and inodes: what overlapping runs publish.
3. Kills of the consolidation, and the chain collector, consolidation, `09sum.pl` as one
   composition.
