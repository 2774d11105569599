# A model of the Rusticos2 Redis server

The repository is a Redis server in Rust: one thread per client over a table
behind `Arc<Mutex<BaseDeDatos>>`, with a thread that persists the table and one
that writes the log. This project models its commands, its threads, its file and
its connections, checks them with TLC on small instances and proves their main
invariants with TLAPS for every value of the constants.
Source paths below are relative to `src/src/`.

## Inventory

| Component | State | Operations | Module | Hard to test |
|---|---|---|---|---|
| Table, `base_de_datos.rs` | `hashmap`, `observadores` | get, put, delete, lifetimes, copy, flush, notify | `BaseDeDatos` | changes that are not notified, expired values that are still stored |
| Values, `valor.rs` | value, creation instant, lifetime | expiry | `BaseDeDatos` | expiry between two looks at a value |
| String commands, `comando_string_handler.rs` | - | 10 commands | `StringOps`, `Servidor` | lost updates, overflow, a panic with the mutex held |
| List commands, `comando_list_handler.rs` | - | 11 commands | `ListaOps`, `Servidor` | copies written back over newer lists, indices, panics |
| Set commands, `comando_set_handler.rs` | - | 5 commands | `SetOps`, `Servidor` | counting under races |
| Key commands, `comando_key_handler.rs` | - | 12 commands, SORT among them | `Servidor`, `OrdenOps`, `Orden` | one section per key, two-step RENAME and EXPIREAT, SORT with one section per weight |
| Server commands, `comando_server_handler.rs` | - | FLUSHDB, DBSIZE; CONFIG, INFO, MONITOR, PING | `Servidor`; `Registro` | the poisoned mutex, two mutexes at once |
| Client threads, `redis.rs`, `comando.rs` | one loop per client | run a command, answer, die, reconnect | `Hilos`, `Registro`, `Conexiones` | interleaving, panics, poisoning |
| Publish / subscribe, `comando_pubsub_handler.rs`, `canal.rs` | subscribers of a channel, stored in the table | SUBSCRIBE, UNSUBSCRIBE, PUBLISH, PUBSUB | `PubSub` | lost subscriptions, clients that left |
| Persistence, `persistencia.rs` | file name, last write, channel, file | interval, write, load | `Persistencia` | dropped copies, crash while writing, what the file loses |
| Configuration and log, `config.rs`, `log_handler.rs` | parameters, monitor flag, monitors, log file | CONFIG, MONITOR, the log thread | `Registro` | whose MONITOR it was, a log thread that ended |
| Connections, `cliente.rs`, `cliente_redis.rs`, `parser.rs` | socket, parser | accept, peek, read, send | `Conexiones` | silent clients, packets, pipelining |
| HTTP client, `cliente_http.rs`, `comando_http.rs`, `http_parser.rs` | whether it was served | one request | `Conexiones` | a request in two packets |
| `comando_nulo_handler.rs` | - | an error text | `Conexiones` | - |
| `main.rs`, `redis_error.rs` | - | start-up | not modelled | no state |

**How they interact.** A client thread parses a request, `crear_comando_handler`
picks a handler, and the handler takes the mutex one or more times. Operations that
change the table call `notificar_observadores` before the mutex is released; its
only observer sends a copy of the table to the persistence thread. After every
command the thread takes the mutex of the configuration and calls `actualizar`,
which sends the file names to the log and the persistence threads and registers a
monitor if the flag is up. Channels live in the table; a PUBLISH writes to the
sockets of other clients. The accept loop creates clients one at a time.

**What is hard.** Many handlers read a copy, release the mutex, compute, and take
it again to write (pop, push, LREM, LSET, INCRBY, DECRBY, GETDEL, RENAME); DEL,
EXISTS and MGET take it once for each key; EXPIREAT reads the clock first. Panics
happen in and out of the sections, and one inside poisons the mutex for good.
Lifetimes run out at any of these points. SUBSCRIBE and UNSUBSCRIBE store a channel
read in an earlier section. The file is rewritten in place, in two writes a line.
Bytes arrive in any packets. `PROJECT.json` lists the hazards line by
line.

**What makes the parts correct.** A command is atomic for clients with keys of
their own; a copy carried past an unlock is still what the key holds; answers
account for every change; a panic harms nobody but its thread unless the guard was
held, and then the table is frozen; what was sent to be persisted is the table;
every command ends; the list algorithms compute what their comments say. On
channels, notices and lists agree. The file can be read when the process has died,
gives back what was saved and makes nothing up. The log follows the configuration. A client that
waits for its answers has its commands run whole, in order and once.

## Modules

```
BaseDeDatos <- StringOps <- ListaOps <- SetOps <- Hilos <- Servidor
   |                         |  |          |                  |
   |                   OrdenOps |   AlmacenAtomico      ServidorProps, Documentado
   |                    |    |  |      (INSTANCE in           |
   |                    |  Algoritmos  ServidorProps)     MCServidor
   |                    |                                     |
   |                  Orden (EXTENDS Servidor, OrdenOps) <- Conservacion <- MCConservacion
   |                  PubSub (EXTENDS Servidor)          <- MCCanales
Persistencia  <- MCPersistencia
Registro      <- MCRegistro          (of their own: no table)
Conexiones    <- MCConexiones

SecuenciasPruebas <- AlgoritmosPruebas, RegistroPruebas, ConexionesPruebas
        ^            (each with its component)
        |
PubSubPruebas (with PubSub) -> ServidorPruebas (with ServidorProps)
ConservacionPruebas, PersistenciaPruebas (with their component, by themselves)
```

* `BaseDeDatos`: the table as constant operators, one per method, and a *plan*:
  what a handler decides from the value it read (answer, write or remove and answer,
  write without notifying, panic).
* `StringOps`, `ListaOps`, `SetOps`: each command as a function from the value read
  and the parameters to a plan.
* `Hilos`: the threads. A step is one critical section with the local computation
  around it. `Entera` is a command that holds the mutex from its read to its write;
  `Leer` and `Escribir` are the two sections of one that does not; `pend[c]` is what
  the thread carries in between. A panic ends the thread (`Morir`), and poisons the
  mutex when the guard is held (`Entera`).
* `Servidor`: one action per command, and `RenameBorrar`, `ExpireAtFijar`,
  `MultiplePaso`, `MultipleFin` for later sections. Arguments that are missing or do
  not parse are `PedidoInvalido`, answered before the mutex (an error; 0 by STRLEN); where the code takes the mutex before it parses
  (INCRBY, DECRBY, LINDEX) the parameter `NoNumero` goes through the command itself.
* `AlmacenAtomico`: the abstract specification, every command one atomic step, no
  phases and no pending copies. An MGET of no key is refused, as the handler does when
  its loop gathered nothing. EXPIRE gives the lifetime asked for, and EXPIREAT one that
  ends no earlier than the second before the instant asked for (`Plazos`).
* `ServidorProps`: the properties of the server. `Documentado`: what the comments of
  the code say where the code does otherwise.
* `OrdenOps`, `Orden`: SORT. The first has what it computes between sections (order,
  LIMIT, pairs of value and weight, the loops of GET); in the second each section is
  an action: `SORT` reads the value, `SortPesos` lists the weights, `SortTupla` reads
  one, `SortObjetos` and `SortObjeto` do the same for GET, `SortStore` stores.
* `Conservacion`: clients that race for the same keys with SADD, SREM, DEL, EXISTS,
  MGET and SORT, and two history variables that add up what they were answered.
* `PubSub`: the commands on channels over the threads of `Hilos`. `ps[c]` is the
  command on channels in progress; `LeerCanal` and `GuardarCanal` are the sections of
  SUBSCRIBE and UNSUBSCRIBE; `Entregar` is one write to one subscriber, which blocks
  when that subscriber (one of `Sordas`) does not read and its buffers are full.
* `Persistencia`: the channel, the thread in `persistir`, the file as a sequence of
  bytes, and the process that is killed between any two writes and started again.
  Names and texts are sequences of bytes too, any but a line end: they may hold the
  separator, be EX or a tag, and have characters of two bytes that a rewrite cuts in
  two. `Texto` builds a line, `Pisar` writes it over the old bytes, and `LevantarTabla`
  reads a file as the code does: by the tag found anywhere in a line, with its panics.
  Its table keeps only the keys present, since a damaged line may name any of them.
* `Registro`: the configuration, the log thread and the loop of `manejar_cliente`
  around a command, with the two mutexes. Commands on the table are one command that
  takes and releases its mutex, and may panic.
* `Conexiones`: the sockets. Units (a line with the number of words; a word with its
  length; an HTTP head; a word of a body) arrive one by one and are read together,
  so every division in packets at the border of a unit is covered. `NoUtf8` are the
  words that are not text: `parsear_stream` skips them and waits for one more, and if
  the client sends another request the parser runs into it (`Corrido`: a wrong length,
  a command of the wrong words, or still not enough).
* `Algoritmos`: the list algorithms and LIMIT against reference definitions.
* `...Pruebas`: the proofs about a component; see below.

### Correspondence of state

| Model | Code |
|---|---|
| `tabla[k]` | the `Valor` under `k` in `BaseDeDatos.hashmap` (`Ausente`: no entry) |
| `enviado` | the last `MensajePersistencia::Info` handed to the channel; at the start, the table restored |
| `envenenado` | the mutex is poisoned |
| `ahora` | the clock, in seconds |
| `fase[c]`, `pend[c]` | the program point of thread `c` between two sections, and its local copies |
| `resp[c]` | the last answer sent to the client |
| `PubSub`: `abierto`, `altas`, `bajas`, `buzon` | the client's socket; the notices and messages it received |
| `Persistencia`: `cola`, `pers`, `disco` | the channel; `PersistidorHandler` and its place in `persistir`; the files |
| `Registro`: `config`, `bandera`, `log` | `mapa_config`, `monitorear_ultimo_cliente`, `LogHandler` |
| `Conexiones`: `pendientes`, `aceptando`, `proximo`, `red`, `leido` | the listener's queue; the socket `crear_cliente` peeks; what the client sends next; the socket's buffer; the parser's |
| `guardada`, `descartada`, `tuvo`, `cortada`, `pidieron`, `hechos`, `neto`, `quitadas` | history, for the properties |

### Abstractions

* A String is a sequence of fragments (texts, key names, EX, PX, numbers); its
  length is the number of fragments. Texts do not parse as numbers, and no key is
  named EX or PX (SET looks for those words among all its parameters, the key too).
* The answers keep their kind and contents, not their wording; an error is the reason
  it is given for. Vectors in the order of a `HashMap` or `HashSet` are sets.
* A pattern of KEYS is the set of keys that it matches. `ultimo_acceso` is written
  and never read, so TOUCH only counts.
* The clock is in whole seconds and stands still inside a section, except where the
  code looks twice: the second disjunct of APPEND.
* Both builds are covered by `Depuracion`: overflow panics (debug) or wraps (release).
* `Permitidas` and `Comandos` say which keys and commands a client uses; `MaxLargo`
  bounds the values written and `MaxTiempo` the clock. They are bounds of the
  instances and no conditions of the code.
* `PubSub`, `Registro`: a client is a connection and its token is not used again. A
  write to a client that left may still succeed.
* `PubSub`: the clock stands still. A channel has no lifetime of its own, and one that
  EXPIRE gave it ends as DEL would end it (EXPIRE with 0 ends it at once).
* `PubSub`: only the writes of PUBLISH to others may block. One of a thread to its own
  client holds no mutex and keeps nobody else waiting.
* `Persistencia`: each `write` is one step, the text of a line and its end two; a kill
  falls between steps. A string is one text. A number has no sign and fits a u64, and
  no line ends in a carriage return, which `lines` would take off.
* `Orden`: the patterns of BY and GET are the sets of keys they match; LIMIT takes
  the numbers among its parameters; `falta` is a BY, GET or STORE that comes last, for
  which the code panics, outside the mutex.
* `Registro`: `verbose` only prints. Nothing panics with the guard of the
  configuration, so that mutex is never poisoned.
* `Conexiones`: a word read where a length is due is taken to be a wrong length. The
  request line and the headers of an HTTP request arrive together. Requests stay
  below the 1024 bytes of the first peek and the 5000 of an HTTP read.

## Runs

Two clients and two keys are enough for every interference between two sections;
the runs of MSET and SORT use four (values that are keys too; two weights and a key
to store in). The i32 range is
shrunk to between `-2..1` and `-4..3`, so that overflow is reached by an increment.

| Run | Checks | What it shows |
|---|---|---|
| `PropiasEscrituras` | `ImplementaAtomico`, `VenenoCongela` | clients on keys of their own: commands are atomic despite the unlock in the middle; a poisoned mutex freezes the table |
| `PropiasVidas` | `TypeOK`, `CopiaVigente`, `ImplementaAtomico` | the same with lifetimes running out between sections, and an MGET and an EXISTS of a key twice and of none |
| `Cruzadas` | `NuncaEnvenenado`, `EnviadoAlDia`, `TodoComandoTermina` | shared keys, panics outside sections: no poison, nothing unsent, every command ends |
| `Conservacion` | `MiembrosContados`, `BorradosContados`, `SortConserva` | answers of racing SADD, SREM and DEL add up, beside an EXISTS of the same keys; SORT BY loses nothing while its weights are deleted |
| `Listas` | `RangoCorrecto`, `PopCorrecto`, `LRemCorrecto`, `PushPopInversos`, `LimiteCorrecto` | the list algorithms and LIMIT, on every list of up to 4 elements over two texts and indices -5..5, in the release build |
| `Canales` | `SuscripcionesAlDia`, `NadieDeMas`, `CanalesTerminan` | notices and lists agree on a channel of one client; nobody is subscribed or sent to without a notice; commands on channels end, beside a subscriber that leaves or never reads |
| `Persistencia` | `NuncaInventa`, `RecargaFiel`, `DescarteAcotado` | the bytes of the file after shorter and longer saves and two crashes, a file that does not open, values that expire, texts with a separator, with a character of two bytes, and EX |
| `Registro` | `BanderaTransitoria`, `MonitoresPedidos`, `RutasAlDia`, `TodoPedidoTermina` | MONITOR, CONFIG and INFO among three clients and a log thread that may end |
| `Conexiones` | `NadaSePierde`, `SinRepetir`, `HttpUnaRespuesta`, `TodosAtendidos` | any two of seven kinds of client, every packet boundary, every moment to leave |

`ImplementaAtomico` is the refinement `Spec => AlmacenAtomico!Spec`: handler phases
are hidden, and a command takes effect in its last section. Commands that read and
later write may act on a value whose lifetime ran out meanwhile (`Vistos`), and
APPEND may refuse a value in its last second; the abstract specification allows just
that. DEL and RENAME promise no atomicity and are left out of it.

In `Cruzadas` the latest `SystemTime` is second 0, so that EXPIREAT always takes its
overflow path: a panic outside a section, which must not poison the mutex.

*Bounds of the others.* `Canales`: one SUBSCRIBE to each channel per client,
with a doubled key (`SUBSCRIBE ka ka`), so that a client is twice on a list.
`Persistencia`: three commands let a second save be shorter than the first and leave
bytes over; two crashes let one happen in the middle of a save over the remains of
another; interval 2 and a clock of 4 allow copies dropped before and saved after it.
`Registro`: one request per client, but the log may lag behind them all.
`Conexiones`: a command of two words is cut everywhere, and two commands are enough
for one to be lost with the parser of the other. Connections share only the listener,
so two of them at a time (`MaxAbiertas`) show all that one does to another; the seven
kinds are those that wait or not, RESP or HTTP, with a word that is not UTF-8 or without.

*What the file is trusted with.* Nothing is escaped and the file is never cut, so the
code does not keep everything a client may store, and the properties of `Persistencia`
say where the line is.

* `RecargaFiel` is about a save that left no byte over: what is read is the copy that
  was saved, if its values are `Legible`, with lifetimes in full and, for a list or set
  that has one, EX and the number as two more elements (`Vuelve`). What is not
  `Legible` is misread by the code: a string with a `:` comes back cut at it, a list or
  set is split at it; a list with the element STRING is read as a string; a value that
  is EX makes `obtener_tiempo_expiracion` read past it, and panics when EX is the last
  on its line (`RPUSH l EX` and a restart).
* `NuncaInventa` is about every file at any time: with bytes of older saves after the
  last line, after crashes, while a save is under way. It can be read without a panic
  and gives no key a value that the key never had. The words stored must also not *end*
  in a tag (`LegibleCortado`), because a shorter line written over an older one leaves
  the end of a word at the start of a line. And no crash may have fallen between a text
  and its line end (`cortada`): the two are separate writes, and until the second one
  the new text goes on with the bytes of the old line. `STRING:ka:x` over `LIST:kb:xy:z`
  reads as a string nobody stored, and the code does restore it. A crash at any other
  point does no harm, which is what the run and the theorem show: a text that
  ends where the file ends is whole, and the rest of an older line is no line.
* Both leave out what was stored before and can no longer be told apart: once a list or
  set with a lifetime was restored, it holds the element EX.

`ImplementaAtomico` and `CopiaVigente` are about clients with keys of their own. Between
clients that share a key the code loses updates (two INCRBY, two pops, a push during a
pop), no document says otherwise, and no property claims it.

`TodosAtendidos` exempts a RESP request with a word that is not UTF-8 (`Colgada`): its
thread waits at `parser.rs:44` for a word that is not to come, until the client sends
more or closes. `CanalesTerminan` likewise exempts a PUBLISH whose write blocks on
a subscriber that stays connected and does not read (`Bloqueada`); it holds no mutex.

`Conservacion` assumes what its clients do (`ConservacionAssumption`): the set and the
keys counted have no lifetimes and exist for no other purpose, and SORT stores
elsewhere.

`SuscripcionesAlDia` speaks of channels that no other client touches: two clients on
one channel do lose subscriptions (see below). `NadieDeMas` holds for all of them.

**Runs that refute a comment** (each is a finding in `PROJECT.json`):

| Run | Refutes | Because |
|---|---|---|
| `MsetMget` | `MgetCoherente` | MGET takes the mutex once for each key and sees half of an MSET |
| `MonitorAjeno` | `MonitorEsQuienPidio` | the flag of MONITOR is consumed by whichever client gets to `actualizar` first |
| `UltimoCambio` | `UltimoCambioLlega` | a copy dropped within the interval is not written later |

The modules also follow the code where it departs from its comments, or from what one
would expect, in ways that no run is devoted to:

* `ListaOps`, `Servidor`: LREM with count 0 removes nothing and LSET inserts; two pops
  may answer the same element, and of two INCRBY that interleave one is lost; TTL
  answers the whole lifetime; APPEND may refuse a string that expires under it;
  EXPIREAT counts from the moment it has the mutex; GETSET, EXPIRE, EXPIREAT and
  PERSIST notify no observer, and the last three bring an expired value back; MSET
  stores every value but the last as a key too; FLUSHDB ("nunca falla") fails on a
  mutex that a SET ending in EX poisoned; RENAME a a deletes a, two RENAME that swap
  names lose a value, and what its second section answers is ignored.
* `Orden`: numbers sort as strings; an offset past the end gives the whole list; when
  the endings of values and weights do not match one to one elements are lost or
  repeated; GET answers Nil only before its first hit.
* `PubSub`: of two clients that subscribe to a channel at the same time one may be
  dropped after it was told; COPY and RENAME take the subscribers of a channel along
  to a key that they were never told of, so that they get its messages too; PUBSUB CHANNELS lists channels with more than one
  subscriber ("uno o más"); UNSUBSCRIBE without parameters does nothing ("lo
  desuscribe de todos").
* `Persistencia`: keys that were deleted come back from lines left over; a list or set
  with a lifetime is read with EX and the number among its elements, which a PERSIST and
  one more save can turn into a file that panics at start-up; a line that is not UTF-8,
  as one that was cut inside a character, ends the reading and drops what follows; every
  lifetime starts again in full; after a restart the name set by CONFIG SET
  dbfilename is forgotten.
* `Registro`: two MONITOR at once give one registration.
* `Conexiones`: commands sent together are lost but for the first; a command cut by
  the end of the stream is executed with the words that came; a RESP client whose
  first packet has the word HTTP is taken for a browser; the timeout never ends a
  connection, because it is looked at only when the stream has ended; a command with a
  word that is not UTF-8 is neither run nor refused, and waits.

**Deadlock** is checked in the passing runs. The runs that refute a comment give
one client little or nothing to do, so there the system may stop; so it does in
`Canales`, `Persistencia`, `Registro` and `Conexiones`, where clients leave for good
and requests, crashes and the clock are bounded.

**Fairness.** `SpecJusta` has weak fairness of `Continuar(c)`, the later sections of
a command in progress: the thread is runnable, and `lock()` returns because every
section is finite. The same is assumed of a thread inside a command on channels
(`SpecPSJusta`), of a client thread and the log thread (`Registro!SpecJusta`), of the
client threads and the accept loop (`Conexiones!SpecJusta`), and in `UltimoCambio` of
the persistence thread and the clock. Always weak: a thread that can run is run, and
one that waits on a mutex or a socket is not forced. Nothing is assumed of clients:
they may never send, leave, or never reconnect. `TodosAtendidos` is therefore stated
for the runs in which no silent client holds the accept loop forever.

## Proofs

All of them are for every value of the constants that the named ASSUMEs of the modules
admit (finitely many keys and texts, an i32 range around 0, parameters of the right
type; TLC evaluates them): any number of clients, keys, values, requests and steps.

| Theorem | Statement | Module |
|---|---|---|
| `Invariante` | `Spec => []Inv` | `ServidorPruebas` |
| `TipoCorrecto` | `Spec => []TypeOK` | |
| `ElVenenoCongela` | `Spec => VenenoCongela` | |
| `CopiaSiempreVigente` | `Spec => []CopiaVigente` when no two clients use the same key | |
| `SinSetNoHayVeneno` | `Spec => []NuncaEnvenenado` when no SET of the clients panics | |
| `Refinamiento` | `Spec => ImplementaAtomico` when no two clients use the same key and none sends DEL or RENAME | |
| `ObservadoresAlDia` | `Spec => []EnviadoAlDia` when no client uses GETSET, EXPIRE, EXPIREAT or PERSIST | |
| `MiembrosSiempreContados` | `SpecHist => []MiembrosContados` | `ConservacionPruebas` |
| `BorradosSiempreContados` | `SpecHist => []BorradosContados` | |
| `NuncaNadieDeMas` | `SpecPS => []NadieDeMas` when no client uses COPY or RENAME and the table starts without channels | `PubSubPruebas` |
| `SiempreAlDia` | `SpecPS => []SuscripcionesAlDia` under the same hypotheses, when the clients that have a channel to themselves only issue commands on channels | |
| `TipoRegistro` | `Spec => []TypeOK` | `RegistroPruebas` |
| `LaBanderaEsTransitoria` | `Spec => []BanderaTransitoria` | |
| `LosMonitoresSePidieron` | `Spec => []MonitoresPedidos` | |
| `LasRutasEstanAlDia` | `Spec => []RutasAlDia` | |
| `NadaSePierdeNunca` | `Spec => []NadaSePierde` | `ConexionesPruebas` |
| `NuncaSeRepite` | `Spec => []SinRepetir` | |
| `HttpRespondeUnaVez` | `Spec => []HttpUnaRespuesta` | |
| `DescarteSiempreAcotado` | `Spec => []DescarteAcotado` | `PersistenciaPruebas` |
| `NadaSeInventa` | `Spec => []NuncaInventa` | |
| `RecargaSiempreFiel` | `Spec => []RecargaFiel` | |
| `PopParteLaLista` | `Spec => []PopCorrecto` | `AlgoritmosPruebas` |
| `PopDeshacePush` | `Spec => []PushPopInversos` | |
| `LRemSaca` | `Spec => []LRemCorrecto` | |
| `LimiteRecorta` | `Spec => []LimiteCorrecto` when lists are no longer than `MaxI32` | |
| `LRangeResponde` | `Spec => []RangoCorrecto` in the release build | |

**The server.** The first lemmas show that every plan of the string, list and set
commands is well formed and that the table operations keep the table so. `TypeOK` is
not inductive for what follows: a second section writes the key in `pend[c]`, and
nothing in it says that the key is one the client may use, nor that an `expirar` phase
comes from an EXPIREAT. `Inv` adds `EnCurso(c)`: the keys of a command in progress are
in `Permitidas[c]`, and its phase comes from a command of the client. `Paso(c)` sums up
what any step of a client may do: keep the state well formed, leave every other thread
and every key outside `Permitidas[c]` alone, change nothing once the mutex is poisoned,
poison it only through a SET that panics, and hand over the table it leaves unless the
client is `Callado`. Each command is shown to be a `Paso` (`PasoString`, `PasoList`,
..., one case per action), and the theorems follow from `Paso`. `CopiaVigente` needs
disjoint keys: only then does `Paso(d)` leave the key that `c` read untouched.

**The refinement.** The mapping keeps the table, the poison, the clock and the answers,
and hides the phases, so each step must be an abstract step or change none of them. A
command of one section is one; a first section stutters, answers or dies; a second
section is the abstract command because the copy is still what the key holds, or the
value has expired since, which `Vistos` allows (`CopiaVigente`). To know *which*
command, the invariant adds `EnMarcha(c)`, an account of what thread `c` has done: its
pending plan is one that a command of `c` makes from the value read, and an MGET or
EXISTS in its loop has so far what some reading of all its keys gives for the first n
(`Reune`: a witness of `Lecturas`, kept through the loop). `EnMarcha(c)` survives the
steps of the others because they leave the keys of `c` alone, and the clock because a
value that may be seen now may still be seen later. The hypotheses are those of the
abstract specification: keys of one's own, and no DEL or RENAME, which it does not
promise to be atomic.

**Racing clients.** `InvHist` has the two counts tied to the table (`Cuentas`) and, of a
thread between two sections, only what its next section needs (`LlevaDe`): the keys left
in the loop are `Contadas`, and a SORT that will store has the options of its request,
so it stores elsewhere. What threads carry between sections does not enter the sums: a
key or a member is counted in the section that changes it, so a step changes the count
and the table together, and the rest is the cardinality of a union and of a difference.

**Channels.** `NadieDeMas` speaks of the lists in the table and of those that threads
carry at the same time, and a list moves between the two: `Cuentas` states it by parts
(every list of the table, what each thread has in hand, what was received), and `InvPS`
adds to `Inv` that a thread in a command on channels has no other command in progress
and that no pending plan writes a channel. `PasoPS(c)` sums up a step: it is a `Paso` or
leaves the server alone, notices only grow, and the only list that it puts in the table
is the one `c` carries. The commands of the other handlers are covered by
`RespetaCanales`: they overwrite and remove channels and make none. The two hypotheses
are needed: COPY and RENAME store the list of a channel under a key whose notices they
do not send, and `levantar_tabla` restores no channels. How often a client is on a list
is a cardinality; `SecuenciasPruebas` has what it becomes after an append, a removal and
the loss of the head.

`SuscripcionesAlDia` is not inductive: it says nothing of the list in the table while `c`
carries a copy, which is what remains if the mutex is poisoned then, nor that the list
read is the one in the table, which fails for a channel with a lifetime. `AlDia(c, k)`
adds both: the two lists differ by one notice at most, and a channel that only `c` uses
has no lifetime. `Dedicados` is needed because a DEL, a SET or an EXPIRE of the client
itself ends its subscriptions without a notice. Steps of other clients are `PasoPS`, so
they leave the key alone, and `AvisosPropios` shows that they send `c` no notice.

**The log.** `BanderaTransitoria` is inductive with the types. `MonitoresPedidos` counts
messages in a channel of any length, so the invariant counts positions (`Cuantas`)
instead of filtering the channel. `RutasAlDia` holds because the last file name in the
channel, or else the file open, is the configured one (`LogAlDia`, `DbAlDia`), unless a
CONFIG SET has not reached `actualizar`.

**Connections.** The invariant is one of each connection by itself (`InvDe`): what the
parser holds and what the socket holds, one after the other (`Tubo`), are a run of
consecutive units that ends where the client will go on; the requests executed come
before that run, once each and in order; a client that waits has at most one request
that was not answered; and a browser's thread that has read a request does not read
again. Steps of other connections leave `EstadoDe(c)` alone.

**Persistence.** `DescarteAcotado` needs that the thread's clock is the time of the last
save that ended or of its start, for as long as the thread lives (`Reloj`), which a crash
in the middle of a save does not disturb.

The other two are about what `LevantarTabla` makes of a file of any length. `Archivos`
says what the thread carries: the lines of a copy are those of its values, the files are
bytes, and every table and copy holds only keys and values of `tuvo`. For `RecargaFiel`,
`Fieles` adds that the bytes up to the place reached, read by themselves, give the part
of the copy written so far (`Fielmente`), in whatever order the keys and the members
came; when no byte is left over that is the whole file. It needs that a line is read
back as its fields (`Texto` puts them together, `Leyendo` takes them apart), that
`Numero` undoes `Decimal`, and that no field of a `Legible` value is taken for a mark.

For `NuncaInventa` the whole file counts, the bytes of older lines included, which start
anywhere. A file is `Sano` when every tag in it that ends a field is at the start of a
line, and that line is exactly the line of a value that was stored. The rest of an
older line, cut at any byte, has no tag of its own because no word ends in one, so the
reader passes over it. Writing a line keeps a file `Sano` once its end is written; in
between, the file *with the end added* is `Sano` (`SanoHasta`), which is why a crash
there is the one that `cortada` must exclude, unless the text reached the end of the
file. `Sanos` says this of every file, and `NuncaInventa` follows line by line.

What reading gives is shown byte by byte: `LevantarTabla` is a recursive function of the
position, as are `Decimal`, `Cuenta` and `Texto`, and each is followed from the least
position without the property (`WFMin`), with the property as a set.

**Lists.** The five theorems on `Algoritmos` are facts about every list and pair of
numbers, carried over to `Spec` because the inputs do not change. LIMIT compares the
length of the list with an i32, hence the hypothesis; in the debug build LRANGE panics
where the release build wraps, hence the other. For LREM, the place of a position among
those that stay (`Puesto`) is injective into as many numbers as there are, so it reaches
them all (`Puestos`): this gives the order of what stays and the number of occurrences
taken without induction over the list. From the back it is the same on the reversed
list, with the positions mirrored (`Espejo`).

*Only model-checked:*

* liveness (`TodoComandoTermina`, `CanalesTerminan`, `TodoPedidoTermina`,
  `TodosAtendidos`): fairness is out of the prover's reach;
* `SortConserva`: that `SortSeq` returns a permutation of its argument rests on the
  existence of a sorted one, an induction over the sequence for an order given as an
  operator, which the provers cannot instantiate.

## Not modelled

The joins of `Drop` in `redis.rs` (the accept loop never returns) and the messages
`Cerrar` it would send; `obtener_configuracion` and `main.rs`, which read the start-up
file and arguments once; the wording of answers, pages and log lines; the timeout of a
client, which changes nothing (see above); `redis_error.rs`, an enumeration. Only
TLC's instances connect the parts: `Persistencia` and `Registro` have small tables of
their own in place of the one of `Servidor`.

## What is left

Every invariant and the refinement that the runs check are proved; of the action
properties, `VenenoCongela` is and `SortConserva` is not. Worth adding: the table of
`Servidor` in place of the small one of `Persistencia`, so that the refinement and the
file are one argument; and the permutation lemma for `SortSeq`, with the order as a set
of pairs.
