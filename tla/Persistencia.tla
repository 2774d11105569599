---------------------------- MODULE Persistencia ----------------------------
(***************************************************************************)
(* The persistence thread and its file (persistencia.rs), with the crash   *)
(* and the restart of the process.                                         *)
(*                                                                         *)
(* A file is a sequence of bytes: Sep between the fields of a line, Nl at  *)
(* its end, the ten digits and other letters.  A name or a text is a       *)
(* sequence of bytes too: any bytes but Nl, which ends a word before it    *)
(* gets into a command.  Nothing is escaped: a text may hold Sep, or be    *)
(* EX or a tag.  A string is one text here.  Because a line may be read    *)
(* with any field as its key, a table is a function whose domain is the    *)
(* set of keys present.                                                    *)
(***************************************************************************)
EXTENDS BaseDeDatos

CONSTANTS Letras,         \* bytes that are no digit and neither Sep nor Nl
          Sep, Nl,        \* the separator and the end of a line
          TagString, TagLista, TagSet,   \* STRING, LIST and SET
          MarcaEx,        \* EX
          Abren, Siguen,  \* the first and the second byte of characters of two
          Rutas,          \* names of files
          Abribles,       \* the files the process can open
          RutaInicial,    \* dbfilename in the configuration file
          Intervalo,      \* seconds between two saves
          Escrituras,     \* what clients store under each key, and for how long
          VidasNuevas,    \* lifetimes EXPIRE gives each key; SinVida is PERSIST
          MaxTiempo,      \* bound: seconds the clock runs
          MaxCambios,     \* bound: commands of clients
          MaxCaidas       \* bound: crashes

Digitos == 0 .. 9
Etiquetas == {TagString, TagLista, TagSet}
DeCampo == Letras \cup Digitos           \* the bytes of a field
Bytes == DeCampo \cup {Sep, Nl}

(* The bytes are UTF-8.  A line is if its fields are.                      *)
EsUtf8(s) ==
  \A i \in DOMAIN s : /\ s[i] \in Siguen <=> i > 1 /\ s[i - 1] \in Abren
                      /\ s[i] \in Abren => i < Len(s)

(* What clients store: a text, a list of texts or a set of texts.          *)
EsDato(x) == \/ \E y \in Textos : x = Str(<<y>>)
             \/ x.tipo = "Lista" /\ x.lista \in Seq(Textos) /\ x = Lista(x.lista)
             \/ x.tipo = "Set" /\ x.set \subseteq Textos /\ x = Conjunto(x.set)

(* No tag is the end of another one, as none of STRING, LIST and SET is.   *)
TerminaEn(s, w) ==
  Len(w) <= Len(s) /\ \A i \in 1 .. Len(w) : s[Len(s) - Len(w) + i] = w[i]

ASSUME PersistenciaAssumption ==
  /\ Sep \notin DeCampo /\ Nl \notin DeCampo /\ Sep # Nl
  /\ Letras \cap Digitos = {} /\ Abren \subseteq Letras /\ Siguen \subseteq Letras
  /\ \A w \in Etiquetas \cup {MarcaEx} : w \in Seq(Letras) /\ w # <<>>
  /\ \A w, v \in Etiquetas \cup {MarcaEx} : w # v => ~TerminaEn(w, v)
  /\ TagString # TagLista /\ TagString # TagSet /\ TagLista # TagSet
  /\ MarcaEx \notin Etiquetas
  /\ \A s \in Claves \cup Textos \cup Etiquetas \cup {MarcaEx} :
       s \in Seq(DeCampo \cup {Sep}) /\ EsUtf8(s)
  /\ Abribles \subseteq Rutas /\ RutaInicial \in Rutas
  /\ Intervalo \in Nat \ {0}
  /\ MaxTiempo \in Nat /\ MaxCambios \in Nat /\ MaxCaidas \in Nat
  /\ VidasNuevas \in [Claves -> SUBSET Vidas]
  /\ \A k \in Claves : \A w \in Escrituras[k] :
       w.vida \in Vidas /\ (w.valor = Nada \/ EsDato(w.valor))

VARIABLES proceso,    \* the process is up, has crashed, or panicked at start-up
          tabla,      \* the table, with the keys present as its domain
          cola,       \* the channel to the persistence thread
          pers,       \* the PersistidorHandler and where it is in persistir
          disco,      \* the contents of each file
          ahora,      \* the clock, in seconds
          cambios,    \* commands of clients so far
          caidas,     \* crashes so far
          guardada,   \* history: the last copy saved, where, when, and what was left over
          descartada, \* history: when a copy was last dropped, and the save before it
          tuvo,       \* history: the keys and the values they have held
          cortada     \* history: a crash left a line joined to an older one

vars == <<proceso, tabla, cola, pers, disco, ahora, cambios, caidas, guardada,
          descartada, tuvo, cortada>>
historia == <<guardada, descartada, tuvo, cortada>>

-----------------------------------------------------------------------------
(* Tables by the keys present.                                             *)
SinClaves == [k \in {} |-> Ausente]
Poner(T, k, v) == [q \in DOMAIN T \cup {k} |-> IF q = k THEN v ELSE T[q]]
Quitar(T, k) == [q \in DOMAIN T \ {k} |-> T[q]]

(* What of a table is there to save at second t.                           *)
Visible(T, t) ==
  LET ks == {k \in DOMAIN T : Get(T[k], t).tipo \notin {"Nada", "Canal"}}
  IN  [k \in ks |-> T[k]]

(* The number n in decimal, as to_string writes it, and the number that    *)
(* parse::<u64> makes of a field, 0 for unwrap_or(0).                      *)
Decimal(n) ==
  LET cifras[m \in 0 .. n] ==
        IF m < 10 THEN <<m>> ELSE Append(cifras[m \div 10], m % 10)
  IN  cifras[n]

Cuenta(s) ==
  LET suma[i \in 0 .. Len(s)] == IF i = 0 THEN 0 ELSE 10 * suma[i - 1] + s[i]
  IN  suma[Len(s)]

Numero(s) == IF s # <<>> /\ \A i \in DOMAIN s : s[i] \in Digitos THEN Cuenta(s) ELSE 0

(* The fields of the line that stands for the value x of k, with vence at  *)
(* its end; the elements of a set come in any order.                       *)
Lineas(k, x, vence) ==
  CASE x.tipo = "Str"   -> {<<TagString, k>> \o x.str \o vence}
    [] x.tipo = "Lista" -> {<<TagLista, k>> \o x.lista \o vence}
    [] x.tipo = "Set"   -> {<<TagSet, k>> \o q \o vence : q \in SetToSeqs(x.set)}
    [] OTHER            -> {<<>>}

Vencimiento(n) == IF n = SinVida THEN <<>> ELSE <<MarcaEx, Decimal(n)>>

(* Mutant of GuardarClaveValor: a value that has expired is written too. *)
GuardarVencidas(k, v, t) == Lineas(k, v.valor, Vencimiento(v.vida))

(* guardar_clave_valor: nothing for a channel or a value that has expired; *)
(* the lifetime written is the whole one, not what is left of it.          *)
GuardarClaveValor(k, v, t) == Lineas(k, Get(v, t), Vencimiento(v.vida))

(* The text of a line: its fields, with a separator between any two.       *)
Texto(cs) ==
  LET unido[n \in 0 .. Len(cs)] ==
        IF n = 0 THEN <<>> ELSE IF n = 1 THEN cs[1] ELSE unido[n - 1] \o <<Sep>> \o cs[n]
  IN  unido[Len(cs)]

(* A write at position p of the file f, which is never truncated.          *)
Pisar(f, p, bs) ==
  [i \in 1 .. IF p + Len(bs) > Len(f) THEN p + Len(bs) ELSE Len(f) |->
     IF p < i /\ i <= p + Len(bs) THEN bs[i - p] ELSE f[i]]

(* levantar_tabla reads a line by the tag that is one of its fields, be it *)
(* the first or not.  EX is looked for in all of a string's line, and in   *)
(* a list or set after the key, where it stays as an element.              *)
Dice(l, w) == \E i \in DOMAIN l : l[i] = w
SinEtiqueta(l) == \A w \in Etiquetas : ~Dice(l, w)
Resto(l) == SubSeq(l, 3, Len(l))
EsExpirable(l) == Dice(IF Dice(l, TagString) THEN l ELSE Resto(l), MarcaEx)

(* Indexing out of range: elemento[2], remove(0) or c[0].                  *)
FueraDeRango(l) == \/ Len(l) < IF Dice(l, TagString) THEN 3 ELSE 2
                   \/ EsExpirable(l) /\ l[Len(l)] = MarcaEx

TiempoExpiracion(l) ==
  LET ultimo == CHOOSE i \in DOMAIN l :
                  l[i] = MarcaEx /\ \A j \in DOMAIN l : j > i => l[j] # MarcaEx
  IN  Numero(l[ultimo + 1])

ValorDeLinea(l) ==
  CASE Dice(l, TagString)                       -> Str(<<l[3]>>)
    [] ~Dice(l, TagString) /\ Dice(l, TagLista) -> Lista(Resto(l))
    [] OTHER                                    -> Conjunto({l[i] : i \in 3 .. Len(l)})

LevantarLinea(T, l, t) ==
  Poner(T, l[2], IF EsExpirable(l) THEN Expirable(ValorDeLinea(l), TiempoExpiracion(l), t)
                 ELSE NoExpirable(ValorDeLinea(l)))

(* The table, the fields of the line and the field being read.  A line     *)
(* that is not UTF-8 cuts the reading short; a panic ends it.              *)
Lectura(T, e) == [tabla |-> T, campos |-> <<>>, campo |-> <<>>, estado |-> e]

TerminarLinea(h, t) ==
  LET l == Append(h.campos, h.campo)
  IN  IF h.estado # "lee" THEN Lectura(h.tabla, h.estado)
      ELSE IF \E i \in DOMAIN l : ~EsUtf8(l[i]) THEN Lectura(h.tabla, "corta")
      ELSE IF SinEtiqueta(l) THEN Lectura(h.tabla, "lee")
      ELSE IF FueraDeRango(l) THEN Lectura(h.tabla, "panico")
      ELSE Lectura(LevantarLinea(h.tabla, l, t), "lee")

Avanzar(h, b, t) ==
  IF b = Nl THEN TerminarLinea(h, t)
  ELSE IF b = Sep THEN [h EXCEPT !.campos = Append(@, h.campo), !.campo = <<>>]
  ELSE [h EXCEPT !.campo = Append(@, b)]

Leyendo(f, t) ==
  LET leido[n \in 0 .. Len(f)] ==
        IF n = 0 THEN Lectura(SinClaves, "lee") ELSE Avanzar(leido[n - 1], f[n], t)
  IN  leido

LevantarTabla(f, t) == TerminarLinea(Leyendo(f, t)[Len(f)], t)

-----------------------------------------------------------------------------
Info(T) == [msg |-> "info", tabla |-> T]
ArchivoAPersistir(r) == [msg |-> "archivo", ruta |-> r]

(* PersistidorHandler::new, and the thread in recv; the thread about to    *)
(* write the lines of a copy.                                              *)
Esperando(r, t) == [paso |-> "esperar", archivo |-> r, instante |-> t]
Guardando(p, T, t) ==
  [paso |-> "texto", archivo |-> p.archivo, instante |-> p.instante,
   lineas |-> [k \in DOMAIN T |-> GuardarClaveValor(k, T[k], t)],
   faltan |-> DOMAIN T, pos |-> 0, copia |-> Visible(T, t)]

(* guardada while a save is in progress, or after a crash.                 *)
Incompleta == -1

TypeOK ==
  /\ proceso \in {"arriba", "caido", "roto"}
  /\ DOMAIN tabla \subseteq Seq(Bytes)
  /\ \A k \in DOMAIN tabla : tabla[k].creado \in Nat /\ tabla[k].vida \in Vidas
  /\ pers.paso \in {"esperar", "texto", "fin", "muerto"}
  /\ disco \in [Rutas -> Seq(Bytes)]
  /\ ahora \in Nat /\ cambios \in Nat /\ caidas \in Nat

Init ==
  /\ proceso = "arriba"
  /\ tabla = SinClaves
  /\ cola = <<>>
  /\ pers = Esperando(RutaInicial, 0)
  /\ disco = [r \in Rutas |-> <<>>]
  /\ ahora = 0 /\ cambios = 0 /\ caidas = 0
  /\ guardada = [tabla |-> SinClaves, ruta |-> RutaInicial, t |-> 0, sobra |-> 0]
  /\ descartada = [t |-> 0, base |-> 0]
  /\ tuvo = {}
  /\ cortada = FALSE

-----------------------------------------------------------------------------
(* Persistidor::persistir and cambiar_archivo: nobody is told when the     *)
(* thread has ended.                                                       *)
Enviar(m) == cola' = IF pers.paso = "muerto" THEN cola ELSE Append(cola, m)

Comando == proceso = "arriba" /\ cambios < MaxCambios /\ cambios' = cambios + 1

(* A command that stores or removes a value and notifies the observers.    *)
Guardar(k) ==
  /\ Comando
  /\ \E w \in Escrituras[k] :
       /\ tabla' = IF w.valor = Nada THEN Quitar(tabla, k)
                   ELSE Poner(tabla, k, IF w.vida = SinVida THEN NoExpirable(w.valor)
                                        ELSE Expirable(w.valor, w.vida, ahora))
       /\ tuvo' = IF w.valor = Nada THEN tuvo ELSE tuvo \cup {<<k, w.valor>>}
  /\ Enviar(Info(tabla'))
  /\ UNCHANGED <<proceso, pers, disco, ahora, caidas, guardada, descartada, cortada>>

(* EXPIRE and PERSIST change the table and notify nobody.                  *)
CambiarVida(k) ==
  /\ Comando /\ k \in DOMAIN tabla
  /\ \E n \in VidasNuevas[k] :
       tabla' = Poner(tabla, k, IF n = SinVida THEN NoExpirable(tabla[k].valor)
                                ELSE Expirable(tabla[k].valor, n, ahora))
  /\ UNCHANGED <<proceso, cola, pers, disco, ahora, caidas, historia>>

(* CONFIG SET dbfilename, as actualizar_persistencia passes it on.         *)
CambiarArchivo ==
  /\ Comando
  /\ \E r \in Rutas : Enviar(ArchivoAPersistir(r))
  /\ UNCHANGED <<proceso, tabla, pers, disco, ahora, caidas, historia>>

-----------------------------------------------------------------------------
(* Mutant of Descartar: the interval starts again with the copy dropped. *)
DescartarReiniciando ==
  /\ descartada' = [t |-> ahora, base |-> guardada.t]
  /\ pers' = [pers EXCEPT !.instante = ahora]

(* A copy too close to the last save is dropped, for good.                 *)
Descartar ==
  /\ descartada' = [t |-> ahora, base |-> guardada.t]
  /\ UNCHANGED pers

(* persistir takes a message; the thread ends when the file does not open. *)
Recibir ==
  /\ proceso = "arriba" /\ pers.paso = "esperar" /\ cola # <<>>
  /\ LET m == Head(cola)
     IN  \/ /\ m.msg = "archivo"
            /\ cola' = Tail(cola) /\ pers' = [pers EXCEPT !.archivo = m.ruta]
            /\ UNCHANGED <<guardada, descartada>>
         \/ /\ m.msg = "info" /\ ahora - pers.instante < Intervalo
            /\ Descartar
            /\ cola' = Tail(cola) /\ UNCHANGED guardada
         \/ /\ m.msg = "info" /\ ahora - pers.instante >= Intervalo
            /\ \/ /\ pers.archivo \in Abribles
                  /\ cola' = Tail(cola)
                  /\ pers' = Guardando(pers, m.tabla, ahora)
                  /\ guardada' = [guardada EXCEPT !.sobra = Incompleta]
               \/ /\ pers.archivo \notin Abribles
                  /\ cola' = <<>> /\ pers' = [paso |-> "muerto"]
                  /\ UNCHANGED guardada
            /\ UNCHANGED descartada
  /\ UNCHANGED <<proceso, tabla, disco, ahora, cambios, caidas, tuvo, cortada>>

(* guardar_en_archivo: writeln! writes the line and then its end.  The     *)
(* lines come in the order of the HashMap, whatever it is.                 *)
EscribirTexto ==
  /\ proceso = "arriba" /\ pers.paso = "texto"
  /\ \E k \in pers.faltan :
       \E cs \in pers.lineas[k] :
         /\ disco' = [disco EXCEPT ![pers.archivo] = Pisar(@, pers.pos, Texto(cs))]
         /\ pers' = [pers EXCEPT !.paso = "fin", !.faltan = @ \ {k}, !.pos = @ + Len(Texto(cs))]
  /\ UNCHANGED <<proceso, tabla, cola, ahora, cambios, caidas, historia>>

(* Mutant of EscribirFin: the last line is left without its end. *)
EscribirFinSalvoElUltimo ==
  /\ proceso = "arriba" /\ pers.paso = "fin"
  /\ LET n == IF pers.faltan = {} THEN 0 ELSE 1
     IN  /\ disco' = [disco EXCEPT ![pers.archivo] = Pisar(@, pers.pos, SubSeq(<<Nl>>, 1, n))]
         /\ pers' = [pers EXCEPT !.paso = "texto", !.pos = @ + n]
  /\ UNCHANGED <<proceso, tabla, cola, ahora, cambios, caidas, historia>>

EscribirFin ==
  /\ proceso = "arriba" /\ pers.paso = "fin"
  /\ disco' = [disco EXCEPT ![pers.archivo] = Pisar(@, pers.pos, <<Nl>>)]
  /\ pers' = [pers EXCEPT !.paso = "texto", !.pos = @ + 1]
  /\ UNCHANGED <<proceso, tabla, cola, ahora, cambios, caidas, historia>>

TerminarDeGuardar ==
  /\ proceso = "arriba" /\ pers.paso = "texto" /\ pers.faltan = {}
  /\ pers' = Esperando(pers.archivo, ahora)
  /\ guardada' = [tabla |-> pers.copia, ruta |-> pers.archivo, t |-> ahora,
                  sobra |-> Len(disco[pers.archivo]) - pers.pos]
  /\ UNCHANGED <<proceso, tabla, cola, disco, ahora, cambios, caidas, descartada, tuvo, cortada>>

-----------------------------------------------------------------------------
(* The text of a line was written and its end was not: until then the line *)
(* goes on with the bytes of the older one it was written over.            *)
AMedias == pers.paso = "fin" /\ pers.pos < Len(disco[pers.archivo])

(* The process is killed: the table and the channel are gone.              *)
Caer ==
  /\ proceso = "arriba" /\ caidas < MaxCaidas
  /\ proceso' = "caido" /\ caidas' = caidas + 1
  /\ tabla' = SinClaves /\ cola' = <<>> /\ pers' = [paso |-> "muerto"]
  /\ cortada' = (cortada \/ AMedias)
  /\ UNCHANGED <<disco, ahora, cambios, guardada, descartada, tuvo>>

(* Redis::new reads the file named in the configuration file.              *)
Levantar ==
  /\ proceso = "caido"
  /\ LET h == IF RutaInicial \in Abribles THEN LevantarTabla(disco[RutaInicial], ahora)
              ELSE Lectura(SinClaves, "lee")
     IN  \/ /\ h.estado = "panico" /\ proceso' = "roto"
            /\ UNCHANGED <<tabla, pers, tuvo>>
         \/ /\ h.estado # "panico" /\ proceso' = "arriba"
            /\ tabla' = h.tabla
            /\ pers' = Esperando(RutaInicial, ahora)
            /\ tuvo' = tuvo \cup {<<k, h.tabla[k].valor>> : k \in DOMAIN h.tabla}
  /\ guardada' = [guardada EXCEPT !.t = ahora]
  /\ UNCHANGED <<cola, disco, ahora, cambios, caidas, descartada, cortada>>

Tick ==
  /\ ahora < MaxTiempo /\ ahora' = ahora + 1
  /\ UNCHANGED <<proceso, tabla, cola, pers, disco, cambios, caidas, historia>>

HiloPersistencia == \/ Recibir \/ EscribirTexto \/ EscribirFin \/ TerminarDeGuardar

Next == \/ \E k \in Claves : Guardar(k) \/ CambiarVida(k)
        \/ CambiarArchivo \/ HiloPersistencia \/ Caer \/ Levantar \/ Tick

Spec == Init /\ [][Next]_vars

(* The thread runs, the clock advances, and a process that was killed is   *)
(* started again.                                                          *)
SpecJusta == Spec /\ WF_vars(HiloPersistencia) /\ WF_vars(Tick) /\ WF_vars(Levantar)

-----------------------------------------------------------------------------
(* What a reader makes of the line of a value: it comes back when none of  *)
(* its words has the separator in it or is taken for EX or for a tag.      *)
Elementos(x) == CASE x.tipo = "Str"   -> {x.str[i] : i \in DOMAIN x.str}
                  [] x.tipo = "Lista" -> {x.lista[i] : i \in DOMAIN x.lista}
                  [] x.tipo = "Set"   -> x.set
                  [] OTHER            -> {}

Legible(k, x) ==
  /\ \A s \in {k} \cup Elementos(x) : \A i \in DOMAIN s : s[i] # Sep
  /\ MarcaEx \notin Elementos(x) /\ (x.tipo = "Str" => k # MarcaEx)
  /\ x.tipo # "Str" => TagString \notin {k} \cup Elementos(x)
  /\ x.tipo = "Set" => TagLista \notin {k} \cup Elementos(x)

(* A list or set with a lifetime gets EX and the number as elements.       *)
Vuelve(x, n) ==
  CASE x.tipo = "Lista" -> Lista(x.lista \o Vencimiento(n))
    [] x.tipo = "Set" /\ n # SinVida -> Conjunto(x.set \cup {MarcaEx, Decimal(n)})
    [] OTHER -> x

(* A save that left no byte over is read back as the copy that was saved:  *)
(* the same keys with their whole lifetimes, no value that had expired,    *)
(* and the values as Vuelve says.  If every value of the copy is Legible.  *)
RecargaFiel ==
  guardada.sobra = 0 /\ (\A k \in DOMAIN guardada.tabla : Legible(k, guardada.tabla[k].valor)) =>
    LET h == LevantarTabla(disco[guardada.ruta], ahora)
        G == guardada.tabla
    IN  /\ h.estado = "lee" /\ DOMAIN h.tabla = DOMAIN G
        /\ \A k \in DOMAIN G : /\ h.tabla[k].valor = Vuelve(G[k].valor, G[k].vida)
                               /\ h.tabla[k].vida = G[k].vida

(* Nor is the end of any of its words a tag, and so neither is the end of  *)
(* its line, wherever a later save cuts it.                                *)
LegibleCortado(k, x) ==
  Legible(k, x) /\ \A s \in {k} \cup Elementos(x) : \A w \in Etiquetas : ~TerminaEn(s, w)

(* The file is rewritten in place and never cut, so what follows the lines *)
(* of the last save is the rest of older ones, of several lengths.  All of *)
(* it can be read, without a panic, and no key gets a value, of those      *)
(* lines or of the rest, that was not stored under it at some time.  If    *)
(* every word stored so far can be told from the marks of the file, and no *)
(* crash came between the text of a line and its end.                      *)
NuncaInventa ==
  (\A p \in tuvo : LegibleCortado(p[1], p[2])) /\ ~cortada /\ ~AMedias =>
    \A r \in Rutas :
      LET h == LevantarTabla(disco[r], ahora)
      IN  /\ h.estado # "panico"
          /\ \A k \in DOMAIN h.tabla :
               \E p \in tuvo : p[1] = k /\ h.tabla[k].valor = Vuelve(p[2], h.tabla[k].vida)

(* A copy is dropped only if a save ended, or the thread started, less     *)
(* than Intervalo before: changes further apart than that are all saved.   *)
DescarteAcotado == descartada.t - descartada.base < Intervalo

(* persistencia.rs:43, "intervalo de tiempo a traves del cual se va a      *)
(* persistir": a change is saved some interval later, if the process lives *)
(* and its file opens.  Where clients use no lifetimes.                    *)
UltimoCambioLlega ==
  guardada.tabla # tabla ~> \/ guardada.tabla = tabla
                            \/ proceso # "arriba" \/ pers.paso = "muerto"

=============================================================================
