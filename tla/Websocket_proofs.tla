-------------------------- MODULE Websocket_proofs --------------------------
(***************************************************************************)
(* Theorems about the WebSocket client library: first what a client owns,  *)
(* WebsocketSetup, then the client at work, WebsocketClient.               *)
(*                                                                         *)
(* Setup, for every configuration, every URI, and an allocation that fails *)
(* at any step of any call: a handle that esp_websocket_client_init        *)
(* returns is complete, it starts with the authorisation of its own        *)
(* credentials, freed memory is only used for what set_uri makes again,    *)
(* and only known memory is ever lost. The invariant speaks of what a      *)
(* script still has to do. Until init is over each part of the handle is   *)
(* there or still to be allocated; a pointer to freed memory comes of the  *)
(* texts of set_uri alone; once the authorisation is no longer to be made, *)
(* neither is a credential; and the host of the configuration is set once, *)
(* over nothing but the URI's.                                             *)
(*                                                                         *)
(* At work, for any number of senders, fragments, connections and loop     *)
(* tasks, and for all intervals: messages are not mixed, nothing read or   *)
(* awaited belongs to another connection, one loop task runs at a time,    *)
(* and the flag follows the state.  All of it rests on who holds the lock. *)
(***************************************************************************)
EXTENDS WebsocketClient, WebsocketSetup, TLAPS

-----------------------------------------------------------------------------
(* Setup: the scripts and the handle.                                      *)

Sources == {"uri", "config", "default", "derived", "free"}
ScriptEntry    == [what : Slots, from : Sources]

\* What is to be done in a script.
Entries(s) == {s[i] : i \in DOMAIN s}

\* After x nothing of B is to be done.
NoneAfter(s, x, B) == \A i, j \in DOMAIN s : i < j /\ s[i] = x => s[j] \notin B

Auth  == Alloc("auth", "derived")
Host  == Alloc("host", "config")
Creds == {Alloc("username", "uri"), Alloc("username", "config"),
          Alloc("password", "uri"), Alloc("password", "config")}

\* What every call of a handle relies on.
Core == {"client", "event_handle", "lock", "config", "rx_buffer", "tx_buffer",
         "status_bits"}

\* The texts asprintf makes of a URI, and what else init puts in their place:
\* later, but for the scheme of a transport.
TextSteps == {Alloc("scheme", "uri"), Alloc("host", "uri"), Alloc("path", "uri"),
              Alloc("scheme", "default"), Host, Alloc("path", "config")}

UriSteps == {Alloc(x, "uri") : x \in {"scheme", "host", "path", "user_info",
                                      "password", "username"}}
              \union {Alloc("user_info", "free")}

ConfigSteps == {Alloc(x, "config") : x \in {"if_name", "scheme", "host", "username",
                                            "password", "uri", "path", "headers"}}

DefaultSteps == {Alloc(x, "default") : x \in Core \union {"scheme"}}

TransportSteps == {Alloc(x, f) : x \in {"ws", "parent", "transport_list"},
                                 f \in {"free", "default"}}

\* What the calls have to do, and in which order as far as it matters.
InitOrder == /\ Entries(script) \subseteq UriSteps \union ConfigSteps
                                            \union DefaultSteps \union {Auth}
             /\ Entries(script) \intersect UriSteps # {} => "uri" \in given
             /\ NoneAfter(script, Auth, Creds)
             /\ Entries(script) \intersect Creds # {} => Auth \in Entries(script)
             /\ NoneAfter(script, Host, {Host})
             /\ \A x \in TextSteps : NoneAfter(script, x, {Alloc(x.what, "uri")})

ScriptInv == /\ call = "init" => InitOrder
             /\ call = "set_uri" => Entries(script) \subseteq UriSteps
             /\ call = "start" => Entries(script) \subseteq TransportSteps
             /\ call \notin {"init", "set_uri", "start"} => script = <<>>

\* Each part of the handle is there, or init has yet to allocate it.
CompleteInv ==
    /\ call = "init" => \A s \in Core \union {"scheme"} :
                            slot[s] # "none" \/ Alloc(s, "default") \in Entries(script)
    /\ call \in {"idle", "set_uri", "start"} => \A s \in Core : slot[s] # "none"

\* Only the URI's host can be there before the configuration's.
LeakInv ==
    /\ KnownLeaks
    /\ call = "init" /\ slot["host"] # "none" /\ "uri" \notin given
          => Host \notin Entries(script)

\* Once made, the authorisation is that of the credentials there are.
AuthInv ==
    /\ {slot["username"], slot["password"]} \subseteq {"none", "uri", "config"}
    /\ call = "init" /\ Auth \notin Entries(script)
         => \/ slot["username"] = "none" \/ slot["password"] = "none"
            \/ /\ slot["auth"] # "none"
               /\ authOf = <<slot["username"], slot["password"]>>

\* A pointer dangles where asprintf was to replace a text: in init, which makes
\* each text of the URI before any other but the scheme of the transport, this
\* is that scheme.
DangleInv ==
    /\ Dangling \subseteq {"scheme", "host", "path"}
    /\ call = "init" =>
          /\ Dangling \subseteq {"scheme"}
          /\ Dangling # {} => SchemeMadeTwice
          /\ \A x \in {"host", "path"} :
                Alloc(x, "uri") \in Entries(script) => slot[x] = "none"
          /\ "transport" \notin given /\ Alloc("scheme", "uri") \in Entries(script)
                => slot["scheme"] = "none"
    /\ KnownMisuse

SetupInv == /\ SetupTypeOK /\ ScriptInv /\ CompleteInv /\ LeakInv /\ AuthInv
            /\ DangleInv
-----------------------------------------------------------------------------
(* The scripts, put together from blocks.                                  *)

LEMMA EntriesJoin ==
    ASSUME NEW s \in Seq(ScriptEntry), NEW t \in Seq(ScriptEntry)
    PROVE  /\ s \o t \in Seq(ScriptEntry)
           /\ Entries(s \o t) = Entries(s) \union Entries(t)
<1>1. s \o t \in Seq(ScriptEntry)
  OBVIOUS
<1>2. /\ DOMAIN (s \o t) = 1 .. Len(s) + Len(t)
      /\ DOMAIN s = 1 .. Len(s) /\ DOMAIN t = 1 .. Len(t)
      /\ Len(s) \in Nat /\ Len(t) \in Nat
  OBVIOUS
<1>3. \A i \in 1 .. Len(s) : (s \o t)[i] = s[i]
  OBVIOUS
<1>4. \A i \in 1 .. Len(t) : (s \o t)[i + Len(s)] = t[i]
  OBVIOUS
<1>5. ASSUME NEW i \in 1 .. Len(s) + Len(t)
      PROVE  (s \o t)[i] \in Entries(s) \union Entries(t)
  <2>1. CASE i <= Len(s)
    BY <1>2, <1>3, <2>1 DEF Entries
  <2>2. CASE i > Len(s)
    <3>1. i - Len(s) \in 1 .. Len(t) /\ (i - Len(s)) + Len(s) = i
      BY <1>2, <2>2
    <3>2. (s \o t)[i] = t[i - Len(s)]
      BY <1>4, <3>1
    <3> QED  BY <1>2, <3>1, <3>2 DEF Entries
  <2> QED  BY <1>2, <2>1, <2>2
<1>6. Entries(s \o t) \subseteq Entries(s) \union Entries(t)
  BY <1>2, <1>5 DEF Entries
<1>7. Entries(s) \subseteq Entries(s \o t)
  <2>1. \A i \in 1 .. Len(s) : i \in 1 .. Len(s) + Len(t)
    BY <1>2
  <2> QED  BY <1>2, <1>3, <2>1 DEF Entries
<1>8. Entries(t) \subseteq Entries(s \o t)
  <2>1. \A i \in 1 .. Len(t) : i + Len(s) \in 1 .. Len(s) + Len(t)
    BY <1>2
  <2> QED  BY <1>2, <1>4, <2>1 DEF Entries
<1> QED  BY <1>1, <1>6, <1>7, <1>8

LEMMA EntriesBlock ==
    ASSUME NEW what \in Seq(Slots), NEW from \in Sources
    PROVE  /\ Block(what, from) \in Seq(ScriptEntry)
           /\ Entries(Block(what, from)) = {Alloc(x, from) : x \in Entries(what)}
<1>1. \A i \in 1 .. Len(what) : Alloc(what[i], from) \in ScriptEntry
  BY DEF Alloc, ScriptEntry
<1>2. Block(what, from) \in Seq(ScriptEntry)
  BY <1>1 DEF Block
<1>3. DOMAIN what = 1 .. Len(what) /\ DOMAIN Block(what, from) = 1 .. Len(what)
  BY DEF Block
<1> QED  BY <1>2, <1>3 DEF Block, Entries

\* The order is kept when one script follows another.
LEMMA NoneAfterJoin ==
    ASSUME NEW s \in Seq(ScriptEntry), NEW t \in Seq(ScriptEntry), NEW x, NEW B,
           NoneAfter(s, x, B), NoneAfter(t, x, B),
           x \notin Entries(s) \/ Entries(t) \intersect B = {}
    PROVE  NoneAfter(s \o t, x, B)
<1> SUFFICES ASSUME NEW i \in DOMAIN (s \o t), NEW j \in DOMAIN (s \o t),
                    i < j, (s \o t)[i] = x
             PROVE  (s \o t)[j] \notin B
  BY DEF NoneAfter
<1>1. /\ DOMAIN (s \o t) = 1 .. Len(s) + Len(t)
      /\ DOMAIN s = 1 .. Len(s) /\ DOMAIN t = 1 .. Len(t)
      /\ Len(s) \in Nat /\ Len(t) \in Nat
  OBVIOUS
<1>2. i \in Nat /\ j \in Nat /\ 1 <= i /\ j <= Len(s) + Len(t)
  BY <1>1
<1>3. CASE j <= Len(s)
  <2>1. i \in 1 .. Len(s) /\ j \in 1 .. Len(s)
    BY <1>1, <1>2, <1>3
  <2>2. (s \o t)[i] = s[i] /\ (s \o t)[j] = s[j]
    BY <2>1
  <2> QED  BY <1>1, <2>1, <2>2 DEF NoneAfter
<1>4. CASE i > Len(s)
  <2> DEFINE a == i - Len(s)
             b == j - Len(s)
  <2>1. a \in 1 .. Len(t) /\ b \in 1 .. Len(t) /\ a < b
    BY <1>1, <1>2, <1>4
  <2>2. (s \o t)[i] = t[a] /\ (s \o t)[j] = t[b]
    BY <1>1, <1>2, <1>4
  <2> HIDE DEF a, b
  <2> QED  BY <1>1, <2>1, <2>2 DEF NoneAfter
<1>5. CASE i <= Len(s) /\ j > Len(s)
  <2> DEFINE b == j - Len(s)
  <2>1. i \in 1 .. Len(s) /\ b \in 1 .. Len(t)
    BY <1>1, <1>2, <1>5
  <2>2. (s \o t)[i] = s[i]
    BY <2>1
  <2>3. (s \o t)[j] = t[b]
    BY <1>1, <1>2, <1>5
  <2> HIDE DEF b
  <2>4. x \in Entries(s) /\ t[b] \in Entries(t)
    BY <1>1, <2>1, <2>2 DEF Entries
  <2> QED  BY <2>3, <2>4
<1> QED  BY <1>1, <1>2, <1>3, <1>4, <1>5

LEMMA NoneAfterTrivially ==
    ASSUME NEW s, NEW x, NEW B, x \notin Entries(s) \/ Entries(s) \intersect B = {}
    PROVE  NoneAfter(s, x, B)
BY DEF NoneAfter, Entries

\* What is left of a script when its first step has been made.
LEMMA TailOf ==
    ASSUME NEW s \in Seq(ScriptEntry), s # <<>>
    PROVE  /\ Tail(s) \in Seq(ScriptEntry) /\ Head(s) \in ScriptEntry
           /\ Entries(s) = {Head(s)} \union Entries(Tail(s))
           /\ \A x, B : NoneAfter(s, x, B)
                           => /\ NoneAfter(Tail(s), x, B)
                              /\ Head(s) = x => Entries(Tail(s)) \intersect B = {}
<1> DEFINE t == Tail(s)
<1>1. t \in Seq(ScriptEntry) /\ Head(s) \in ScriptEntry /\ Head(s) = s[1]
  OBVIOUS
<1>2. /\ Len(s) \in Nat /\ Len(s) >= 1 /\ Len(t) = Len(s) - 1
      /\ DOMAIN s = 1 .. Len(s) /\ DOMAIN t = 1 .. Len(s) - 1
  OBVIOUS
<1>3. \A i \in 1 .. Len(s) - 1 : t[i] = s[i + 1] /\ i + 1 \in 1 .. Len(s)
  BY <1>2
<1> HIDE DEF t
<1>4. Entries(t) \subseteq Entries(s)
  BY <1>2, <1>3 DEF Entries
<1>5. ASSUME NEW i \in 1 .. Len(s) PROVE s[i] \in {Head(s)} \union Entries(t)
  <2>1. CASE i = 1
    BY <1>1, <2>1
  <2>2. CASE i > 1
    <3>1. i - 1 \in 1 .. Len(s) - 1 /\ (i - 1) + 1 = i
      BY <1>2, <2>2
    <3> QED  BY <1>2, <1>3, <3>1 DEF Entries
  <2> QED  BY <1>2, <2>1, <2>2
<1>6. Head(s) \in Entries(s)
  BY <1>1, <1>2 DEF Entries
<1>7. Entries(s) = {Head(s)} \union Entries(t)
  <2>1. Entries(s) \subseteq {Head(s)} \union Entries(t)
    BY <1>2, <1>5 DEF Entries
  <2> QED  BY <1>4, <1>6, <2>1
<1>8. ASSUME NEW x, NEW B, NoneAfter(s, x, B)
      PROVE  NoneAfter(t, x, B)
  <2>1. \A i, j \in 1 .. Len(s) - 1 : i < j => i + 1 < j + 1
    BY <1>2
  <2> QED  BY <1>2, <1>3, <1>8, <2>1 DEF NoneAfter
<1>9. ASSUME NEW x, NEW B, NoneAfter(s, x, B), Head(s) = x
      PROVE  Entries(t) \intersect B = {}
  <2>1. \A j \in 1 .. Len(s) - 1 : 1 < j + 1 /\ 1 \in 1 .. Len(s)
    BY <1>2
  <2> QED  BY <1>1, <1>2, <1>3, <1>9, <2>1 DEF NoneAfter, Entries
<1> QED  BY <1>1, <1>7, <1>8, <1>9 DEF t

\* The names in a list.
LEMMA Named1 == ASSUME NEW a PROVE Entries(<<a>>) = {a}
BY DEF Entries

LEMMA Named2 == ASSUME NEW a, NEW b PROVE Entries(<<a, b>>) = {a, b}
<1>1. DOMAIN <<a, b>> = {1, 2}
  OBVIOUS
<1> QED  BY <1>1 DEF Entries

LEMMA Named3 == ASSUME NEW a, NEW b, NEW c PROVE Entries(<<a, b, c>>) = {a, b, c}
<1>1. DOMAIN <<a, b, c>> = {1, 2, 3}
  OBVIOUS
<1> QED  BY <1>1 DEF Entries

LEMMA Named4 ==
    ASSUME NEW a, NEW b, NEW c, NEW d
    PROVE  Entries(<<a, b, c, d>>) = {a, b, c, d}
<1>1. DOMAIN <<a, b, c, d>> = {1, 2, 3, 4}
  OBVIOUS
<1> QED  BY <1>1 DEF Entries

LEMMA Named6 ==
    ASSUME NEW a, NEW b, NEW c, NEW d, NEW e, NEW f
    PROVE  Entries(<<a, b, c, d, e, f>>) = {a, b, c, d, e, f}
<1>1. DOMAIN <<a, b, c, d, e, f>> = {1, 2, 3, 4, 5, 6}
  OBVIOUS
<1> QED  BY <1>1 DEF Entries

\* esp_websocket_client_set_uri
LEMMA SetUriEntries ==
    /\ SetUriScript \in Seq(ScriptEntry) /\ Entries(SetUriScript) = UriSteps
    /\ \A x \in TextSteps : NoneAfter(SetUriScript, x, {Alloc(x.what, "uri")})
<1> DEFINE w == <<"scheme", "host", "path", "user_info", "password", "username">>
           v == <<"user_info">>
<1>1. w \in Seq(Slots) /\ v \in Seq(Slots)
  BY DEF Slots, Parts, Fields
<1>2. Entries(w) = {"scheme", "host", "path", "user_info", "password", "username"}
  BY Named6
<1>3. Entries(v) = {"user_info"}
  BY Named1
<1> DEFINE W == Block(w, "uri")
           V == Block(v, "free")
<1>8. DOMAIN W = 1 .. 6 /\ \A i, j \in 1 .. 6 : i < j => W[i] # W[j]
  <2>1. DOMAIN w = 1 .. 6 /\ \A i, j \in 1 .. 6 : i < j => w[i] # w[j]
    OBVIOUS
  <2>2. Len(w) = 6
    OBVIOUS
  <2> HIDE DEF w
  <2>3. DOMAIN W = 1 .. 6 /\ \A i \in 1 .. 6 : W[i] = Alloc(w[i], "uri")
    BY <2>2 DEF Block
  <2> QED  BY <2>1, <2>3 DEF Alloc
<1> HIDE DEF w, v
<1>4. /\ Block(w, "uri") \in Seq(ScriptEntry)
      /\ Entries(Block(w, "uri")) = {Alloc(x, "uri") : x \in Entries(w)}
  BY <1>1, EntriesBlock DEF Sources
<1>5. /\ Block(v, "free") \in Seq(ScriptEntry)
      /\ Entries(Block(v, "free")) = {Alloc(x, "free") : x \in Entries(v)}
  BY <1>1, EntriesBlock DEF Sources
<1>6. SetUriScript = Block(w, "uri") \o Block(v, "free")
  BY DEF SetUriScript, w, v
<1>7. /\ SetUriScript \in Seq(ScriptEntry)
      /\ Entries(SetUriScript) = {Alloc(x, "uri") : x \in Entries(w)}
                                   \union {Alloc(x, "free") : x \in Entries(v)}
  BY <1>4, <1>5, <1>6, EntriesJoin
<1>9. ASSUME NEW x \in TextSteps
      PROVE  NoneAfter(SetUriScript, x, {Alloc(x.what, "uri")})
  <2>1. Entries(V) = {Alloc("user_info", "free")}
    BY <1>3, <1>5
  <2>2. x \notin Entries(V) /\ Alloc(x.what, "uri") \notin Entries(V)
    BY <2>1 DEF TextSteps, Host, Alloc
  <2>3. NoneAfter(V, x, {Alloc(x.what, "uri")})
    BY <2>2, NoneAfterTrivially
  <2>4. NoneAfter(W, x, {Alloc(x.what, "uri")})
    <3>1. CASE x = Alloc(x.what, "uri")
      BY <1>8, <3>1 DEF NoneAfter
    <3>2. CASE x # Alloc(x.what, "uri")
      <4>1. x.from # "uri"
        BY <3>2 DEF TextSteps, Host, Alloc
      <4>2. \A y \in Entries(W) : y.from = "uri"
        BY <1>4 DEF Alloc
      <4> QED  BY <4>1, <4>2, NoneAfterTrivially
    <3> QED  BY <3>1, <3>2
  <2> HIDE DEF W, V
  <2> QED  BY <1>4, <1>5, <1>6, <2>2, <2>3, <2>4, NoneAfterJoin DEF W, V
<1>10. Entries(SetUriScript) = UriSteps
  BY <1>2, <1>3, <1>7 DEF UriSteps
<1> QED  BY <1>7, <1>9, <1>10

\* esp_websocket_client_create_transport
LEMMA TransportEntries ==
    TransportScript \in Seq(ScriptEntry) /\ Entries(TransportScript) \subseteq TransportSteps
<1> DEFINE w == <<"ws", "parent", "transport_list">>
           v == <<"transport_list", "parent", "ws">>
<1>1. w \in Seq(Slots) /\ v \in Seq(Slots)
  BY DEF Slots, Parts, Fields
<1>2. /\ Entries(w) = {"ws", "parent", "transport_list"}
      /\ Entries(v) = {"ws", "parent", "transport_list"}
  BY Named3
<1> HIDE DEF w, v
<1>3. /\ Block(w, "free") \in Seq(ScriptEntry)
      /\ Entries(Block(w, "free")) = {Alloc(x, "free") : x \in Entries(w)}
  BY <1>1, EntriesBlock DEF Sources
<1>4. /\ Block(v, "default") \in Seq(ScriptEntry)
      /\ Entries(Block(v, "default")) = {Alloc(x, "default") : x \in Entries(v)}
  BY <1>1, EntriesBlock DEF Sources
<1>5. TransportScript = Block(w, "free") \o Block(v, "default")
  BY DEF TransportScript, w, v
<1>6. /\ TransportScript \in Seq(ScriptEntry)
      /\ Entries(TransportScript) = {Alloc(x, "free") : x \in Entries(w)}
                                   \union {Alloc(x, "default") : x \in Entries(v)}
  BY <1>3, <1>4, <1>5, EntriesJoin
<1> QED  BY <1>2, <1>6 DEF TransportSteps

\* esp_websocket_client_set_config: no credential is set after the
\* authorisation has been made, and the host is set once.
LEMMA SetConfigEntries ==
    /\ SetConfigScript \in Seq(ScriptEntry)
    /\ Entries(SetConfigScript) =
         {Auth} \union {Alloc(x, "config") : x \in {"host", "username", "password",
                                                    "uri", "path", "headers"}}
    /\ NoneAfter(SetConfigScript, Auth, Creds)
    /\ NoneAfter(SetConfigScript, Host, {Host})
<1> DEFINE u == <<"host", "username", "password">>
           v == <<"auth">>
           w == <<"uri", "path", "headers">>
           U == Block(u, "config")
           V == Block(v, "derived")
           W == Block(w, "config")
<1>1. u \in Seq(Slots) /\ v \in Seq(Slots) /\ w \in Seq(Slots)
  BY DEF Slots, Parts, Fields
<1>2. /\ Entries(u) = {"host", "username", "password"}
      /\ Entries(v) = {"auth"}
      /\ Entries(w) = {"uri", "path", "headers"}
  BY Named1, Named3
<1>3. NoneAfter(U, Host, {Host})
  <2>1. DOMAIN U = 1 .. 3 /\ U[2] = Alloc("username", "config")
                          /\ U[3] = Alloc("password", "config")
    BY DEF Block
  <2>2. \A i, j \in 1 .. 3 : i < j => j = 2 \/ j = 3
    OBVIOUS
  <2>3. U[2] # Host /\ U[3] # Host
    BY <2>1 DEF Host, Alloc
  <2> HIDE DEF U
  <2> QED  BY <2>1, <2>2, <2>3 DEF NoneAfter
<1> HIDE DEF u, v, w
<1>4. /\ U \in Seq(ScriptEntry) /\ V \in Seq(ScriptEntry) /\ W \in Seq(ScriptEntry)
      /\ Entries(U) = {Alloc(x, "config") : x \in Entries(u)}
      /\ Entries(V) = {Alloc(x, "derived") : x \in Entries(v)}
      /\ Entries(W) = {Alloc(x, "config") : x \in Entries(w)}
  BY <1>1, EntriesBlock DEF Sources
<1>5. SetConfigScript = (U \o V) \o W
  BY DEF SetConfigScript, u, v, w
<1> HIDE DEF U, V, W
<1>6. /\ U \o V \in Seq(ScriptEntry)
      /\ Entries(U \o V) = Entries(U) \union Entries(V)
  BY <1>4, EntriesJoin
<1>7. /\ SetConfigScript \in Seq(ScriptEntry)
      /\ Entries(SetConfigScript) = Entries(U) \union Entries(V) \union Entries(W)
  BY <1>4, <1>5, <1>6, EntriesJoin
<1>8. /\ Entries(U) = {Alloc("host", "config"), Alloc("username", "config"),
                       Alloc("password", "config")}
      /\ Entries(V) = {Auth}
      /\ Entries(W) = {Alloc("uri", "config"), Alloc("path", "config"),
                       Alloc("headers", "config")}
  BY <1>2, <1>4 DEF Auth
<1>9. /\ Auth \notin Entries(U) /\ Entries(V) \intersect Creds = {}
      /\ Entries(W) \intersect Creds = {}
      /\ Host \notin Entries(V) /\ Host \notin Entries(W)
  BY <1>8 DEF Auth, Host, Creds, Alloc
<1>10. NoneAfter(SetConfigScript, Auth, Creds)
  BY <1>4, <1>5, <1>6, <1>9, NoneAfterJoin, NoneAfterTrivially
<1>11. NoneAfter(SetConfigScript, Host, {Host})
  <2>1. NoneAfter(U \o V, Host, {Host})
    BY <1>3, <1>4, <1>9, NoneAfterJoin, NoneAfterTrivially
  <2> QED  BY <1>4, <1>5, <1>6, <1>9, <2>1, NoneAfterJoin, NoneAfterTrivially
<1>12. Entries(U) \union Entries(V) \union Entries(W) =
         {Auth} \union {Alloc(x, "config") : x \in {"host", "username", "password",
                                                    "uri", "path", "headers"}}
  BY <1>8
<1> QED  BY <1>7, <1>10, <1>11, <1>12

\* esp_websocket_client_init
LEMMA InitEntries ==
    ASSUME NEW g
    PROVE  LET s == InitScript(g)
           IN  /\ s \in Seq(ScriptEntry)
               /\ Entries(s) \subseteq UriSteps \union ConfigSteps
                                         \union DefaultSteps \union {Auth}
               /\ DefaultSteps \subseteq Entries(s)
               /\ Auth \in Entries(s)
               /\ Entries(s) \intersect UriSteps # {} => "uri" \in g
               /\ NoneAfter(s, Auth, Creds)
               /\ NoneAfter(s, Host, {Host})
               /\ \A x \in TextSteps : NoneAfter(s, x, {Alloc(x.what, "uri")})
<1> DEFINE a == <<"client", "event_handle">>
           b == <<"if_name">>
           c == <<"lock", "config">>
           d == <<"scheme">>
           e == <<"scheme", "rx_buffer", "tx_buffer", "status_bits">>
           A == Block(a, "default")
           B == Block(b, "config")
           C == Block(c, "default")
           D == Block(d, "config")
           E == Block(e, "default")
           U == IF "uri" \in g THEN SetUriScript ELSE <<>>
<1>1. /\ a \in Seq(Slots) /\ b \in Seq(Slots) /\ c \in Seq(Slots)
      /\ d \in Seq(Slots) /\ e \in Seq(Slots)
  BY DEF Slots, Parts, Fields
<1>2. /\ Entries(a) = {"client", "event_handle"} /\ Entries(b) = {"if_name"}
      /\ Entries(c) = {"lock", "config"} /\ Entries(d) = {"scheme"}
      /\ Entries(e) = {"scheme", "rx_buffer", "tx_buffer", "status_bits"}
  BY Named1, Named2, Named4
<1> HIDE DEF a, b, c, d, e
<1>3. /\ A \in Seq(ScriptEntry) /\ Entries(A) = {Alloc(x, "default") : x \in Entries(a)}
      /\ C \in Seq(ScriptEntry) /\ Entries(C) = {Alloc(x, "default") : x \in Entries(c)}
      /\ E \in Seq(ScriptEntry) /\ Entries(E) = {Alloc(x, "default") : x \in Entries(e)}
  BY <1>1, EntriesBlock DEF Sources
<1>4. /\ B \in Seq(ScriptEntry) /\ Entries(B) = {Alloc(x, "config") : x \in Entries(b)}
      /\ D \in Seq(ScriptEntry) /\ Entries(D) = {Alloc(x, "config") : x \in Entries(d)}
  BY <1>1, EntriesBlock DEF Sources
<1>5. /\ U \in Seq(ScriptEntry) /\ Entries(U) = IF "uri" \in g THEN UriSteps ELSE {}
      /\ \A x \in TextSteps : NoneAfter(U, x, {Alloc(x.what, "uri")})
  <2>1. <<>> \in Seq(ScriptEntry)
    OBVIOUS
  <2>2. Entries(<<>>) = {}
    BY DEF Entries
  <2>3. \A x \in TextSteps : NoneAfter(<<>>, x, {Alloc(x.what, "uri")})
    BY <2>2, NoneAfterTrivially
  <2> QED  BY <2>1, <2>2, <2>3, SetUriEntries
<1>6. InitScript(g) = A \o B \o C \o D \o U \o SetConfigScript \o E
  BY DEF InitScript, LastBlocks, a, b, c, d, e
<1> HIDE DEF A, B, C, D, E, U
<1>7. /\ A \o B \in Seq(ScriptEntry) /\ Entries(A \o B) = Entries(A) \union Entries(B)
  BY <1>3, <1>4, EntriesJoin
<1>8. /\ A \o B \o C \in Seq(ScriptEntry)
      /\ Entries(A \o B \o C) = Entries(A) \union Entries(B) \union Entries(C)
  BY <1>3, <1>7, EntriesJoin
<1>9. /\ A \o B \o C \o D \in Seq(ScriptEntry)
      /\ Entries(A \o B \o C \o D)
           = Entries(A) \union Entries(B) \union Entries(C) \union Entries(D)
  BY <1>4, <1>8, EntriesJoin
<1> DEFINE P == A \o B \o C \o D \o U
           Q == P \o SetConfigScript
<1>10. /\ P \in Seq(ScriptEntry)
       /\ Entries(P) = Entries(A) \union Entries(B) \union Entries(C)
                         \union Entries(D) \union Entries(U)
  BY <1>5, <1>9, EntriesJoin
<1>11. InitScript(g) = Q \o E
  BY <1>6
<1>30. ASSUME NEW x \in TextSteps PROVE NoneAfter(P, x, {Alloc(x.what, "uri")})
  <2> DEFINE R == A \o B \o C \o D
  <2>1. Entries(R) = {Alloc("client", "default"), Alloc("event_handle", "default"),
                      Alloc("if_name", "config"), Alloc("lock", "default"),
                      Alloc("config", "default"), Alloc("scheme", "config")}
    BY <1>2, <1>3, <1>4, <1>9
  <2>2. x \notin Entries(R)
    BY <2>1 DEF TextSteps, Host, Alloc
  <2>3. R \in Seq(ScriptEntry) /\ P = R \o U
    BY <1>9
  <2> HIDE DEF R, P
  <2>4. NoneAfter(R, x, {Alloc(x.what, "uri")})
    BY <2>2, NoneAfterTrivially
  <2> QED  BY <1>5, <2>2, <2>3, <2>4, NoneAfterJoin
<1> HIDE DEF P
<1>12. Q \in Seq(ScriptEntry) /\ Entries(Q) = Entries(P) \union Entries(SetConfigScript)
  BY <1>10, SetConfigEntries, EntriesJoin
<1>13. /\ Entries(P) = {Alloc("client", "default"), Alloc("event_handle", "default"),
                        Alloc("if_name", "config"), Alloc("lock", "default"),
                        Alloc("config", "default"), Alloc("scheme", "config")}
                         \union Entries(U)
       /\ Entries(E) = {Alloc("scheme", "default"), Alloc("rx_buffer", "default"),
                        Alloc("tx_buffer", "default"),
                        Alloc("status_bits", "default")}
  BY <1>2, <1>3, <1>4, <1>10
<1>14. Entries(U) \subseteq UriSteps
  BY <1>5
<1>15. Auth \notin UriSteps /\ Host \notin UriSteps
  BY DEF Auth, Host, UriSteps, Alloc
<1>16. Auth \notin Entries(P) /\ Host \notin Entries(P)
  BY <1>13, <1>14, <1>15 DEF Auth, Host, Alloc
<1>17. Entries(E) \intersect Creds = {} /\ Entries(E) \intersect {Host} = {}
  BY <1>13 DEF Creds, Host, Alloc
<1>18. Auth \notin Entries(E) /\ Host \notin Entries(E)
  BY <1>13 DEF Auth, Host, Alloc
<1>19. NoneAfter(Q, Auth, Creds) /\ NoneAfter(Q, Host, {Host})
  BY <1>10, <1>16, SetConfigEntries, NoneAfterJoin, NoneAfterTrivially
<1>31. ASSUME NEW x \in TextSteps
       PROVE  Alloc(x.what, "uri") \notin Entries(SetConfigScript) \union Entries(E)
  BY <1>13, SetConfigEntries DEF Alloc, Auth
<1>32. ASSUME NEW x \in TextSteps
       PROVE  NoneAfter(InitScript(g), x, {Alloc(x.what, "uri")})
  <2>1. NoneAfter(Q, x, {Alloc(x.what, "uri")})
    BY <1>10, <1>30, <1>31, SetConfigEntries, NoneAfterJoin, NoneAfterTrivially
  <2>2. Entries(E) \intersect {Alloc(x.what, "uri")} = {}
    BY <1>31
  <2>3. NoneAfter(E, x, {Alloc(x.what, "uri")})
    BY <2>2, NoneAfterTrivially
  <2>4. Q \in Seq(ScriptEntry)
    BY <1>12
  <2> HIDE DEF Q
  <2>5. NoneAfter(Q \o E, x, {Alloc(x.what, "uri")})
    BY <1>3, <2>1, <2>2, <2>3, <2>4, NoneAfterJoin
  <2> QED  BY <1>11, <2>5
<1> DEFINE s == InitScript(g)
<1> HIDE DEF Q
<1>20. s \in Seq(ScriptEntry) /\ Entries(s) = Entries(Q) \union Entries(E)
  BY <1>3, <1>11, <1>12, EntriesJoin
<1>21. NoneAfter(s, Auth, Creds) /\ NoneAfter(s, Host, {Host})
  BY <1>3, <1>11, <1>12, <1>17, <1>18, <1>19, NoneAfterJoin, NoneAfterTrivially
<1>22. Entries(s) = Entries(P) \union Entries(SetConfigScript) \union Entries(E)
  BY <1>12, <1>20
<1>23. Entries(P) \subseteq UriSteps \union ConfigSteps \union DefaultSteps
  BY <1>13, <1>14 DEF ConfigSteps, DefaultSteps, Core
<1>24. Entries(SetConfigScript) \subseteq ConfigSteps \union {Auth}
  BY SetConfigEntries DEF ConfigSteps
<1>25. Entries(E) \subseteq DefaultSteps
  BY <1>13 DEF DefaultSteps, Core
<1>26. DefaultSteps \subseteq Entries(P) \union Entries(E)
  BY <1>13 DEF DefaultSteps, Core
<1>27. Auth \in Entries(s)
  BY <1>22, SetConfigEntries
<1>28. Entries(s) \intersect UriSteps # {} => "uri" \in g
  <2>1. \A x \in UriSteps : x.from = "uri" \/ x.from = "free"
    BY DEF UriSteps, Alloc
  <2>2. \A x \in ConfigSteps \union DefaultSteps \union {Auth} :
            x.from # "uri" /\ x.from # "free"
    BY DEF ConfigSteps, DefaultSteps, Auth, Alloc
  <2>3. "uri" \notin g => Entries(P) \subseteq ConfigSteps \union DefaultSteps
    BY <1>5, <1>13 DEF ConfigSteps, DefaultSteps, Core
  <2> QED  BY <1>22, <1>24, <1>25, <2>1, <2>2, <2>3
<1> HIDE DEF s
<1>29. /\ Entries(s) \subseteq UriSteps \union ConfigSteps
                                 \union DefaultSteps \union {Auth}
       /\ DefaultSteps \subseteq Entries(s)
  BY <1>22, <1>23, <1>24, <1>25, <1>26
<1> QED  BY <1>20, <1>21, <1>27, <1>28, <1>29, <1>32 DEF s
-----------------------------------------------------------------------------
(* The steps.                                                              *)

LEMMA SetupInitial == SetupInit => SetupInv
<1> SUFFICES ASSUME SetupInit PROVE SetupInv
  OBVIOUS
<1> USE SetupAssumption
<1>1. given \in SUBSET Fields /\ parts \in SUBSET Parts
  BY DEF SetupInit
<1>2. /\ call = "init" /\ script = InitScript(given) /\ leaked = {} /\ misused = {}
      /\ slot = [x \in Slots |-> "none"] /\ authOf = <<"none", "none">>
  BY DEF SetupInit
<1>3. script \in Seq(ScriptEntry)
  BY <1>2, InitEntries
<1>4. {"host", "username", "password"} \subseteq Slots
  BY DEF Slots, Parts, Fields
<1>5. SetupTypeOK
  BY <1>1, <1>2, <1>3 DEF SetupTypeOK, ScriptEntry, Sources
<1>6. ScriptInv
  BY <1>2, InitEntries DEF ScriptInv, InitOrder
<1>7. CompleteInv
  <2>1. DefaultSteps \subseteq Entries(script)
    BY <1>2, InitEntries
  <2> QED  BY <1>2, <2>1 DEF CompleteInv, DefaultSteps
<1>8. LeakInv
  BY <1>2, <1>4 DEF LeakInv, KnownLeaks
<1>9. AuthInv
  BY <1>2, <1>4, InitEntries DEF AuthInv
<1>10. DangleInv
  <2>1. {"scheme", "host", "path"} \subseteq Slots
    BY DEF Slots, Parts, Fields
  <2> QED  BY <1>2, <2>1 DEF DangleInv, Dangling, KnownMisuse
<1> QED  BY <1>5, <1>6, <1>7, <1>8, <1>9, <1>10 DEF SetupInv

\* Which step of which call it may be.
LEMMA NowIs ==
    ASSUME SetupInv, Busy
    PROVE  /\ call \in {"init", "set_uri", "start"}
           /\ Now \in ScriptEntry /\ Now \in Entries(script)
           /\ Now.from = "free" =>
                Now.what \in {"user_info", "ws", "parent", "transport_list"}
           /\ Now.from = "config" => call = "init"
           /\ Now.from = "derived" => Now = Auth /\ call = "init"
           /\ Now.what = "auth" => Now = Auth
           /\ Now.what = "host" => Now \in {Host, Alloc("host", "uri")}
           /\ Now.what \in {"username", "password"} => Now \in Creds
           /\ Now.what \in {"scheme", "host", "path"} =>
                Now \in TextSteps \union {Alloc("scheme", "config")}
           /\ Now.from = "uri" /\ call = "init" => "uri" \in given
           /\ call # "init" => Now.what \notin Core
<1>1. script \in Seq(ScriptEntry) /\ script # <<>>
  BY DEF SetupInv, SetupTypeOK, Busy, ScriptEntry, Sources
<1>2. Now \in ScriptEntry /\ Now \in Entries(script)
  BY <1>1, TailOf DEF Now
<1>3. call \in {"init", "set_uri", "start"}
  BY <1>1 DEF SetupInv, ScriptInv
<1>4. Now \in UriSteps \union ConfigSteps \union DefaultSteps
                       \union TransportSteps \union {Auth}
  BY <1>2, <1>3 DEF SetupInv, ScriptInv, InitOrder
<1>5. \A x \in UriSteps : /\ x.from \in {"uri", "free"}
                          /\ x.from = "free" => x.what = "user_info"
                          /\ x.from = "uri" =>
                               x.what \in {"scheme", "host", "path", "user_info",
                                           "password", "username"}
  BY DEF UriSteps, Alloc
<1>6. \A x \in ConfigSteps : x.from = "config" /\ x.what # "auth"
  BY DEF ConfigSteps, Alloc
<1>7. \A x \in DefaultSteps : x.from = "default" /\ x.what \in Core \union {"scheme"}
  BY DEF DefaultSteps, Alloc
<1>8. \A x \in TransportSteps : /\ x.from \in {"free", "default"}
                                /\ x.what \in {"ws", "parent", "transport_list"}
  BY DEF TransportSteps, Alloc
<1>9. Auth.what = "auth" /\ Auth.from = "derived"
  BY DEF Auth, Alloc
<1>10. \A x \in ScriptEntry : x = Alloc(x.what, x.from)
  BY DEF ScriptEntry, Alloc
<1>11. Now.from = "free" =>
         Now.what \in {"user_info", "ws", "parent", "transport_list"}
  BY <1>4, <1>5, <1>6, <1>7, <1>8, <1>9
<1>12. Now.from = "config" => call = "init"
  BY <1>2, <1>3, <1>5, <1>8 DEF SetupInv, ScriptInv
<1>13. Now.from = "derived" => Now = Auth /\ call = "init"
  <2>1. Now.from = "derived" => Now = Auth
    BY <1>4, <1>5, <1>6, <1>7, <1>8
  <2>2. Now.from = "derived" => call = "init"
    BY <1>2, <1>3, <1>5, <1>8 DEF SetupInv, ScriptInv
  <2> QED  BY <2>1, <2>2
<1>14. Now.what = "auth" => Now = Auth
  BY <1>4, <1>5, <1>6, <1>7, <1>8 DEF Core
<1>15. Now.what = "host" => Now \in {Host, Alloc("host", "uri")}
  <2>1. Now.what = "host" => Now.from \in {"config", "uri"}
    BY <1>4, <1>5, <1>6, <1>7, <1>8, <1>9 DEF Core
  <2> QED  BY <1>2, <1>10, <2>1 DEF Host
<1>16. Now.what \in {"username", "password"} => Now \in Creds
  <2>1. Now.what \in {"username", "password"} => Now.from \in {"config", "uri"}
    BY <1>4, <1>5, <1>6, <1>7, <1>8, <1>9 DEF Core
  <2> QED  BY <1>2, <1>10, <2>1 DEF Creds
<1>17. Now.from = "uri" /\ call = "init" => "uri" \in given
  <2>1. Now.from = "uri" => Now \in UriSteps
    BY <1>4, <1>6, <1>7, <1>8, <1>9
  <2> QED  BY <1>2, <2>1 DEF SetupInv, ScriptInv, InitOrder
<1>18. call # "init" => Now.what \notin Core
  <2>1. call # "init" => Now \in UriSteps \union TransportSteps
    BY <1>2, <1>3 DEF SetupInv, ScriptInv
  <2> QED  BY <1>5, <1>8, <2>1 DEF Core
<1>19. Now.what \in {"scheme", "host", "path"} =>
         Now \in TextSteps \union {Alloc("scheme", "config")}
  <2>1. Now.what \in {"host", "path"} => Now.from \in {"config", "uri"}
    BY <1>4, <1>5, <1>6, <1>7, <1>8, <1>9 DEF Core
  <2>2. Now.what = "scheme" => Now.from \in {"config", "uri", "default"}
    BY <1>4, <1>5, <1>6, <1>7, <1>8, <1>9
  <2> QED  BY <1>2, <1>10, <2>1, <2>2 DEF TextSteps, Host
<1> QED
  BY <1>2, <1>3, <1>11, <1>12, <1>13, <1>14, <1>15, <1>16, <1>17, <1>18, <1>19

\* A call goes one step further.
LEMMA Advance ==
    ASSUME SetupInv, Busy, Rest, UNCHANGED <<given, call>>
    PROVE  /\ script' \in Seq(ScriptEntry) /\ ScriptInv'
           /\ Entries(script) = {Now} \union Entries(script')
           /\ call = "init" /\ Now = Auth => Entries(script') \intersect Creds = {}
           /\ call = "init" /\ Now = Host => Host \notin Entries(script')
           /\ call = "init" /\ Now \in TextSteps
                => Alloc(Now.what, "uri") \notin Entries(script')
<1>1. script \in Seq(ScriptEntry) /\ script # <<>>
  BY DEF SetupInv, SetupTypeOK, Busy, ScriptEntry, Sources
<1>2. /\ script' \in Seq(ScriptEntry)
      /\ Entries(script) = {Now} \union Entries(script')
      /\ \A x, B : NoneAfter(script, x, B)
                      => /\ NoneAfter(script', x, B)
                         /\ Now = x => Entries(script') \intersect B = {}
  BY <1>1, TailOf DEF Rest, Now
<1>3. ASSUME call = "init"
      PROVE  /\ InitOrder'
             /\ Now = Auth => Entries(script') \intersect Creds = {}
             /\ Now = Host => Host \notin Entries(script')
             /\ Now \in TextSteps => Alloc(Now.what, "uri") \notin Entries(script')
  <2>1. InitOrder
    BY <1>3 DEF SetupInv, ScriptInv
  <2>2. Now = Auth => Entries(script') \intersect Creds = {}
    BY <1>2, <2>1 DEF InitOrder
  <2>3. Now = Host => Host \notin Entries(script')
    BY <1>2, <2>1 DEF InitOrder
  <2>4. /\ Entries(script') \subseteq UriSteps \union ConfigSteps
                                        \union DefaultSteps \union {Auth}
        /\ Entries(script') \intersect UriSteps # {} => "uri" \in given
    BY <1>2, <2>1 DEF InitOrder
  <2>5. /\ NoneAfter(script', Auth, Creds)
        /\ NoneAfter(script', Host, {Host})
        /\ \A x \in TextSteps : NoneAfter(script', x, {Alloc(x.what, "uri")})
    BY <1>2, <2>1 DEF InitOrder
  <2>8. Now \in TextSteps => Alloc(Now.what, "uri") \notin Entries(script')
    BY <1>2, <2>1 DEF InitOrder
  <2>6. Entries(script') \intersect Creds # {} => Auth \in Entries(script')
    BY <1>2, <2>1, <2>2 DEF InitOrder
  <2>7. InitOrder'
    BY <2>4, <2>5, <2>6 DEF InitOrder
  <2> QED  BY <2>2, <2>3, <2>7, <2>8
<1>4. call \in {"init", "set_uri", "start"}
  BY NowIs
<1>5. /\ call = "set_uri" => Entries(script') \subseteq UriSteps
      /\ call = "start" => Entries(script') \subseteq TransportSteps
  BY <1>2 DEF SetupInv, ScriptInv
<1>6. ScriptInv'
  BY <1>3, <1>4, <1>5 DEF ScriptInv
<1> QED  BY <1>2, <1>3, <1>6

\* When an allocation is made, and when it loses something.
LEMMA WhenWanted ==
    ASSUME NEW a \in ScriptEntry
    PROVE  /\ a.from = "default" => (Wanted(a) <=> slot[a.what] = "none")
           /\ a = Host /\ Wanted(a) => "host" \in given
           /\ a = Alloc("scheme", "config") /\ Wanted(a) => "transport" \in given
           /\ a = Alloc("scheme", "uri") /\ Wanted(a) => "scheme" \in parts
           /\ a = Auth => (Wanted(a) <=> /\ slot["username"] # "none"
                                         /\ slot["password"] # "none")
<1>1. a.from = "default" => (Wanted(a) <=> slot[a.what] = "none")
  BY DEF Wanted
<1>2. a = Host /\ Wanted(a) => "host" \in given
  BY DEF Wanted, Host, Alloc
<1>3. a = Auth => (Wanted(a) <=> /\ slot["username"] # "none"
                                 /\ slot["password"] # "none")
  BY DEF Wanted, Auth, Alloc
<1>4. a = Alloc("scheme", "config") /\ Wanted(a) => "transport" \in given
  BY DEF Wanted, Alloc
<1>5. a = Alloc("scheme", "uri") /\ Wanted(a) => "scheme" \in parts
  BY DEF Wanted, Alloc
<1> QED  BY <1>1, <1>2, <1>3, <1>4, <1>5

\* Only what dangles is freed again.
LEMMA FreedDangled == ASSUME NEW a PROVE FreedAgain(a) \subseteq Dangling
BY DEF FreedAgain

\* What is used after it is freed is what dangles: that is known.
LEMMA Misused ==
    ASSUME SetupInv, misused' \subseteq misused \union Dangling,
           UNCHANGED <<given, parts>>, call = "init" \/ call' # "init",
           call' = "refused" => call = "init"
    PROVE  KnownMisuse' /\ misused' \subseteq Slots
<1>1. KnownMisuse /\ misused \subseteq Slots /\ Dangling \subseteq Slots
  BY DEF SetupInv, DangleInv, SetupTypeOK, Dangling
<1>2. SchemeMadeTwice' = SchemeMadeTwice
  BY DEF SchemeMadeTwice
<1>3. Dangling \subseteq {"scheme", "host", "path"}
  BY DEF SetupInv, DangleInv
<1>4. call = "init" => /\ Dangling \subseteq {"scheme"}
                       /\ Dangling # {} => SchemeMadeTwice
  BY DEF SetupInv, DangleInv
<1> QED  BY <1>1, <1>2, <1>3, <1>4 DEF KnownMisuse

\* What an allocation loses is the URI's host, to the configuration's.
LEMMA LostIsHost ==
    ASSUME SetupInv, Busy, Wanted(Now), Now.from # "free"
    PROVE  /\ LostBy(Now) \subseteq {"host"}
           /\ LostBy(Now) # {} => {"uri", "host"} \subseteq given
<1> SUFFICES ASSUME LostBy(Now) # {}
             PROVE  LostBy(Now) = {"host"} /\ {"uri", "host"} \subseteq given
  OBVIOUS
<1>1. slot[Now.what] # "none" /\ ~FreedFirst(Now) /\ LostBy(Now) = {Now.what}
  BY DEF LostBy
<1>2. Now \in ScriptEntry /\ Now \in Entries(script) /\ (Now.from = "config" => call = "init")
  BY NowIs
<1>3. Now.from = "config" /\ Now.what = "host"
  <2>1. Now.from \in {"default", "config"}
    BY <1>1, <1>2 DEF FreedFirst, ScriptEntry, Sources
  <2>2. Now.from # "default"
    BY <1>1, <1>2, WhenWanted
  <2> QED  BY <1>1, <2>1, <2>2 DEF FreedFirst
<1>4. Now = Host
  BY <1>2, <1>3 DEF ScriptEntry, Host, Alloc
<1>5. "host" \in given
  BY <1>2, <1>4, WhenWanted
<1>6. "uri" \in given
  BY <1>1, <1>2, <1>3, <1>4 DEF SetupInv, LeakInv
<1> QED  BY <1>1, <1>3, <1>5, <1>6

LEMMA SkipStep == ASSUME SetupInv, Skip PROVE SetupInv'
<1>1. /\ Busy /\ Rest /\ ~Wanted(Now)
      /\ UNCHANGED <<given, parts, authOf, slot, leaked, misused, call>>
  BY DEF Skip
<1>2. /\ script' \in Seq(ScriptEntry) /\ ScriptInv'
      /\ Entries(script) = {Now} \union Entries(script')
  BY <1>1, Advance
<1>3. Now \in ScriptEntry
  BY <1>1, NowIs
<1>4. SetupTypeOK'
  BY <1>1, <1>2 DEF SetupInv, SetupTypeOK, ScriptEntry, Sources
<1>5. CompleteInv'
  <2>1. ASSUME NEW x \in Core \union {"scheme"}, Now = Alloc(x, "default")
        PROVE  slot[x] # "none"
    <3>1. Now.what = x /\ Now.from = "default"
      BY <2>1 DEF Alloc
    <3> QED  BY <1>1, <1>3, <3>1, WhenWanted
  <2> QED  BY <1>1, <1>2, <2>1 DEF SetupInv, CompleteInv
<1>6. LeakInv'
  BY <1>1, <1>2 DEF SetupInv, LeakInv, KnownLeaks
<1>7. AuthInv'
  BY <1>1, <1>2, <1>3, WhenWanted DEF SetupInv, AuthInv
<1>8. DangleInv'
  BY <1>1, <1>2 DEF SetupInv, DangleInv, Dangling, SchemeMadeTwice, KnownMisuse
<1> QED  BY <1>2, <1>4, <1>5, <1>6, <1>7, <1>8 DEF SetupInv

LEMMA ReleaseStep == ASSUME SetupInv, Release PROVE SetupInv'
<1>1. /\ Busy /\ Rest /\ Now.from = "free"
      /\ slot' = [slot EXCEPT ![Now.what] = "none"]
      /\ UNCHANGED <<given, parts, authOf, leaked, misused, call>>
  BY DEF Release
<1>2. /\ script' \in Seq(ScriptEntry) /\ ScriptInv'
      /\ Entries(script) = {Now} \union Entries(script')
  BY <1>1, Advance
<1>3. Now.what \in {"user_info", "ws", "parent", "transport_list"}
  BY <1>1, NowIs
<1>4. slot \in [Slots -> {"none", "uri", "config", "default", "derived", "dangling"}]
  BY DEF SetupInv, SetupTypeOK
<1>5. SetupTypeOK'
  BY <1>1, <1>2 DEF SetupInv, SetupTypeOK, ScriptEntry, Sources
<1>6. \A x \in Slots : x \notin {"user_info", "ws", "parent", "transport_list"}
                          => slot'[x] = slot[x]
  BY <1>1, <1>3, <1>4
<1>7. /\ Core \union {"scheme", "host", "path", "username", "password", "auth"}
           \subseteq Slots
      /\ \A x \in Core \union {"scheme", "host", "path", "username", "password", "auth"} :
            slot'[x] = slot[x]
  BY <1>6 DEF Core, Slots, Parts, Fields
<1>8. Now # Auth /\ \A x : Now # Alloc(x, "default")
  BY <1>1 DEF Auth, Alloc
<1>9. CompleteInv'
  BY <1>1, <1>2, <1>7, <1>8 DEF SetupInv, CompleteInv
<1>10. LeakInv'
  BY <1>1, <1>2, <1>7 DEF SetupInv, LeakInv, KnownLeaks
<1>11. AuthInv'
  BY <1>1, <1>2, <1>7, <1>8 DEF SetupInv, AuthInv
<1>12. DangleInv'
  <2>1. Dangling' \subseteq Dangling
    BY <1>1, <1>4 DEF Dangling
  <2> QED  BY <1>1, <1>2, <1>7, <2>1 DEF SetupInv, DangleInv, SchemeMadeTwice, KnownMisuse
<1> QED  BY <1>2, <1>5, <1>9, <1>10, <1>11, <1>12 DEF SetupInv

\* A slot gets the step's value, or one that dangles: what is there stays.
LEMMA Filled ==
    ASSUME SetupInv, Busy, Rest, Wanted(Now), Now.from # "free", NEW v,
           v \in {"uri", "config", "default", "derived", "dangling"},
           v # Now.from => /\ v = "dangling" /\ Now.from = "uri"
                           /\ Now.what \in {"scheme", "host", "path"}
                           /\ slot[Now.what] # "none",
           slot' = [slot EXCEPT ![Now.what] = v],
           authOf' = IF Now.what = "auth"
                        THEN <<slot["username"], slot["password"]>> ELSE authOf,
           leaked' \subseteq leaked \union LostBy(Now),
           misused' = misused \union FreedAgain(Now),
           UNCHANGED <<given, parts, call>>
    PROVE  SetupInv'
<1>1. /\ script' \in Seq(ScriptEntry) /\ ScriptInv'
      /\ Entries(script) = {Now} \union Entries(script')
      /\ call = "init" /\ Now = Auth => Entries(script') \intersect Creds = {}
      /\ call = "init" /\ Now = Host => Host \notin Entries(script')
      /\ call = "init" /\ Now \in TextSteps
           => Alloc(Now.what, "uri") \notin Entries(script')
  BY Advance
<1>2. slot \in [Slots -> {"none", "uri", "config", "default", "derived", "dangling"}]
  BY DEF SetupInv, SetupTypeOK
<1>3. Now \in ScriptEntry /\ Now.what \in Slots
  BY NowIs DEF ScriptEntry
<1>4. slot'[Now.what] = v /\ v # "none"
  BY <1>2, <1>3
<1>5. \A x \in Slots : x # Now.what => slot'[x] = slot[x]
  BY <1>2
<1>6. Core \union {"scheme", "host", "path", "username", "password", "auth"}
        \subseteq Slots
  BY DEF Core, Slots, Parts, Fields
<1>7. \A x \in Slots : slot[x] # "none" => slot'[x] # "none"
  BY <1>4, <1>5
<1>15. KnownMisuse' /\ misused' \subseteq Slots
  BY Misused, FreedDangled, NowIs
<1>8. SetupTypeOK'
  <2>1. slot' \in [Slots -> {"none", "uri", "config", "default", "derived", "dangling"}]
    BY <1>2
  <2>2. leaked' \subseteq Slots
    BY LostIsHost, <1>6 DEF SetupInv, SetupTypeOK
  <2>3. authOf' \in {"none", "uri", "config"} \X {"none", "uri", "config"}
    BY DEF SetupInv, SetupTypeOK, AuthInv
  <2> QED
    BY <1>1, <1>15, <2>1, <2>2, <2>3 DEF SetupInv, SetupTypeOK, ScriptEntry, Sources
<1>9. CompleteInv'
  <2>1. \A x \in Core \union {"scheme"} :
           slot[x] # "none" \/ Alloc(x, "default") \in Entries(script)
             => slot'[x] # "none" \/ Alloc(x, "default") \in Entries(script')
    <3>1. \A x : Now = Alloc(x, "default") => Now.what = x
      BY DEF Alloc
    <3> QED  BY <1>1, <1>4, <1>6, <1>7, <3>1
  <2> QED  BY <1>6, <1>7, <2>1 DEF SetupInv, CompleteInv
<1>10. KnownLeaks'
  BY LostIsHost DEF SetupInv, LeakInv, KnownLeaks
<1>11. LeakInv'
  <2> SUFFICES ASSUME call = "init", slot'["host"] # "none", "uri" \notin given
               PROVE  Host \notin Entries(script')
    BY <1>10 DEF LeakInv
  <2>1. CASE Now.what = "host"
    <3>1. Now # Alloc("host", "uri")
      BY NowIs DEF Alloc
    <3> QED  BY <1>1, <2>1, <3>1, NowIs
  <2>2. CASE Now.what # "host"
    BY <1>1, <1>5, <1>6, <2>2 DEF SetupInv, LeakInv
  <2> QED  BY <2>1, <2>2
<1>12. {slot'["username"], slot'["password"]} \subseteq {"none", "uri", "config"}
  <2>1. Now.what \in {"username", "password"} => v \in {"uri", "config"}
    BY NowIs DEF Creds, Alloc
  <2> QED  BY <1>4, <1>5, <1>6, <2>1 DEF SetupInv, AuthInv
<1>13. ASSUME call = "init", Auth \notin Entries(script')
       PROVE  \/ slot'["username"] = "none" \/ slot'["password"] = "none"
              \/ /\ slot'["auth"] # "none"
                 /\ authOf' = <<slot'["username"], slot'["password"]>>
  <2>1. CASE Now = Auth
    <3>1. Now.what = "auth"
      BY <2>1 DEF Auth, Alloc
    <3> QED  BY <1>4, <1>5, <1>6, <3>1
  <2>2. CASE Now # Auth
    <3>1. Auth \notin Entries(script)
      BY <1>1, <1>13, <2>2
    <3>2. Entries(script) \intersect Creds = {}
      BY <1>13, <3>1 DEF SetupInv, ScriptInv, InitOrder
    <3>3. Now.what \notin {"username", "password", "auth"}
      BY <2>2, <3>2, NowIs
    <3>4. /\ slot'["username"] = slot["username"] /\ slot'["password"] = slot["password"]
          /\ slot'["auth"] = slot["auth"] /\ authOf' = authOf
      BY <1>5, <1>6, <3>3
    <3> QED  BY <1>13, <3>1, <3>4 DEF SetupInv, AuthInv
  <2> QED  BY <2>1, <2>2
<1>14. AuthInv'
  BY <1>12, <1>13 DEF AuthInv
<1>16. Dangling' \subseteq Dangling \union (IF v = "dangling" THEN {Now.what} ELSE {})
  BY <1>2, <1>4, <1>5 DEF Dangling
<1>17. v = "dangling" => Now = Alloc(Now.what, "uri") /\ Now \in Entries(script)
                         /\ Now.what \in {"scheme", "host", "path"}
                         /\ slot[Now.what] # "none"
  <2>1. Now.from # "dangling"
    BY <1>3 DEF ScriptEntry, Sources
  <2> QED  BY <1>3, <2>1, NowIs DEF ScriptEntry, Alloc
<1>18. ASSUME call = "init" PROVE v = "dangling" => Now.what = "scheme" /\ SchemeMadeTwice
  <2> SUFFICES ASSUME v = "dangling" PROVE Now.what = "scheme" /\ SchemeMadeTwice
    OBVIOUS
  <2>1. Now.what = "scheme"
    BY <1>17, <1>18 DEF SetupInv, DangleInv
  <2>2. Now = Alloc("scheme", "uri") /\ Now.from = "uri"
    BY <1>17, <2>1 DEF Alloc
  <2>3. "uri" \in given /\ "scheme" \in parts
    BY <1>3, <1>18, <2>2, NowIs, WhenWanted
  <2>4. "transport" \in given
    BY <1>17, <1>18, <2>1 DEF SetupInv, DangleInv
  <2> QED  BY <2>1, <2>3, <2>4 DEF SchemeMadeTwice
<1>19. ASSUME call = "init", NEW x \in {"scheme", "host", "path"},
              Alloc(x, "uri") \in Entries(script'),
              x = "scheme" => "transport" \notin given
       PROVE  slot'[x] = "none"
  <2>1. slot[x] = "none"
    BY <1>1, <1>19 DEF SetupInv, DangleInv
  <2>2. Now.what # x
    <3> SUFFICES ASSUME Now.what = x PROVE FALSE
      OBVIOUS
    <3>1. Now \notin TextSteps
      BY <1>1, <1>19
    <3>2. Now = Alloc("scheme", "config")
      BY <3>1, NowIs
    <3>3. x = "scheme"
      BY <3>2 DEF Alloc
    <3> QED  BY <1>3, <1>19, <3>2, <3>3, WhenWanted
  <2> QED  BY <1>5, <1>6, <2>1, <2>2
<1>20. DangleInv'
  <2>1. Dangling' \subseteq {"scheme", "host", "path"}
    BY <1>16, <1>17 DEF SetupInv, DangleInv
  <2>2. SchemeMadeTwice' = SchemeMadeTwice
    BY DEF SchemeMadeTwice
  <2>3. call = "init" => /\ Dangling' \subseteq {"scheme"}
                         /\ Dangling' # {} => SchemeMadeTwice
    BY <1>16, <1>18 DEF SetupInv, DangleInv
  <2> QED  BY <1>15, <1>19, <2>1, <2>2, <2>3 DEF DangleInv
<1> QED  BY <1>1, <1>8, <1>9, <1>11, <1>14, <1>20 DEF SetupInv

LEMMA AllocateStep == ASSUME SetupInv, Allocate PROVE SetupInv'
<1>1. Now \in ScriptEntry
  BY NowIs DEF Allocate
<1>2. Now.from \in {"uri", "config", "default", "derived", "dangling"}
  BY <1>1 DEF Allocate, ScriptEntry, Sources
<1> QED  BY <1>2, Filled DEF Allocate

LEMMA UnnoticedStep == ASSUME SetupInv, Unnoticed PROVE SetupInv'
<1>1. Now.from = "uri" /\ Now.what \in {"scheme", "host", "path"}
  BY DEF Unnoticed, Formatted
<1>2. authOf' = IF Now.what = "auth"
                   THEN <<slot["username"], slot["password"]>> ELSE authOf
  BY <1>1 DEF Unnoticed
<1> QED  BY <1>1, <1>2, Filled DEF Unnoticed

\* A client ends: nothing that is left of it is looked at again.
LEMMA GivenUp ==
    ASSUME SetupInv, script' = <<>>,
           slot' \in {slot, [x \in Slots |-> "none"]},
           call \notin {"refused", "destroyed", "crashed"},
           call' \in {"refused", "destroyed", "crashed"},
           call' = "refused" => call = "init",
           leaked' \subseteq Slots, KnownLeaks',
           misused' \subseteq misused \union Dangling,
           UNCHANGED <<given, parts, authOf>>
    PROVE  SetupInv'
<1>1. script' \in Seq(ScriptEntry)
  <2>1. <<>> \in Seq(ScriptEntry)
    OBVIOUS
  <2> QED  BY <2>1
<1>2. {"username", "password"} \subseteq Slots
  BY DEF Slots, Parts, Fields
<1>3. KnownMisuse' /\ misused' \subseteq Slots
  BY Misused
<1>4. SetupTypeOK'
  BY <1>1, <1>3 DEF SetupInv, SetupTypeOK, ScriptEntry, Sources
<1>5. ScriptInv'
  BY DEF ScriptInv
<1>6. CompleteInv' /\ LeakInv'
  BY DEF CompleteInv, LeakInv
<1>7. AuthInv'
  BY <1>2 DEF SetupInv, AuthInv
<1>8. DangleInv'
  <2>1. Dangling' \subseteq Dangling
    BY DEF Dangling
  <2> QED  BY <1>3, <2>1 DEF SetupInv, DangleInv
<1> QED  BY <1>4, <1>5, <1>6, <1>7, <1>8 DEF SetupInv

\* A call fails: the handle is there as before, but for the step's own slot
\* and the local copy.
LEMMA CallFails ==
    ASSUME SetupInv, call \in {"set_uri", "start"}, call' = "idle", script' = <<>>,
           slot' \in [Slots -> {"none", "uri", "config", "default", "derived", "dangling"}],
           \A x \in Core : slot'[x] = slot[x],
           \A x \in Slots : slot'[x] \in {slot[x], "none"},
           leaked' \subseteq Slots, KnownLeaks',
           misused' \subseteq misused \union Dangling,
           UNCHANGED <<given, parts, authOf>>
    PROVE  SetupInv'
<1>1. script' \in Seq(ScriptEntry)
  <2>1. <<>> \in Seq(ScriptEntry)
    OBVIOUS
  <2> QED  BY <2>1
<1>2. KnownMisuse' /\ misused' \subseteq Slots
  BY Misused
<1>3. SetupTypeOK'
  BY <1>1, <1>2 DEF SetupInv, SetupTypeOK, ScriptEntry, Sources
<1>4. ScriptInv'
  BY DEF ScriptInv
<1>5. {"username", "password"} \subseteq Slots
  BY DEF Slots, Parts, Fields
<1>6. CompleteInv' /\ LeakInv' /\ AuthInv'
  BY <1>5 DEF SetupInv, CompleteInv, LeakInv, AuthInv
<1>7. DangleInv'
  <2>1. Dangling' \subseteq Dangling
    BY DEF Dangling
  <2> QED  BY <1>2, <2>1 DEF SetupInv, DangleInv
<1> QED  BY <1>3, <1>4, <1>6, <1>7 DEF SetupInv

LEMMA FailStep == ASSUME SetupInv, Fail PROVE SetupInv'
<1> DEFINE kept == [slot EXCEPT ![Now.what] = "none", !["user_info"] = "none"]
<1>1. /\ Busy /\ Wanted(Now) /\ Now.from # "free" /\ script' = <<>>
      /\ leaked' \subseteq leaked \union LostBy(Now) \union {"user_info"}
      /\ UNCHANGED <<given, parts, authOf>>
  BY DEF Fail
<1>2. /\ call # "init" => /\ slot' = kept /\ call' = "idle"
                          /\ misused' = misused \union FreedAgain(Now)
      /\ call = "init" => /\ slot' = [x \in Slots |-> "none"]
                          /\ call' \in {"refused", "crashed"}
                          /\ misused' = misused \union
                                          {x \in Slots : kept[x] = "dangling"}
  BY DEF Fail, DestroyAll
<1>3. {"host", "user_info"} \subseteq Slots /\ Core \subseteq Slots
  BY DEF Core, Slots, Parts, Fields
<1>4. leaked' \subseteq Slots
  BY <1>1, <1>3, LostIsHost DEF SetupInv, SetupTypeOK
<1>5. KnownLeaks'
  BY <1>1, LostIsHost DEF SetupInv, LeakInv, KnownLeaks
<1>6. slot \in [Slots -> {"none", "uri", "config", "default", "derived", "dangling"}]
  BY DEF SetupInv, SetupTypeOK
<1>7. /\ kept \in [Slots -> {"none", "uri", "config", "default", "derived", "dangling"}]
      /\ \A x \in Slots : kept[x] \in {slot[x], "none"}
      /\ \A x \in Slots : x # Now.what /\ x # "user_info" => kept[x] = slot[x]
  BY <1>6
<1> HIDE DEF kept
<1>8. misused' \subseteq misused \union Dangling
  BY <1>2, <1>7, FreedDangled DEF Dangling
<1>9. CASE call = "init"
  BY <1>1, <1>2, <1>4, <1>5, <1>8, <1>9, GivenUp
<1>10. CASE call # "init"
  <2>1. call \in {"set_uri", "start"} /\ Now.what \notin Core
    BY <1>1, <1>10, NowIs
  <2>2. slot' = kept /\ call' = "idle"
    BY <1>2, <1>10
  <2>3. \A x \in Core : slot'[x] = slot[x]
    BY <1>3, <1>7, <2>1, <2>2 DEF Core
  <2>4. \A x \in Slots : slot'[x] \in {slot[x], "none"}
    BY <1>7, <2>2
  <2>5. slot' \in [Slots -> {"none", "uri", "config", "default", "derived", "dangling"}]
    BY <1>7, <2>2
  <2> QED  BY <1>1, <1>4, <1>5, <1>8, <2>1, <2>2, <2>3, <2>4, <2>5, CallFails
<1> QED  BY <1>9, <1>10

LEMMA BadUriStep == ASSUME SetupInv, BadUri PROVE SetupInv'
<1>1. Busy /\ script' = <<>> /\ UNCHANGED <<given, parts, authOf, leaked>>
  BY DEF BadUri
<1>2. /\ call = "init" => /\ slot' = [x \in Slots |-> "none"] /\ call' = "refused"
                          /\ misused' = misused \union Dangling
      /\ call # "init" => call' = "idle" /\ UNCHANGED <<slot, misused>>
  BY DEF BadUri, DestroyAll, Dangling
<1>3. leaked' \subseteq Slots /\ KnownLeaks'
  BY <1>1 DEF SetupInv, SetupTypeOK, LeakInv, KnownLeaks
<1>4. CASE call = "init"
  BY <1>1, <1>2, <1>3, <1>4, GivenUp
<1>5. CASE call # "init"
  <2>1. call \in {"set_uri", "start"}
    BY <1>1, <1>5, NowIs
  <2>2. slot' \in [Slots -> {"none", "uri", "config", "default", "derived", "dangling"}]
    BY <1>2, <1>5 DEF SetupInv, SetupTypeOK
  <2> QED  BY <1>1, <1>2, <1>3, <1>5, <2>1, <2>2, CallFails DEF Core, Slots, Parts, Fields
<1> QED  BY <1>4, <1>5

\* Nothing is left to be done: what init had to allocate is there.
LEMMA ReturnsStep == ASSUME SetupInv, Returns PROVE SetupInv'
<1>1. /\ call \in {"init", "set_uri", "start"} /\ script = <<>> /\ call' = "idle"
      /\ UNCHANGED <<given, parts, authOf, slot, leaked, misused, script>>
  BY DEF Returns, Busy
<1>2. Entries(script) = {}
  BY <1>1 DEF Entries
<1>3. SetupTypeOK'
  BY <1>1 DEF SetupInv, SetupTypeOK
<1>4. ScriptInv' /\ LeakInv' /\ AuthInv'
  BY <1>1 DEF SetupInv, ScriptInv, LeakInv, AuthInv, KnownLeaks
<1>5. CompleteInv'
  BY <1>1, <1>2 DEF SetupInv, CompleteInv
<1>6. DangleInv'
  BY <1>1 DEF SetupInv, DangleInv, Dangling, SchemeMadeTwice, KnownMisuse
<1> QED  BY <1>3, <1>4, <1>5, <1>6 DEF SetupInv

LEMMA SetUriStep == ASSUME SetupInv, SetUri PROVE SetupInv'
<1>1. /\ call = "idle" /\ call' = "set_uri" /\ parts' \in Uris
      /\ script' = SetUriScript /\ UNCHANGED <<given, authOf, slot, leaked, misused>>
  BY DEF SetUri
<1>2. SetupTypeOK'
  BY <1>1, SetUriEntries, SetupAssumption DEF SetupInv, SetupTypeOK, ScriptEntry, Sources
<1>3. ScriptInv'
  BY <1>1, SetUriEntries DEF ScriptInv
<1>4. CompleteInv' /\ LeakInv' /\ AuthInv'
  BY <1>1 DEF SetupInv, CompleteInv, LeakInv, AuthInv, KnownLeaks
<1>5. DangleInv'
  BY <1>1 DEF SetupInv, DangleInv, Dangling, KnownMisuse
<1> QED  BY <1>2, <1>3, <1>4, <1>5 DEF SetupInv

LEMMA AppendHeaderStep == ASSUME SetupInv, AppendHeader PROVE SetupInv'
<1>1. /\ call = "idle" /\ slot' = [slot EXCEPT !["headers"] = "derived"]
      /\ UNCHANGED <<given, parts, authOf, leaked, misused, call, script>>
  BY DEF AppendHeader
<1>2. SetupTypeOK'
  BY <1>1 DEF SetupInv, SetupTypeOK
<1>3. \A x \in Core \union {"username", "password"} : slot'[x] = slot[x]
  <2>1. Core \union {"username", "password"} \subseteq Slots \ {"headers"}
    BY DEF Core, Slots, Parts, Fields
  <2> QED  BY <1>1, <2>1 DEF SetupInv, SetupTypeOK
<1>4. ScriptInv' /\ CompleteInv' /\ LeakInv' /\ AuthInv'
  BY <1>1, <1>3 DEF SetupInv, ScriptInv, CompleteInv, LeakInv, AuthInv, KnownLeaks
<1>5. Dangling' \subseteq Dangling
  BY <1>1 DEF SetupInv, SetupTypeOK, Dangling
<1>6. DangleInv'
  BY <1>1, <1>5 DEF SetupInv, DangleInv, KnownMisuse
<1> QED  BY <1>2, <1>4, <1>6 DEF SetupInv

LEMMA StartStep == ASSUME SetupInv, StartTransport PROVE SetupInv'
<1>1. /\ call = "idle" /\ call' = "start" /\ script' = TransportScript
      /\ misused' = misused \union Dangling
      /\ UNCHANGED <<given, parts, authOf, slot, leaked>>
  BY DEF StartTransport
<1>2. KnownMisuse' /\ misused' \subseteq Slots
  BY <1>1, Misused
<1>3. SetupTypeOK'
  BY <1>1, <1>2, TransportEntries DEF SetupInv, SetupTypeOK, ScriptEntry, Sources
<1>4. ScriptInv'
  BY <1>1, TransportEntries DEF ScriptInv
<1>5. CompleteInv' /\ LeakInv' /\ AuthInv'
  BY <1>1 DEF SetupInv, CompleteInv, LeakInv, AuthInv, KnownLeaks
<1>6. DangleInv'
  BY <1>1, <1>2 DEF SetupInv, DangleInv, Dangling
<1> QED  BY <1>3, <1>4, <1>5, <1>6 DEF SetupInv

LEMMA DestroyStep == ASSUME SetupInv, DestroyHandle PROVE SetupInv'
<1>1. /\ call = "idle" /\ call' = "destroyed" /\ slot' = [x \in Slots |-> "none"]
      /\ misused' = misused \union Dangling
      /\ UNCHANGED <<given, parts, authOf, leaked, script>>
  BY DEF DestroyHandle, DestroyAll, Dangling
<1>2. script' = <<>> /\ leaked' \subseteq Slots /\ KnownLeaks'
  BY <1>1 DEF SetupInv, ScriptInv, SetupTypeOK, LeakInv, KnownLeaks
<1> QED  BY <1>1, <1>2, GivenUp

LEMMA CorruptedStep == ASSUME SetupInv, Corrupted PROVE SetupInv'
<1>1. /\ call \in {"init", "set_uri", "start", "idle"} /\ call' = "crashed"
      /\ script' = <<>> /\ UNCHANGED <<given, parts, authOf, slot, leaked, misused>>
  BY DEF Corrupted
<1>2. leaked' \subseteq Slots /\ KnownLeaks'
  BY <1>1 DEF SetupInv, SetupTypeOK, LeakInv, KnownLeaks
<1> QED  BY <1>1, <1>2, GivenUp

LEMMA SetupStep == ASSUME SetupInv, [SetupNext]_setupVars PROVE SetupInv'
<1>1. CASE UNCHANGED setupVars
  BY <1>1 DEF setupVars, SetupInv, SetupTypeOK, ScriptInv, InitOrder, CompleteInv, LeakInv,
              KnownLeaks, AuthInv, Entries, NoneAfter, DangleInv, Dangling,
              SchemeMadeTwice, KnownMisuse
<1>2. CASE Ended
  BY <1>1, <1>2 DEF Ended
<1>3. CASE SetupNext
  BY <1>2, <1>3, SkipStep, ReleaseStep, AllocateStep, UnnoticedStep, FailStep,
     BadUriStep, ReturnsStep, SetUriStep, AppendHeaderStep, StartStep, DestroyStep,
     CorruptedStep
     DEF SetupNext
<1> QED  BY <1>1, <1>3

\* The client's slots and what its calls have to do keep the invariant.
THEOREM SetupCorrect == SetupSpec => []SetupInv
<1>1. SetupInv /\ [SetupNext]_setupVars => SetupInv'
  BY SetupStep
<1> QED  BY <1>1, SetupInitial, PTL DEF SetupSpec

\* Every variable keeps its type.
THEOREM SetupTypeCorrect == SetupSpec => []SetupTypeOK
<1>1. SetupInv => SetupTypeOK
  BY DEF SetupInv
<1> QED  BY <1>1, SetupCorrect, PTL

\* A handle that esp_websocket_client_init returns has a scheme and all its
\* parts, and keeps the parts whatever fails in a later call: for every
\* configuration and every URI.  No pointer in it dangles but the scheme, and
\* that one only if it was made for the transport and again for the URI.
THEOREM HandlesAreComplete == SetupSpec => []HandleComplete
<1>1. SetupInv => HandleComplete
  <2>1. script = <<>> => Entries(script) = {}
    BY DEF Entries
  <2>2. \A x \in Core : x \in Slots /\ x \notin {"scheme", "host", "path"}
    BY DEF Core, Slots, Parts, Fields
  <2>3. ASSUME SetupInv, NEW x \in Core PROVE slot[x] # "dangling"
    BY <2>2, <2>3 DEF SetupInv, DangleInv, Dangling
  <2> QED
    BY <2>1, <2>3 DEF SetupInv, CompleteInv, DangleInv, HandleComplete, Made, Busy, Core
<1> QED  BY <1>1, SetupCorrect, PTL

\* Freed memory is only read or freed again where esp_websocket_client_set_uri
\* replaces a text and asprintf fails unnoticed; within init this is the scheme,
\* and only one made for the transport and again for the URI.
THEOREM MisuseIsKnown == SetupSpec => []KnownMisuse
<1>1. SetupInv => KnownMisuse
  BY DEF SetupInv, DangleInv
<1> QED  BY <1>1, SetupCorrect, PTL

\* Only the URI's host, which esp_websocket_client_set_config replaces without
\* freeing it, and the local copy of a set_uri that fails are ever lost.
THEOREM NoOtherLeak == SetupSpec => []KnownLeaks
<1>1. SetupInv => KnownLeaks
  BY DEF SetupInv, LeakInv
<1> QED  BY <1>1, SetupCorrect, PTL

\* The authorisation a handle starts with is made of its own user name and
\* password, wherever each of them comes from.
THEOREM AuthIsOwn == SetupSpec => []AuthOfInit
<1>1. SetupInv => AuthOfInit
  <2>1. script = <<>> => Entries(script) = {}
    BY DEF Entries
  <2> QED  BY <2>1 DEF SetupInv, AuthInv, AuthOfInit, Made, Busy
<1> QED  BY <1>1, SetupCorrect, PTL

-----------------------------------------------------------------------------
(* At work: the lock.                                                      *)

\* Who sends or handles a state holds the lock, and who sends has a frame left.
LockInv ==
    /\ \A w \in Writers : pc[w] \in {"sending", "aborting"} => lock = w
    /\ \A t \in Tasks : pc[t] \in {"work", "read"} => lock = t
    /\ \A w \in Writers : pc[w] = "sending" => left >= 1

LEMMA Disjoint == /\ \A t \in Tasks, w \in Writers : t # w
                  /\ None \notin Threads
                  /\ Owner \in Writers /\ Owner \notin Senders
                  /\ Senders \subseteq Writers
  BY ClientAssumption DEF Tasks, Writers, Threads, None

LEMMA Numbers == /\ Fragments \in Nat /\ Fragments >= 1
                 /\ MaxConns \in Nat /\ MaxConns >= 1 /\ MaxTasks \in Nat
                 /\ PingInterval \in Nat /\ PongTimeout \in Nat
                 /\ WaitTimeout \in Nat
  BY ClientAssumption

LEMMA InitCorrect == Init => TypeOK /\ LockInv
  <1> SUFFICES ASSUME Init PROVE TypeOK /\ LockInv
    OBVIOUS
  <1>1. FlagsType
    <2>1. Reconnects \subseteq BOOLEAN
      BY ClientAssumption
    <2> QED
      BY <2>1, Zenon DEF Init, FlagsType
  <1>2. ThreadsType
    <2>1. pc \in [Threads -> {"none", "idle"}]
      BY DEF Init
    <2> QED
      BY <2>1, Numbers DEF Init, ThreadsType, Places
  <1>3. ClockType
    BY Numbers DEF Init, ClockType
  <1>4. ServerType
    BY Numbers DEF Init, ServerType
  <1>5. LockInv
    BY Disjoint DEF Init, LockInv, Threads
  <1> QED
    BY <1>1, <1>2, <1>3, <1>4, <1>5 DEF TypeOK

-----------------------------------------------------------------------------
(* The types.                                                              *)

\* esp_websocket_client_abort_connection, and what it leaves of the flags.
LEMMA AbortFlags ==
  ASSUME FlagsType, AbortConnection
  PROVE  /\ run' \in BOOLEAN /\ flag' \in BOOLEAN /\ owesPong' \in BOOLEAN
         /\ garbled' = garbled
  <1>1. CASE TransportClose /\ Disconnect
    BY <1>1, Zenon DEF FlagsType, TransportClose, Disconnect, ConnectionLost,
                       HandleEvent
  <1>2. CASE UNCHANGED <<status, server>>
    BY <1>2, Zenon DEF FlagsType, status, server
  <1> QED
    BY <1>1, <1>2 DEF AbortConnection

LEMMA ControlFlags ==
  ASSUME FlagsType, NEW frame, SendControl(frame)
  PROVE  owesPong' \in BOOLEAN /\ garbled' = garbled
  BY Zenon DEF FlagsType, SendControl

LEMMA FlagsStep ==
  ASSUME FlagsType, [Next]_vars
  PROVE  FlagsType'
  <1>1. ASSUME NEW t \in Tasks, Task(t) PROVE FlagsType'
    <2>1. UNCHANGED <<autoReconnect, settled, freed>>
      BY <1>1 DEF Task, life
    <2>2. CASE Check(t) \/ TakeLock(t) \/ NoPing(t) \/ SkipRead(t)
                 \/ Idle(t) \/ After(t)
      BY <2>1, <2>2, Zenon DEF FlagsType, client, status, ping, server, Check,
           TakeLock, NoPing, SkipRead, Idle, After
    <2>3. CASE Wait(t) \/ Last(t) \/ StopBit(t) \/ Poll(t)
      BY <2>1, <2>3, Zenon DEF FlagsType, status, ping, server, Wait, Last,
           StopBit, Poll
    <2>4. CASE Begin(t) \/ Closed(t)
      BY <2>1, <2>4, Zenon DEF FlagsType, ping, server, Begin, Closed
    <2>5. CASE Connect(t)
      BY <2>1, <2>5, Zenon DEF FlagsType, Connect, HandleEvent, ForgetPong
    <2>6. CASE ConnectFails(t) \/ PollFailed(t)
      BY <2>1, <2>6, AbortFlags, Zenon DEF FlagsType, ConnectFails, PollFailed,
           ping
    <2>7. CASE PongTimesOut(t) \/ RecvFails(t)
      BY <2>1, <2>7, AbortFlags, Zenon DEF FlagsType, PongTimesOut, RecvFails
    <2>8. CASE Ping(t)
      BY <2>1, <2>8, ControlFlags, Zenon DEF FlagsType, Ping, status, server
    <2>9. CASE Recv(t)
      BY <2>1, <2>9, Zenon DEF FlagsType, Recv
    <2>10. CASE Echo(t)
      BY <2>1, <2>10, ControlFlags, Zenon DEF FlagsType, Echo, status, ping,
           server
    <2>11. CASE Finish(t)
      BY <2>1, <2>11, Zenon DEF FlagsType, Finish, TransportClose, status, ping
    <2> QED
      BY <1>1, <2>2, <2>3, <2>4, <2>5, <2>6, <2>7, <2>8, <2>9, <2>10, <2>11
        DEF Task
  <1>2. ASSUME NEW w \in Writers, Write(w) PROVE FlagsType'
    <2>1. UNCHANGED <<autoReconnect, waitPong, settled, freed>>
      BY <1>2 DEF Write, ping, life
    <2>2. CASE Send(w) \/ LockToSend(w) \/ LockTimesOut(w)
      BY <2>1, <2>2, Zenon DEF FlagsType, Send, LockToSend, LockTimesOut, status,
           server
    <2>3. CASE SendFrame(w)
      BY <2>1, <2>3, ControlFlags, Zenon DEF FlagsType, SendFrame, status
    <2>4. CASE SendFails(w)
      BY <2>1, <2>4, Zenon DEF FlagsType, SendFails, TransportClose, status,
           server
    <2>5. CASE AbortEnds(w)
      BY <2>1, <2>5, Zenon DEF FlagsType, AbortEnds, Disconnect, ConnectionLost,
           HandleEvent, server
    <2> QED
      BY <1>2, <2>2, <2>3, <2>4, <2>5 DEF Write
  <1>3. ASSUME OwnerNext PROVE FlagsType'
    <2>1. UNCHANGED <<autoReconnect, waitPong, flag>>
      BY <1>3 DEF OwnerNext, ping
    <2>2. CASE Start
      BY <2>1, <2>2, Zenon DEF FlagsType, Start, TransportClose
    <2>3. CASE Stop \/ Close \/ CloseGivesUp \/ Destroy
      BY <2>1, <2>3, Zenon DEF FlagsType, Stop, Close, CloseGivesUp, Destroy,
           server, life
    <2>4. CASE OwnerReturns
      BY <2>1, <2>4, Zenon DEF FlagsType, OwnerReturns, StartClear, StopReturns,
           CloseBit, CloseReturns, StopToFree, FreeAfterStop, server, life
    <2> QED
      BY <1>3, <2>2, <2>3, <2>4 DEF OwnerNext
  <1>4. CASE Environment
    BY <1>4, Zenon DEF FlagsType, Environment, ServerSends, ServerPongs,
         ServerClosing, RestArrives, LinkFails, ping, life, status
  <1>5. CASE Tick
    BY <1>5, Zenon DEF FlagsType, Tick, server, life
  <1>6. CASE UNCHANGED vars
    BY <1>6, Zenon DEF FlagsType, vars, status, ping, server, life
  <1> QED
    BY <1>1, <1>2, <1>3, <1>4, <1>5, <1>6 DEF Next

-----------------------------------------------------------------------------
(* Where the threads are, and who holds the lock.                          *)

LEMMA Moved ==
  ASSUME pc \in [Threads -> Places], NEW x \in Threads, NEW place \in Places,
         Goto(x, place)
  PROVE  /\ pc' \in [Threads -> Places] /\ pc'[x] = place
         /\ \A y \in Threads : y # x => pc'[y] = pc[y]
  BY DEF Goto

\* What a step of the loop task does to the lock (nothing, take it or give it
\* back) and to the status bits.
LEMMA TaskMoves ==
  ASSUME ThreadsType, NEW t \in Tasks, Task(t)
  PROVE  /\ UNCHANGED left /\ bits' \subseteq {"STOPPED", "CLOSE_SENT"}
         /\ pc[t] \in InLoop
         /\ \E place \in InLoop \union {"none"} :
              /\ pc[t] = "last" => place = "none"
              /\ "STOPPED" \in bits' => "STOPPED" \in bits \/ place = "last"
              /\ Goto(t, place)
              /\ \/ /\ lock' = lock
                    /\ place \notin {"work", "read"} \/ pc[t] = "work"
                 \/ lock = None /\ lock' = t
                 \/ /\ pc[t] \in {"work", "read"} /\ lock' = None
                    /\ place = "after"
  <1> USE DEF ThreadsType, Step, EndWork, Work, Places, InLoop
  <1>1. UNCHANGED left
    BY DEF Task
  <1>2. CASE Begin(t)
    BY <1>1, <1>2 DEF Begin
  <1>3. CASE Check(t)
    <2>1. PICK place \in {"lock", "finish"} : Step(t, "check", place)
      BY <1>3 DEF Check
    <2> QED
      BY <1>1, <1>3, <2>1 DEF Check, client
  <1>4. CASE NoPing(t)
    BY <1>1, <1>4 DEF NoPing, client
  <1>5. CASE After(t)
    <2>1. PICK place \in {"poll", "closed", "check"} : Step(t, "after", place)
      BY <1>5 DEF After
    <2> QED
      BY <1>1, <1>5, <2>1 DEF After, client
  <1>6. CASE TakeLock(t)
    BY <1>1, <1>6 DEF TakeLock, client
  <1>7. CASE SkipRead(t) \/ Idle(t)
    BY <1>1, <1>7 DEF SkipRead, Idle, client
  <1>8. CASE Connect(t) \/ ConnectFails(t) \/ PongTimesOut(t) \/ Recv(t)
               \/ RecvFails(t) \/ Wait(t)
    BY <1>1, <1>8 DEF Connect, ConnectFails, PongTimesOut, Recv, RecvFails, Wait
  <1>9. CASE Echo(t)
    BY <1>1, <1>9 DEF Echo
  <1>10. CASE Ping(t)
    BY <1>1, <1>10 DEF Ping
  <1>11. CASE Poll(t)
    <2>1. PICK place \in {"pollerr", "check"} : Step(t, "poll", place)
      BY <1>11 DEF Poll
    <2> QED
      BY <1>1, <1>11, <2>1 DEF Poll
  <1>12. CASE Closed(t)
    BY <1>1, <1>12 DEF Closed
  <1>13. CASE PollFailed(t)
    BY <1>1, <1>13 DEF PollFailed
  <1>14. CASE Finish(t)
    BY <1>1, <1>14 DEF Finish
  <1>15. CASE StopBit(t)
    BY <1>1, <1>15 DEF StopBit
  <1>16. CASE Last(t)
    BY <1>1, <1>16 DEF Last
  <1> QED
    BY <1>2, <1>3, <1>4, <1>5, <1>6, <1>7, <1>8, <1>9, <1>10, <1>11, <1>12,
       <1>13, <1>14, <1>15, <1>16 DEF Task

LEMMA ThreadsStep ==
  ASSUME ThreadsType, LockInv, [Next]_vars
  PROVE  ThreadsType' /\ LockInv'
  <1> USE Disjoint, Numbers
  <1>1. ASSUME NEW t \in Tasks, Task(t) PROVE ThreadsType' /\ LockInv'
    <2>1. t \in Threads
      BY DEF Threads
    <2>2. PICK place \in Places :
              /\ UNCHANGED left
              /\ bits' \subseteq {"STOPPED", "CLOSE_SENT"}
              /\ Goto(t, place)
              /\ \/ /\ lock' = lock
                    /\ place \notin {"work", "read"} \/ pc[t] = "work"
                 \/ lock = None /\ lock' = t
                 \/ /\ pc[t] \in {"work", "read"} /\ lock' = None
                    /\ place = "after"
      BY <1>1, TaskMoves DEF Places
    <2>3. /\ pc' \in [Threads -> Places] /\ pc'[t] = place
          /\ \A y \in Threads : y # t => pc'[y] = pc[y]
      BY <2>1, <2>2, Moved DEF ThreadsType
    <2>4. ThreadsType'
      BY <2>1, <2>2, <2>3 DEF ThreadsType
    <2>5. LockInv'
      BY <2>1, <2>2, <2>3 DEF LockInv, Threads
    <2> QED
      BY <2>4, <2>5
  <1>2. ASSUME NEW w \in Writers, Write(w) PROVE ThreadsType' /\ LockInv'
    <2>1. w \in Threads /\ UNCHANGED bits
      BY <1>2 DEF Threads, Write
    <2>2. CASE Send(w)
      <3>1. Goto(w, "locking") /\ UNCHANGED <<lock, left>>
        BY <2>2 DEF Send
      <3> QED
        BY <2>1, <3>1, Moved DEF ThreadsType, LockInv, Threads, Places
    <2>3. CASE LockToSend(w)
      <3>1. /\ Goto(w, "sending") /\ lock = None /\ lock' = w
            /\ left' \in 1 .. Fragments
        BY <2>3 DEF LockToSend, Frames
      <3> QED
        BY <2>1, <3>1, Moved DEF ThreadsType, LockInv, Threads, Places
    <2>8. CASE LockTimesOut(w)
      <3>1. PICK place \in {"idle", "closebit"} :
               UNCHANGED <<lock, left>> /\ Goto(w, place)
        BY <2>8 DEF LockTimesOut, Done
      <3> QED
        BY <2>1, <3>1, Moved DEF ThreadsType, LockInv, Threads, Places
    <2>4. CASE SendFrame(w) /\ left > 1
      <3>1. left' = left - 1 /\ UNCHANGED <<lock, pc>>
        BY <2>4 DEF SendFrame, UnlockAtEnd
      <3> QED
        BY <2>1, <2>4, <3>1 DEF ThreadsType, LockInv
    <2>5. CASE SendFrame(w) /\ ~(left > 1)
      <3>1. PICK place \in {"idle", "closebit"} :
               pc[w] = "sending" /\ left' = left - 1 /\ lock' = None /\ Goto(w, place)
        BY <2>5 DEF SendFrame, UnlockAtEnd, Unlock, Done
      <3> QED
        BY <2>1, <3>1, Moved DEF ThreadsType, LockInv, Threads, Places
    <2>6. CASE SendFails(w)
      <3>1. /\ pc[w] = "sending" /\ left' = 0
            /\ \/ \E place \in {"idle", "closebit"} : lock' = None /\ Goto(w, place)
               \/ lock' = lock /\ Goto(w, "aborting")
        BY <2>6 DEF SendFails, Unlock, Done
      <3> QED
        BY <2>1, <3>1, Moved DEF ThreadsType, LockInv, Threads, Places
    <2>7. CASE AbortEnds(w)
      <3>1. PICK place \in {"idle", "closebit"} :
               pc[w] = "aborting" /\ left' = left /\ lock' = None /\ Goto(w, place)
        BY <2>7 DEF AbortEnds, Unlock, Done
      <3> QED
        BY <2>1, <3>1, Moved DEF ThreadsType, LockInv, Threads, Places
    <2> QED
      BY <1>2, <2>2, <2>3, <2>4, <2>5, <2>6, <2>7, <2>8 DEF Write
  <1>3. ASSUME OwnerNext PROVE ThreadsType' /\ LockInv'
    <2>1. UNCHANGED <<lock, left>> /\ Owner \in Threads
      BY <1>3 DEF OwnerNext, Threads
    <2>2. CASE Start
      <3>1. PICK t \in Tasks :
               pc' = [pc EXCEPT ![t] = "begin", ![Owner] = "startclear"]
        BY <2>2 DEF Start
      <3>3. bits' = bits
        BY <2>2 DEF Start
      <3>2. /\ pc' \in [Threads -> Places]
            /\ \A y \in Threads : pc'[y] \in {pc[y], "begin", "startclear"}
        BY <2>1, <3>1 DEF ThreadsType, Threads, Places, InLoop
      <3> QED
        BY <2>1, <3>1, <3>2, <3>3 DEF ThreadsType, LockInv, Threads
    <2>3. ASSUME NEW place \in Places \ {"sending", "aborting", "work", "read"},
                 Goto(Owner, place),
                 bits' \subseteq {"STOPPED", "CLOSE_SENT"}
          PROVE  ThreadsType' /\ LockInv'
      BY <2>1, <2>3, Moved DEF ThreadsType, LockInv, Threads
    <2>4. CASE Stop \/ CloseGivesUp
      <3>1. Goto(Owner, "stopwait") /\ bits' = bits
        BY <2>4 DEF Stop, CloseGivesUp, Then
      <3> QED
        BY <2>3, <3>1 DEF Places, ThreadsType
    <2>5. CASE Close
      <3>1. PICK place \in {"locking", "closebit"} : Goto(Owner, place)
        BY <2>5 DEF Close, Then
      <3>2. bits' = bits
        BY <2>5 DEF Close
      <3> QED
        BY <2>3, <3>1, <3>2 DEF Places, ThreadsType
    <2>6. CASE Destroy \/ StopToFree
      <3>1. PICK place \in {"stopfree", "freewait", "idle"} : Goto(Owner, place)
        BY <2>6 DEF Destroy, StopToFree, Then
      <3>2. bits' = bits
        BY <2>6 DEF Destroy, StopToFree
      <3> QED
        BY <2>3, <3>1, <3>2 DEF Places, ThreadsType
    <2>7. CASE StartClear \/ StopReturns \/ CloseReturns \/ FreeAfterStop
      <3>1. Goto(Owner, "idle") /\ bits' \in {bits, {}}
        BY <2>7 DEF StartClear, StopReturns, CloseReturns, FreeAfterStop, Then
      <3> QED
        BY <2>3, <3>1 DEF Places, ThreadsType
    <2>8. CASE CloseBit
      <3>1. Goto(Owner, "closewait") /\ bits' = bits \union {"CLOSE_SENT"}
        BY <2>8 DEF CloseBit, Then
      <3> QED
        BY <2>3, <3>1 DEF Places, ThreadsType
    <2> QED
      BY <1>3, <2>2, <2>4, <2>5, <2>6, <2>7, <2>8 DEF OwnerNext, OwnerReturns
  <1>4. CASE Environment \/ Tick \/ UNCHANGED vars
    <2>1. UNCHANGED <<bits, lock, pc, left>>
      BY <1>4 DEF Environment, Tick, vars
    <2> QED
      BY <2>1 DEF ThreadsType, LockInv
  <1> QED
    BY <1>1, <1>2, <1>3, <1>4 DEF Next

-----------------------------------------------------------------------------
(* The clock's and the server's types.                                     *)

\* What is left of a connection that may have been closed ...
LostOrKept ==
    /\ opened' = opened
    /\ \/ link' = "none" /\ inbox' = <<>> /\ unfinished' = None
       \/ UNCHANGED <<link, inbox, unfinished>>

LEMMA Lost == TransportClose \/ UNCHANGED server => LostOrKept
  <1>1. TransportClose => LostOrKept
    BY DEF TransportClose, LostOrKept
  <1>2. UNCHANGED server => LostOrKept
    BY DEF server, LostOrKept
  <1> QED
    BY <1>1, <1>2

\* ... and of the client's state when it was aborted.
LEMMA AbortEffect ==
  ASSUME AbortConnection
  PROVE  /\ LostOrKept
         /\ state' \in {"WAIT_TIMEOUT", "UNKNOW", state}
         /\ reconnectAge' \in {reconnectAge, 0}
  <1>1. CASE TransportClose /\ Disconnect
    BY <1>1, Lost DEF Disconnect, ConnectionLost
  <1>2. CASE UNCHANGED <<status, server>>
    BY <1>2, Lost DEF status
  <1> QED
    BY <1>1, <1>2 DEF AbortConnection

LEMMA ControlEffect ==
  ASSUME NEW frame, SendControl(frame)
  PROVE  UNCHANGED <<link, opened, inbox, unfinished, garbled>>
  BY DEF SendControl

LEMMA ClockStep ==
  ASSUME ClockType, [Next]_vars
  PROVE  ClockType'
  <1> USE Numbers
  <1>1. ASSUME NEW t \in Tasks, Task(t) PROVE ClockType'
    <2>1. CASE Check(t) \/ TakeLock(t) \/ NoPing(t) \/ SkipRead(t) \/ Idle(t)
                 \/ After(t)
      <3>1. UNCHANGED <<status, ping>>
        BY <2>1 DEF Check, TakeLock, NoPing, SkipRead, Idle, After, client
      <3> QED
        BY <3>1 DEF ClockType, status, ping
    <2>2. CASE Poll(t) \/ Finish(t) \/ StopBit(t) \/ Echo(t)
      <3>1. UNCHANGED <<status, ping>>
        BY <2>2 DEF Poll, Finish, StopBit, Echo
      <3> QED
        BY <3>1 DEF ClockType, status, ping
    <2>3. CASE Begin(t) \/ Closed(t) \/ Last(t) \/ Wait(t)
      <3>1. /\ UNCHANGED ping /\ reconnectAge' \in {reconnectAge, 0}
            /\ state' \in {"INIT", "UNKNOW", state}
        BY <2>3 DEF Begin, Closed, Last, Wait
      <3> QED
        BY <3>1 DEF ClockType, ping
    <2>4. CASE Connect(t)
      <3>1. state' = "CONNECTED" /\ UNCHANGED <<reconnectAge, pingAge, pongAge>>
        BY <2>4 DEF Connect
      <3> QED
        BY <3>1 DEF ClockType
    <2>5. CASE ConnectFails(t) \/ PollFailed(t) \/ PongTimesOut(t) \/ RecvFails(t)
      <3>1. pingAge' \in {pingAge, 0} /\ pongAge' = pongAge /\ AbortConnection
        BY <2>5 DEF ConnectFails, PollFailed, PongTimesOut, RecvFails, ping
      <3> QED
        BY <3>1, AbortEffect DEF ClockType
    <2>6. CASE Ping(t)
      <3>1. /\ UNCHANGED status /\ pingAge' \in {pingAge, 0}
            /\ pongAge' \in {pongAge, 0}
        BY <2>6 DEF Ping
      <3> QED
        BY <3>1 DEF ClockType, status
    <2>7. CASE Recv(t)
      <3>1. /\ state' \in {"CLOSING", state} /\ pingAge' = 0
            /\ UNCHANGED <<reconnectAge, pongAge>>
        BY <2>7 DEF Recv
      <3> QED
        BY <3>1 DEF ClockType
    <2> QED
      BY <1>1, <2>1, <2>2, <2>3, <2>4, <2>5, <2>6, <2>7 DEF Task
  <1>2. ASSUME NEW w \in Writers, Write(w) PROVE ClockType'
    <2>1. UNCHANGED ping
      BY <1>2 DEF Write
    <2>2. CASE Send(w) \/ LockToSend(w) \/ LockTimesOut(w) \/ SendFrame(w)
                 \/ SendFails(w)
      <3>1. UNCHANGED status
        BY <2>2 DEF Send, LockToSend, LockTimesOut, SendFrame, SendFails
      <3> QED
        BY <2>1, <3>1 DEF ClockType, status, ping
    <2>3. CASE AbortEnds(w)
      <3>1. state' \in {"WAIT_TIMEOUT", "UNKNOW"} /\ reconnectAge' \in {reconnectAge, 0}
        BY <2>3 DEF AbortEnds, Disconnect, ConnectionLost
      <3> QED
        BY <2>1, <3>1 DEF ClockType, ping
    <2> QED
      BY <1>2, <2>2, <2>3 DEF Write
  <1>3. ASSUME OwnerNext PROVE ClockType'
    <2>1. UNCHANGED <<reconnectAge, ping>>
      BY <1>3 DEF OwnerNext
    <2>2. state' \in {state, "UNKNOW"}
      BY <1>3 DEF OwnerNext, OwnerReturns, Start, Stop, Close, CloseGivesUp,
                  Destroy, StartClear, StopReturns, CloseBit, CloseReturns,
                  StopToFree, FreeAfterStop
    <2> QED
      BY <2>1, <2>2 DEF ClockType, ping
  <1>4. CASE Environment \/ UNCHANGED vars
    <2>1. UNCHANGED <<status, ping>>
      BY <1>4 DEF Environment, vars
    <2> QED
      BY <2>1 DEF ClockType, status, ping
  <1>5. CASE Tick
    <2>1. /\ state' = state /\ pingAge' = Older(pingAge, PingInterval)
          /\ pongAge' \in {pongAge, Older(pongAge, PongTimeout)}
          /\ reconnectAge' \in {reconnectAge, Older(reconnectAge, WaitTimeout)}
      BY <1>5 DEF Tick
    <2>2. \A limit \in Nat : \A age \in 0 .. limit + 1 :
             Older(age, limit) \in 0 .. limit + 1
      BY DEF Older
    <2> QED
      BY <2>1, <2>2 DEF ClockType
  <1> QED
    BY <1>1, <1>2, <1>3, <1>4, <1>5 DEF Next

LEMMA LostType ==
  ASSUME ServerType, LostOrKept, UNCHANGED <<loop, pinged>>
  PROVE  ServerType'
  <1>1. CASE link' = "none" /\ inbox' = <<>> /\ unfinished' = None
    <2>1. <<>> \in Seq({"DATA", "CUT", "PONG", "CLOSE"})
      OBVIOUS
    <2> QED
      BY <1>1, <2>1 DEF ServerType, LostOrKept, loop
  <1>2. CASE UNCHANGED <<link, inbox, unfinished>>
    BY <1>2 DEF ServerType, LostOrKept, loop
  <1> QED
    BY <1>1, <1>2 DEF LostOrKept

LEMMA ServerStep ==
  ASSUME ServerType, [Next]_vars
  PROVE  ServerType'
  <1> USE Numbers, Disjoint
  <1>1. ASSUME NEW t \in Tasks, Task(t) PROVE ServerType'
    <2>1. CASE Check(t) \/ TakeLock(t) \/ NoPing(t) \/ SkipRead(t) \/ Idle(t)
                 \/ After(t)
      <3>1. UNCHANGED <<loop, ping, server>>
        BY <2>1 DEF Check, TakeLock, NoPing, SkipRead, Idle, After, client
      <3> QED
        BY <3>1 DEF ServerType, loop, ping, server
    <2>2. CASE StopBit(t) \/ Closed(t) \/ Last(t) \/ Wait(t)
      <3>1. UNCHANGED <<loop, ping, server>>
        BY <2>2 DEF StopBit, Closed, Last, Wait
      <3> QED
        BY <3>1 DEF ServerType, loop, ping, server
    <2>3. CASE Begin(t)
      <3>1. readSelect' = 0 /\ UNCHANGED <<polled, ping, server>>
        BY <2>3 DEF Begin
      <3> QED
        BY <3>1 DEF ServerType, ping, server
    <2>4. CASE Connect(t)
      <3>1. /\ link' = "up"
            /\ opened' = IF opened = MaxConns THEN 1 ELSE opened + 1
            /\ inbox' = <<>> /\ unfinished' = None /\ UNCHANGED <<loop, pinged>>
        BY <2>4 DEF Connect
      <3> QED
        BY <3>1 DEF ServerType, loop
    <2>5. CASE ConnectFails(t) \/ PollFailed(t) \/ PongTimesOut(t) \/ RecvFails(t)
      <3>1. UNCHANGED <<loop, pinged>> /\ AbortConnection
        BY <2>5 DEF ConnectFails, PollFailed, PongTimesOut, RecvFails, ping
      <3> QED
        BY <3>1, AbortEffect, LostType
    <2>6. CASE Ping(t) \/ Echo(t)
      <3>1. UNCHANGED loop /\ pinged' \in {pinged, opened}
        BY <2>6 DEF Ping, Echo, ping
      <3>2. UNCHANGED <<link, opened, inbox, unfinished>>
        BY <2>6, ControlEffect DEF Ping, Echo, server
      <3> QED
        BY <3>1, <3>2 DEF ServerType, loop
    <2>7. CASE Recv(t)
      <3>1. /\ inbox # <<>> /\ inbox' = Tail(inbox)
            /\ UNCHANGED <<loop, pinged, link, opened, unfinished>>
        BY <2>7 DEF Recv
      <3> QED
        BY <3>1 DEF ServerType, loop
    <2>8. CASE Poll(t)
      <3>1. /\ readSelect' \in {-1, 0, 1} /\ polled' = opened
            /\ UNCHANGED <<ping, server>>
        BY <2>8 DEF Poll
      <3> QED
        BY <3>1 DEF ServerType, ping, server
    <2>9. CASE Finish(t)
      <3>1. TransportClose /\ UNCHANGED <<loop, ping>>
        BY <2>9 DEF Finish
      <3> QED
        BY <3>1 DEF ServerType, TransportClose, loop, ping
    <2> QED
      BY <1>1, <2>1, <2>2, <2>3, <2>4, <2>5, <2>6, <2>7, <2>8, <2>9 DEF Task
  <1>2. ASSUME NEW w \in Writers, Write(w) PROVE ServerType'
    <2>1. UNCHANGED <<loop, ping>>
      BY <1>2 DEF Write
    <2>2. CASE Send(w) \/ LockToSend(w) \/ LockTimesOut(w) \/ AbortEnds(w)
      <3>1. UNCHANGED server
        BY <2>2 DEF Send, LockToSend, LockTimesOut, AbortEnds
      <3> QED
        BY <2>1, <3>1 DEF ServerType, loop, ping, server
    <2>3. CASE SendFrame(w)
      <3>1. UNCHANGED <<link, opened, inbox>> /\ unfinished' \in {unfinished, w, None}
        BY <2>3, ControlEffect DEF SendFrame
      <3> QED
        BY <2>1, <3>1 DEF ServerType, loop, ping
    <2>4. CASE SendFails(w)
      <3>1. LostOrKept
        BY <2>4, Lost DEF SendFails
      <3> QED
        BY <2>1, <3>1, LostType DEF ping
    <2> QED
      BY <1>2, <2>2, <2>3, <2>4 DEF Write
  <1>3. ASSUME OwnerNext PROVE ServerType'
    <2>1. UNCHANGED <<loop, ping>>
      BY <1>3 DEF OwnerNext
    <2>2. TransportClose \/ UNCHANGED server
      BY <1>3 DEF OwnerNext, OwnerReturns, Start, Stop, Close, CloseGivesUp,
                  Destroy, StartClear, StopReturns, CloseBit, CloseReturns,
                  StopToFree, FreeAfterStop
    <2> QED
      BY <2>1, <2>2, Lost, LostType DEF ping
  <1>4. CASE Environment
    <2>1. UNCHANGED <<loop, ping, opened, unfinished>>
      BY <1>4 DEF Environment
    <2>2. CASE ServerSends
      <3>1. /\ link' = link
            /\ \E frame \in {"DATA", "CUT"} : inbox' = Append(inbox, frame)
        BY <2>2 DEF ServerSends, SendToClient
      <3> QED
        BY <2>1, <3>1 DEF ServerType, loop, ping
    <2>3. CASE ServerPongs
      <3>1. link' = link /\ inbox' = Append(inbox, "PONG")
        BY <2>3 DEF ServerPongs, SendToClient
      <3> QED
        BY <2>1, <3>1 DEF ServerType, loop, ping
    <2>4. CASE ServerClosing
      <3>1. link' = "closing" /\ inbox' = Append(inbox, "CLOSE")
        BY <2>4 DEF ServerClosing, SendToClient
      <3> QED
        BY <2>1, <3>1 DEF ServerType, loop, ping
    <2>5. CASE RestArrives
      <3>1. /\ link' = link /\ inbox # <<>>
            /\ inbox' = [inbox EXCEPT ![1] = "DATA"]
        BY <2>5 DEF RestArrives
      <3> QED
        BY <2>1, <3>1 DEF ServerType, loop, ping
    <2>6. CASE LinkFails
      <3>1. link' \in {"silent", "gone"} /\ inbox' = inbox
        BY <2>6 DEF LinkFails
      <3> QED
        BY <2>1, <3>1 DEF ServerType, loop, ping
    <2> QED
      BY <1>4, <2>2, <2>3, <2>4, <2>5, <2>6 DEF Environment
  <1>5. CASE Tick \/ UNCHANGED vars
    <2>1. UNCHANGED <<loop, pinged, server>>
      BY <1>5 DEF Tick, vars, ping
    <2> QED
      BY <2>1 DEF ServerType, loop, server
  <1> QED
    BY <1>1, <1>2, <1>3, <1>4, <1>5 DEF Next

IInv == TypeOK /\ LockInv

LEMMA NextCorrect == IInv /\ [Next]_vars => IInv'
  BY FlagsStep, ThreadsStep, ClockStep, ServerStep DEF IInv, TypeOK

LEMMA Correct == Spec => []IInv
  BY InitCorrect, NextCorrect, PTL DEF Spec, IInv

\* Every variable of the client has its type in every reachable state.
THEOREM TypeCorrect == Spec => []TypeOK
  <1>1. IInv => TypeOK
    BY DEF IInv
  <1> QED
    BY <1>1, Correct, PTL

-----------------------------------------------------------------------------
(* Messages are not mixed.                                                 *)

\* A message the server has begun to assemble is that of a sender, which has
\* frames of it left and so holds the lock; and a sender with a message half
\* sent finds the server assembling it.  Neither is said of a connection that
\* is lost.
MessageInv ==
    /\ link = "up" /\ unfinished # None =>
          /\ unfinished \in Senders /\ pc[unfinished] = "sending"
          /\ left < Fragments
    /\ \A w \in Senders :
          link = "up" /\ pc[w] = "sending" /\ left < Fragments => unfinished = w
    /\ MessagesIntact

LEMMA LostMessage == LostOrKept => \/ link' = "none"
                                   \/ UNCHANGED <<link, unfinished>>
  BY DEF LostOrKept

\* What a step of the loop task leaves of the message: only connecting, with
\* the lock, makes the server forget it and goes on with a connection.
LEMMA TaskMessage ==
  ASSUME NEW t \in Tasks, Task(t)
  PROVE  \/ pc[t] = "work" /\ unfinished' = None
         \/ link' = "none"
         \/ UNCHANGED <<link, unfinished>>
  <1>1. CASE Check(t) \/ TakeLock(t) \/ NoPing(t) \/ SkipRead(t) \/ Idle(t)
               \/ After(t)
    BY <1>1 DEF Check, TakeLock, NoPing, SkipRead, Idle, After, client, server
  <1>2. CASE StopBit(t) \/ Closed(t) \/ Last(t) \/ Wait(t) \/ Begin(t) \/ Poll(t)
    BY <1>2 DEF StopBit, Closed, Last, Wait, Begin, Poll, server
  <1>3. CASE Connect(t)
    BY <1>3 DEF Connect, Work
  <1>4. CASE ConnectFails(t) \/ PollFailed(t) \/ PongTimesOut(t) \/ RecvFails(t)
    <2>1. AbortConnection
      BY <1>4 DEF ConnectFails, PollFailed, PongTimesOut, RecvFails
    <2> QED
      BY <2>1, AbortEffect, LostMessage
  <1>5. CASE Ping(t) \/ Echo(t)
    BY <1>5, ControlEffect DEF Ping, Echo, server
  <1>6. CASE Recv(t)
    BY <1>6 DEF Recv
  <1>7. CASE Finish(t)
    BY <1>7, Lost, LostMessage DEF Finish
  <1> QED
    BY <1>1, <1>2, <1>3, <1>4, <1>5, <1>6, <1>7 DEF Task

\* Only a sender's frame can mix messages.
LEMMA Kept ==
  ASSUME FlagsType, [Next]_vars,
         \A w \in Senders : ~(SendFrame(w) /\ Mixes(w))
  PROVE  MessagesIntact => MessagesIntact'
  <1> SUFFICES ASSUME garbled = FALSE PROVE garbled' = FALSE
    BY Zenon DEF MessagesIntact, FlagsType
  <1>1. ASSUME TransportClose PROVE garbled' = garbled
    BY <1>1 DEF TransportClose
  <1>2. ASSUME NEW frame, SendControl(frame) PROVE garbled' = garbled
    BY <1>2 DEF SendControl
  <1>3. ASSUME UNCHANGED server PROVE garbled' = garbled
    BY <1>3 DEF server
  <1>4. ASSUME AbortConnection PROVE garbled' = garbled
    BY <1>1, <1>3, <1>4 DEF AbortConnection
  <1>5. ASSUME NEW t \in Tasks, Task(t) PROVE garbled' = garbled
    <2>1. CASE Check(t) \/ TakeLock(t) \/ NoPing(t) \/ SkipRead(t) \/ Idle(t)
                 \/ After(t)
      BY <1>3, <2>1 DEF Check, TakeLock, NoPing, SkipRead, Idle, After, client
    <2>2. CASE StopBit(t) \/ Closed(t) \/ Last(t) \/ Wait(t) \/ Begin(t)
                 \/ Poll(t)
      BY <1>3, <2>2 DEF StopBit, Closed, Last, Wait, Begin, Poll
    <2>3. CASE ConnectFails(t) \/ PollFailed(t) \/ PongTimesOut(t)
                 \/ RecvFails(t)
      BY <1>4, <2>3 DEF ConnectFails, PollFailed, PongTimesOut, RecvFails
    <2>4. CASE Ping(t) \/ Echo(t)
      BY <1>2, <1>3, <2>4 DEF Ping, Echo
    <2>5. CASE Connect(t) \/ Recv(t)
      BY <2>5 DEF Connect, Recv
    <2>6. CASE Finish(t)
      BY <1>1, <2>6 DEF Finish
    <2> QED
      BY <1>5, <2>1, <2>2, <2>3, <2>4, <2>5, <2>6 DEF Task
  <1>6. ASSUME NEW w \in Writers, Write(w) PROVE garbled' = FALSE
    <2>1. CASE Send(w) \/ LockToSend(w) \/ LockTimesOut(w) \/ AbortEnds(w)
      BY <1>3, <2>1 DEF Send, LockToSend, LockTimesOut, AbortEnds
    <2>2. CASE SendFails(w)
      BY <1>1, <1>3, <2>2 DEF SendFails
    <2>3. CASE SendFrame(w) /\ w = Owner
      BY <1>2, <2>3 DEF SendFrame
    <2>4. CASE SendFrame(w) /\ w # Owner
      <3>1. garbled' = (garbled \/ Mixes(w))
        BY <2>4 DEF SendFrame
      <3>2. ~Mixes(w)
        BY <2>4 DEF Writers
      <3> QED
        BY <3>1, <3>2
    <2> QED
      BY <1>6, <2>1, <2>2, <2>3, <2>4 DEF Write
  <1>7. ASSUME OwnerNext PROVE garbled' = garbled
    <2>1. TransportClose \/ UNCHANGED server
      BY <1>7 DEF OwnerNext, OwnerReturns, Start, Stop, Close, CloseGivesUp,
                  Destroy, StartClear, StopReturns, CloseBit, CloseReturns,
                  StopToFree, FreeAfterStop
    <2> QED
      BY <1>1, <1>3, <2>1
  <1>8. CASE Environment
    BY <1>8 DEF Environment
  <1>9. CASE Tick \/ UNCHANGED vars
    BY <1>3, <1>9 DEF Tick, vars
  <1> QED
    BY <1>5, <1>6, <1>7, <1>8, <1>9 DEF Next

LEMMA MessageStep ==
  ASSUME IInv, MessageInv, [Next]_vars
  PROVE  MessageInv'
  <1> USE Disjoint, Numbers
  <1>1. /\ pc \in [Threads -> Places] /\ left \in 0 .. Fragments
        /\ Senders \subseteq Threads /\ Tasks \subseteq Threads
        /\ Owner \in Threads
    BY DEF IInv, TypeOK, ThreadsType, Threads, Writers
  <1>2. \A w \in Writers : pc[w] = "sending" => lock = w /\ left >= 1
    BY DEF IInv, LockInv
  <1>3. \A w \in Senders : ~(SendFrame(w) /\ Mixes(w))
    BY <1>1, <1>2 DEF MessageInv, SendFrame, Mixes
  <1>4. MessagesIntact'
    BY <1>3, Kept DEF MessageInv, IInv, TypeOK
  \* An unfinished message is kept by a step that moves none of the senders.
  <1>5. ASSUME left' = left, \A w \in Senders : pc'[w] = pc[w],
               \/ link' # "up"
               \/ link = "up" /\ unfinished' = unfinished
        PROVE  MessageInv'
    BY <1>4, <1>5 DEF MessageInv
  <1>6. ASSUME NEW t \in Tasks, Task(t) PROVE MessageInv'
    <2>1. PICK place \in InLoop \union {"none"} : left' = left /\ Goto(t, place)
      BY <1>6, TaskMoves DEF IInv, TypeOK
    <2>2. \A w \in Senders : pc'[w] = pc[w]
      BY <1>1, <2>1 DEF Goto
    <2>3. CASE pc[t] = "work" /\ unfinished' = None
      <3>1. \A w \in Senders : pc[w] # "sending"
        BY <1>2, <2>3 DEF IInv, LockInv
      <3> QED
        BY <1>4, <2>1, <2>2, <2>3, <3>1 DEF MessageInv
    <2>4. CASE link' = "none" \/ UNCHANGED <<link, unfinished>>
      BY <1>5, <2>1, <2>2, <2>4
    <2> QED
      BY <1>6, <2>3, <2>4, TaskMessage
  <1>7. ASSUME NEW w \in Writers, Write(w) PROVE MessageInv'
    <2>1. w \in Threads
      BY DEF Threads
    <2>2. CASE Send(w)
      <3>1. pc[w] = "idle" /\ Goto(w, "locking") /\ left' = left
            /\ UNCHANGED <<link, unfinished>>
        BY <2>2 DEF Send, server
      <3>2. pc' = [pc EXCEPT ![w] = "locking"]
        BY <3>1 DEF Goto
      <3> QED
        BY <1>1, <1>4, <2>1, <3>1, <3>2 DEF MessageInv
    <2>7. CASE LockTimesOut(w)
      <3>1. /\ pc[w] = "locking" /\ left' = left /\ UNCHANGED <<link, unfinished>>
            /\ \E place \in {"idle", "closebit"} :
                  pc' = [pc EXCEPT ![w] = place]
        BY <2>7 DEF LockTimesOut, Done, Goto, server
      <3> QED
        BY <1>1, <1>4, <2>1, <3>1 DEF MessageInv
    <2>3. CASE LockToSend(w)
      <3>1. /\ lock = None /\ left' = Frames(w) /\ UNCHANGED <<link, unfinished>>
            /\ pc' = [pc EXCEPT ![w] = "sending"]
        BY <2>3 DEF LockToSend, Goto, server
      <3>2. \A u \in Senders : pc[u] # "sending"
        BY <1>2, <3>1 DEF Threads
      <3>3. link = "up" => unfinished = None
        BY <3>2 DEF MessageInv
      <3>4. \A u \in Senders : pc'[u] = "sending" => left' = Fragments
        BY <1>1, <2>1, <3>1, <3>2 DEF Frames
      <3> QED
        BY <1>1, <1>4, <3>1, <3>3, <3>4 DEF MessageInv
    <2>4. CASE SendFrame(w)
      <3>1. pc[w] = "sending" /\ left' = left - 1 /\ lock = w /\ left >= 1
        BY <1>2, <2>4 DEF SendFrame
      <3>2. \A u \in Senders : u # w => pc[u] # "sending"
        BY <1>2, <3>1
      <3>3. \A u \in Threads : u # w => pc'[u] = pc[u]
        BY <1>1, <2>1, <2>4 DEF SendFrame, UnlockAtEnd, Unlock, Done, Goto
      <3>4. CASE w = Owner
        <4>1. UNCHANGED <<link, unfinished>>
          BY <2>4, <3>4, ControlEffect DEF SendFrame
        <4>2. \A u \in Senders : pc[u] # "sending" /\ pc'[u] # "sending"
          BY <1>1, <3>2, <3>3, <3>4
        <4> QED
          BY <1>4, <4>1, <4>2 DEF MessageInv
      <3>5. CASE w # Owner /\ left > 1
        <4>1. unfinished' = w /\ pc' = pc /\ link' = link
          BY <2>4, <3>5 DEF SendFrame, UnlockAtEnd
        <4> QED
          BY <1>1, <1>4, <3>1, <3>2, <3>5, <4>1 DEF MessageInv, Writers
      <3>6. CASE w # Owner /\ ~(left > 1)
        <4>1. unfinished' = None /\ Goto(w, "idle")
          BY <2>4, <3>6 DEF SendFrame, UnlockAtEnd, Unlock, Done
        <4>2. \A u \in Senders : pc'[u] # "sending"
          BY <1>1, <2>1, <3>2, <3>3, <4>1 DEF Goto
        <4> QED
          BY <1>4, <4>1, <4>2 DEF MessageInv
      <3> QED
        BY <3>4, <3>5, <3>6
    <2>5. CASE SendFails(w)
      <3>1. link' # "up"
        <4>1. link # "up" /\ (TransportClose \/ UNCHANGED server)
          BY <2>5 DEF SendFails
        <4>2. link' = "none" \/ link' = link
          BY <4>1, Lost DEF LostOrKept
        <4> QED
          BY <4>1, <4>2
      <3> QED
        BY <1>4, <3>1 DEF MessageInv
    <2>6. CASE AbortEnds(w)
      <3>1. /\ pc[w] = "aborting" /\ left' = left /\ UNCHANGED <<link, unfinished>>
            /\ \E place \in {"idle", "closebit"} :
                  pc' = [pc EXCEPT ![w] = place]
        BY <2>6 DEF AbortEnds, Unlock, Done, Goto, server
      <3> QED
        BY <1>1, <1>4, <2>1, <3>1 DEF MessageInv
    <2> QED
      BY <1>7, <2>2, <2>3, <2>4, <2>5, <2>6, <2>7 DEF Write
  <1>8. ASSUME OwnerNext PROVE MessageInv'
    <2>1. left' = left
      BY <1>8 DEF OwnerNext
    <2>2. CASE Start
      BY <1>4, <2>2 DEF MessageInv, Start, TransportClose
    <2>3. ASSUME NEW place, Goto(Owner, place), UNCHANGED server
          PROVE  MessageInv'
      <3>1. \A w \in Senders : pc'[w] = pc[w]
        BY <1>1, <2>3 DEF Goto
      <3>2. UNCHANGED <<link, unfinished>>
        BY <2>3 DEF server
      <3> QED
        BY <1>5, <2>1, <3>1, <3>2 DEF MessageInv
    <2>4. CASE Stop \/ Close \/ CloseGivesUp \/ Destroy
      BY <2>3, <2>4 DEF Stop, Close, CloseGivesUp, Destroy, Then
    <2>5. CASE OwnerReturns
      BY <2>3, <2>5 DEF OwnerReturns, StartClear, StopReturns, CloseBit,
           CloseReturns, StopToFree, FreeAfterStop, Then
    <2> QED
      BY <1>8, <2>2, <2>4, <2>5 DEF OwnerNext
  <1>9. CASE Environment
    <2>1. UNCHANGED <<pc, left, unfinished>>
      BY <1>9 DEF Environment
    <2>2. link' # "up" \/ link = "up"
      BY <1>9 DEF Environment, ServerSends, ServerPongs, ServerClosing,
                  RestArrives, LinkFails
    <2> QED
      BY <1>5, <2>1, <2>2
  <1>10. CASE Tick \/ UNCHANGED vars
    <2>1. UNCHANGED <<pc, left, link, unfinished>>
      BY <1>10 DEF Tick, vars, server
    <2> QED
      BY <1>4, <2>1 DEF MessageInv
  <1> QED
    BY <1>6, <1>7, <1>8, <1>9, <1>10 DEF Next

\* The frames of two messages are never mixed on a connection, with any number
\* of senders and frames: what the lock held over a whole message is for.
THEOREM MessagesStayIntact == Spec => []MessagesIntact
  <1>1. Init => MessageInv
    BY Disjoint DEF Init, MessageInv, MessagesIntact, Threads, Writers
  <1>2. IInv /\ MessageInv /\ [Next]_vars => MessageInv'
    BY MessageStep
  <1>3. MessageInv => MessagesIntact
    BY DEF MessageInv
  <1> QED
    BY <1>1, <1>2, <1>3, Correct, PTL DEF Spec

-----------------------------------------------------------------------------
(* Pongs belong to the connection.                                         *)

PongInv == waitPong => pinged = opened

LEMMA PongStep ==
  ASSUME PongInv, [Next]_vars
  PROVE  PongInv'
  <1>1. ASSUME waitPong' => waitPong, UNCHANGED <<pinged, opened>> PROVE PongInv'
    BY <1>1 DEF PongInv
  <1>2. ASSUME NEW t \in Tasks, Task(t) PROVE PongInv'
    <2>1. CASE Check(t) \/ TakeLock(t) \/ NoPing(t) \/ SkipRead(t) \/ Idle(t)
                 \/ After(t)
      BY <1>1, <2>1 DEF Check, TakeLock, NoPing, SkipRead, Idle, After, client,
           ping, server
    <2>2. CASE StopBit(t) \/ Closed(t) \/ Last(t) \/ Wait(t) \/ Begin(t)
                 \/ Poll(t)
      BY <1>1, <2>2 DEF StopBit, Closed, Last, Wait, Begin, Poll, ping, server
    <2>3. CASE Connect(t)
      BY <2>3 DEF Connect, ForgetPong, PongInv
    <2>4. CASE ConnectFails(t) \/ PollFailed(t) \/ PongTimesOut(t)
                 \/ RecvFails(t)
      <3>1. AbortConnection /\ UNCHANGED <<waitPong, pinged>>
        BY <2>4 DEF ConnectFails, PollFailed, PongTimesOut, RecvFails, ping
      <3> QED
        BY <1>1, <3>1, AbortEffect DEF LostOrKept
    <2>5. CASE Ping(t)
      <3>1. opened' = opened
        BY <2>5, ControlEffect DEF Ping, server
      <3>2. pinged' = opened \/ UNCHANGED <<waitPong, pinged>>
        BY <2>5 DEF Ping
      <3> QED
        BY <1>1, <3>1, <3>2 DEF PongInv
    <2>6. CASE Echo(t)
      BY <1>1, <2>6, ControlEffect DEF Echo, server, ping
    <2>7. CASE Recv(t)
      BY <1>1, <2>7 DEF Recv
    <2>8. CASE Finish(t)
      BY <1>1, <2>8 DEF Finish, TransportClose, ping
    <2> QED
      BY <1>2, <2>1, <2>2, <2>3, <2>4, <2>5, <2>6, <2>7, <2>8 DEF Task
  <1>3. ASSUME NEW w \in Writers, Write(w) PROVE PongInv'
    <2>1. UNCHANGED <<waitPong, pinged>>
      BY <1>3 DEF Write, ping
    <2>2. opened' = opened
      BY <1>3, ControlEffect, Lost DEF Write, Send, LockToSend, LockTimesOut,
           SendFrame, SendFails, AbortEnds, server, LostOrKept
    <2> QED
      BY <1>1, <2>1, <2>2
  <1>4. ASSUME OwnerNext PROVE PongInv'
    <2>1. UNCHANGED <<waitPong, pinged>>
      BY <1>4 DEF OwnerNext, ping
    <2>2. TransportClose \/ UNCHANGED server
      BY <1>4 DEF OwnerNext, OwnerReturns, Start, Stop, Close, CloseGivesUp,
                  Destroy, StartClear, StopReturns, CloseBit, CloseReturns,
                  StopToFree, FreeAfterStop
    <2> QED
      BY <1>1, <2>1, <2>2, Lost DEF LostOrKept
  <1>5. CASE Environment \/ Tick \/ UNCHANGED vars
    BY <1>1, <1>5 DEF Environment, Tick, vars, ping, server
  <1> QED
    BY <1>2, <1>3, <1>4, <1>5 DEF Next

\* A connected client never waits for the pong of a ping that an earlier
\* connection was sent, however connections are lost and made again.
THEOREM PongsBelong == Spec => []PongOfThisConnection
  <1>1. Init => PongInv
    BY DEF Init, PongInv
  <1>2. PongInv /\ [Next]_vars => PongInv'
    BY PongStep
  <1>3. PongInv => PongOfThisConnection
    BY DEF PongInv, PongOfThisConnection
  <1> QED
    BY <1>1, <1>2, <1>3, PTL DEF Spec

-----------------------------------------------------------------------------
(* The handler's flag.                                                     *)

\* The flag follows the state whoever holds the lock: the thread that closes or
\* makes a connection changes both before it lets go of it.
FlagInv == /\ state = "CONNECTED" => flag = TRUE
           /\ state = "WAIT_TIMEOUT" => flag = FALSE

LEMMA FlagStep ==
  ASSUME FlagsType, FlagInv, [Next]_vars
  PROVE  FlagInv'
  <1>1. ASSUME flag' = flag, state' \in {state, "UNKNOW", "INIT", "CLOSING"}
        PROVE  FlagInv'
    BY <1>1 DEF FlagInv
  <1>2. ASSUME Disconnect PROVE FlagInv'
    <2>1. state' \in {"WAIT_TIMEOUT", "UNKNOW"}
      BY <1>2 DEF Disconnect, ConnectionLost
    <2>2. flag' = FALSE
      BY <1>2 DEF Disconnect, HandleEvent
    <2> QED
      BY <2>1, <2>2 DEF FlagInv
  <1>3. ASSUME AbortConnection PROVE FlagInv'
    <2>1. CASE TransportClose /\ Disconnect
      BY <1>2, <2>1
    <2>2. CASE UNCHANGED <<status, server>>
      BY <1>1, <2>2 DEF status
    <2> QED
      BY <1>3, <2>1, <2>2 DEF AbortConnection
  <1>4. ASSUME NEW t \in Tasks, Task(t) PROVE FlagInv'
    <2>1. CASE Check(t) \/ TakeLock(t) \/ NoPing(t) \/ SkipRead(t) \/ Idle(t)
                 \/ After(t)
      BY <1>1, <2>1 DEF Check, TakeLock, NoPing, SkipRead, Idle, After, client,
           status
    <2>2. CASE StopBit(t) \/ Poll(t) \/ Finish(t) \/ Ping(t) \/ Echo(t)
      BY <1>1, <2>2 DEF StopBit, Poll, Finish, Ping, Echo, status
    <2>3. CASE Begin(t) \/ Closed(t) \/ Last(t) \/ Wait(t) \/ Recv(t)
      BY <1>1, <2>3 DEF Begin, Closed, Last, Wait, Recv
    <2>4. CASE Connect(t)
      BY <2>4 DEF Connect, HandleEvent, FlagInv
    <2>5. CASE ConnectFails(t) \/ PollFailed(t) \/ PongTimesOut(t)
                 \/ RecvFails(t)
      BY <1>3, <2>5 DEF ConnectFails, PollFailed, PongTimesOut, RecvFails
    <2> QED
      BY <1>4, <2>1, <2>2, <2>3, <2>4, <2>5 DEF Task
  <1>5. ASSUME NEW w \in Writers, Write(w) PROVE FlagInv'
    <2>1. CASE Send(w) \/ LockToSend(w) \/ LockTimesOut(w) \/ SendFrame(w)
                 \/ SendFails(w)
      BY <1>1, <2>1 DEF Send, LockToSend, LockTimesOut, SendFrame, SendFails,
           status
    <2>2. CASE AbortEnds(w)
      BY <1>2, <2>2 DEF AbortEnds
    <2> QED
      BY <1>5, <2>1, <2>2 DEF Write
  <1>6. ASSUME OwnerNext PROVE FlagInv'
    <2>1. flag' = flag
      BY <1>6 DEF OwnerNext
    <2>2. state' \in {state, "UNKNOW"}
      BY <1>6 DEF OwnerNext, OwnerReturns, Start, Stop, Close, CloseGivesUp,
                  Destroy, StartClear, StopReturns, CloseBit, CloseReturns,
                  StopToFree, FreeAfterStop
    <2> QED
      BY <1>1, <2>1, <2>2
  <1>7. CASE Environment \/ Tick \/ UNCHANGED vars
    BY <1>1, <1>7 DEF Environment, Tick, vars, status
  <1> QED
    BY <1>4, <1>5, <1>6, <1>7 DEF Next

\* The application's flag is set while the client is connected and cleared
\* while it waits to connect again, whichever thread lost the connection.
THEOREM FlagKept == Spec => []FlagFollows
  <1>1. Init => FlagInv
    BY DEF Init, FlagInv
  <1>2. IInv /\ FlagInv /\ [Next]_vars => FlagInv'
    BY FlagStep DEF IInv, TypeOK
  <1>3. FlagInv => FlagFollows
    BY DEF FlagInv, FlagFollows
  <1> QED
    BY <1>1, <1>2, <1>3, Correct, PTL DEF Spec

-----------------------------------------------------------------------------
(* One loop task.                                                          *)

\* One task is in its loop, none where its owner has seen the last one stop;
\* and the bit, once the owner has cleared that of the task before, says that
\* it ends.
LoopInv ==
    /\ settled \in BOOLEAN
    /\ OneLoopTask
    /\ settled = TRUE => \A t \in Tasks : pc[t] \notin InLoop
    /\ "STOPPED" \in bits /\ pc[Owner] # "startclear" =>
          \A t \in Tasks : pc[t] \notin InLoop \ {"last"}

LEMMA LoopStep ==
  ASSUME Prompt = TRUE, Careful = TRUE, IInv, LoopInv, [Next]_vars
  PROVE  LoopInv'
  <1> USE Disjoint, Numbers
  <1>1. /\ pc \in [Threads -> Places]
        /\ Tasks \subseteq Threads /\ Owner \in Threads
        /\ Owner \notin Tasks
    BY DEF IInv, TypeOK, ThreadsType, Threads, Writers
  \* A step that moves no task.
  <1>2. ASSUME settled' = settled, \A t \in Tasks : pc'[t] = pc[t],
               "STOPPED" \in bits' /\ pc'[Owner] # "startclear" =>
                  "STOPPED" \in bits /\ pc[Owner] # "startclear"
        PROVE  LoopInv'
    BY <1>2 DEF LoopInv, OneLoopTask
  \* The owner has seen the task end.
  <1>3. ASSUME TaskStopped, pc[Owner] # "startclear",
               bits' = bits, Goto(Owner, "idle"), settled' = TRUE
        PROVE  LoopInv'
    <2>1. \A t \in Tasks : pc[t] \notin InLoop
      BY <1>3 DEF TaskStopped, LoopInv
    <2>2. \A t \in Tasks : pc'[t] = pc[t]
      BY <1>1, <1>3 DEF Goto
    <2> QED
      BY <1>3, <2>1, <2>2 DEF LoopInv, OneLoopTask
  <1>4. ASSUME NEW t \in Tasks, Task(t) PROVE LoopInv'
    <2>1. /\ pc[t] \in InLoop
          /\ \E place \in InLoop \union {"none"} :
                /\ pc[t] = "last" => place = "none"
                /\ "STOPPED" \in bits' => "STOPPED" \in bits \/ place = "last"
                /\ Goto(t, place)
      BY <1>4, TaskMoves DEF IInv, TypeOK
    <2>2. PICK place \in InLoop \union {"none"} :
                /\ pc[t] = "last" => place = "none"
                /\ "STOPPED" \in bits' => "STOPPED" \in bits \/ place = "last"
                /\ Goto(t, place)
      BY <2>1
    <2>3. /\ pc'[t] = place /\ pc'[Owner] = pc[Owner]
          /\ \A u \in Tasks : u # t => pc'[u] = pc[u]
      BY <1>1, <2>2 DEF Goto
    <2>4. settled' = FALSE
      BY <1>4, <2>1 DEF Task, life, LoopInv
    <2>5. \A u \in Tasks : u # t => pc[u] \notin InLoop
      BY <2>1 DEF LoopInv, OneLoopTask
    <2>6. "STOPPED" \in bits' /\ pc'[Owner] # "startclear" => place \in {"last", "none"}
      BY <2>1, <2>2, <2>3 DEF LoopInv, InLoop
    <2> QED
      BY <2>1, <2>2, <2>3, <2>4, <2>5, <2>6 DEF LoopInv, OneLoopTask, InLoop
  <1>5. ASSUME NEW w \in Writers, Write(w) PROVE LoopInv'
    <2>1. UNCHANGED <<bits, settled>> /\ w \notin Tasks
      BY <1>5 DEF Write, life
    <2>2. \A t \in Tasks : pc'[t] = pc[t]
      BY <1>1, <1>5, <2>1 DEF Write, Send, LockToSend, LockTimesOut,
           SendFrame, SendFails, AbortEnds, UnlockAtEnd, Unlock, Done, Goto
    <2>3. pc[Owner] = "startclear" => pc'[Owner] = "startclear"
      BY <1>1, <1>5 DEF Write, Send, LockToSend, LockTimesOut,
           SendFrame, SendFails, AbortEnds, UnlockAtEnd, Unlock, Done, Goto
    <2> QED
      BY <1>2, <2>1, <2>2, <2>3
  <1>6. ASSUME OwnerNext PROVE LoopInv'
    <2>1. ASSUME NEW place, Goto(Owner, place), settled' = settled,
                 pc[Owner] # "startclear",
                 "STOPPED" \in bits' => "STOPPED" \in bits
          PROVE  LoopInv'
      BY <1>1, <1>2, <2>1 DEF Goto
    <2>2. CASE Start
      <3>1. settled = TRUE /\ settled' = FALSE
        BY <2>2 DEF Start, LoopInv
      <3>2. PICK t \in Tasks :
               pc' = [pc EXCEPT ![t] = "begin", ![Owner] = "startclear"]
        BY <2>2 DEF Start
      <3>3. /\ pc'[Owner] = "startclear"
            /\ \A u \in Tasks : u # t => pc'[u] = pc[u]
        BY <1>1, <3>2
      <3>4. \A u \in Tasks : pc[u] \notin InLoop
        BY <3>1 DEF LoopInv
      <3> QED
        BY <3>1, <3>3, <3>4 DEF LoopInv, OneLoopTask
    <2>3. CASE Stop \/ Close \/ CloseGivesUp
      BY <2>1, <2>3 DEF Stop, Close, CloseGivesUp, Then, At, Calls, life
    <2>4. CASE Destroy
      BY <2>1, <2>4 DEF Destroy, Then, At, Calls
    <2>5. CASE CloseBit \/ StopToFree
      BY <2>1, <2>5 DEF CloseBit, StopToFree, Then, At, life
    <2>6. CASE StartClear
      <3>1. bits' = {} /\ Goto(Owner, "idle") /\ settled' = settled
        BY <2>6 DEF StartClear, Then, life
      <3> QED
        BY <1>1, <1>2, <3>1 DEF Goto
    <2>7. CASE StopReturns \/ CloseReturns \/ FreeAfterStop
      BY <1>3, <2>7 DEF StopReturns, CloseReturns, FreeAfterStop, Then, At
    <2> QED
      BY <1>6, <2>2, <2>3, <2>4, <2>5, <2>6, <2>7 DEF OwnerNext, OwnerReturns
  <1>7. CASE Environment \/ Tick \/ UNCHANGED vars
    <2>1. UNCHANGED <<bits, pc, settled>>
      BY <1>7 DEF Environment, Tick, vars, life
    <2> QED
      BY <1>2, <2>1
  <1> QED
    BY <1>4, <1>5, <1>6, <1>7 DEF Next

LEMMA LoopCorrect ==
  ASSUME Prompt = TRUE, Careful = TRUE
  PROVE  Spec => []LoopInv
  <1>1. Init => LoopInv
    BY Disjoint DEF Init, LoopInv, OneLoopTask, Tasks, Threads, Writers, InLoop
  <1>2. IInv /\ LoopInv /\ [Next]_vars => LoopInv'
    BY LoopStep
  <1> QED
    BY <1>1, <1>2, Correct, PTL DEF Spec

\* There is one loop task at a time, whatever the owner calls, when it starts
\* a client again only after a successful stop and the task, which has said
\* that it ended, gets to its end first.
THEOREM OneLoop ==
  ASSUME Prompt = TRUE, Careful = TRUE
  PROVE  Spec => []OneLoopTask
  <1>1. LoopInv => OneLoopTask
    BY DEF LoopInv
  <1> QED
    BY <1>1, LoopCorrect, PTL

-----------------------------------------------------------------------------
(* The loop reads from the connection it polled.                           *)

\* What was sent on a connection is not there without it.
InboxInv == link = "none" => inbox = <<>>

Fresh == readSelect # 0 => polled = opened /\ link # "none"

\* A poll that found something is about the connection there is, from the
\* poll to the read, unless the client is no longer connected or a sender,
\* which then has the lock, is closing the connection.
ReadInv ==
    /\ \A t \in Tasks : pc[t] = "read" => Fresh
    /\ \A t \in Tasks :
          /\ pc[t] \in {"check", "lock", "work"} /\ state = "CONNECTED"
          /\ \A w \in Writers : pc[w] # "aborting"
          => Fresh

LEMMA InboxStep ==
  ASSUME InboxInv, [Next]_vars
  PROVE  InboxInv'
  <1>1. ASSUME LostOrKept PROVE InboxInv'
    BY <1>1 DEF InboxInv, LostOrKept
  <1>2. ASSUME UNCHANGED <<link, inbox>> PROVE InboxInv'
    BY <1>2 DEF InboxInv
  <1>3. ASSUME link' # "none" PROVE InboxInv'
    BY <1>3 DEF InboxInv
  <1>4. ASSUME NEW t \in Tasks, Task(t) PROVE InboxInv'
    <2>1. CASE Check(t) \/ TakeLock(t) \/ NoPing(t) \/ SkipRead(t) \/ Idle(t)
                 \/ After(t)
      BY <1>2, <2>1 DEF Check, TakeLock, NoPing, SkipRead, Idle, After, client,
           server
    <2>2. CASE StopBit(t) \/ Closed(t) \/ Last(t) \/ Wait(t) \/ Begin(t)
                 \/ Poll(t)
      BY <1>2, <2>2 DEF StopBit, Closed, Last, Wait, Begin, Poll, server
    <2>3. CASE ConnectFails(t) \/ PollFailed(t) \/ PongTimesOut(t)
                 \/ RecvFails(t)
      <3>1. AbortConnection
        BY <2>3 DEF ConnectFails, PollFailed, PongTimesOut, RecvFails
      <3> QED
        BY <1>1, <3>1, AbortEffect
    <2>4. CASE Ping(t) \/ Echo(t)
      BY <1>2, <2>4, ControlEffect DEF Ping, Echo, server
    <2>5. CASE Connect(t) \/ Recv(t)
      BY <1>3, <2>5 DEF Connect, Recv
    <2>6. CASE Finish(t)
      BY <1>1, <2>6, Lost DEF Finish
    <2> QED
      BY <1>4, <2>1, <2>2, <2>3, <2>4, <2>5, <2>6 DEF Task
  <1>5. ASSUME NEW w \in Writers, Write(w) PROVE InboxInv'
    <2>1. CASE Send(w) \/ LockToSend(w) \/ LockTimesOut(w) \/ AbortEnds(w)
      BY <1>2, <2>1 DEF Send, LockToSend, LockTimesOut, AbortEnds, server
    <2>2. CASE SendFrame(w)
      BY <1>2, <2>2, ControlEffect DEF SendFrame
    <2>3. CASE SendFails(w)
      BY <1>1, <2>3, Lost DEF SendFails
    <2> QED
      BY <1>5, <2>1, <2>2, <2>3 DEF Write
  <1>6. ASSUME OwnerNext PROVE InboxInv'
    <2>1. TransportClose \/ UNCHANGED server
      BY <1>6 DEF OwnerNext, OwnerReturns, Start, Stop, Close, CloseGivesUp,
                  Destroy, StartClear, StopReturns, CloseBit, CloseReturns,
                  StopToFree, FreeAfterStop
    <2> QED
      BY <1>1, <2>1, Lost
  <1>7. CASE Environment
    <2>1. (link' = link /\ link = "up") \/ link' # "none"
      BY <1>7 DEF Environment, ServerSends, SendToClient, ServerPongs,
                  ServerClosing, RestArrives, LinkFails
    <2> QED
      BY <1>3, <2>1
  <1>8. CASE Tick \/ UNCHANGED vars
    BY <1>2, <1>8 DEF Tick, vars, server
  <1> QED
    BY <1>4, <1>5, <1>6, <1>7, <1>8 DEF Next

LEMMA ReadStep ==
  ASSUME Careful = TRUE, IInv, LoopInv, InboxInv, ReadInv, [Next]_vars
  PROVE  ReadInv'
  <1> USE Disjoint
  <1>1. /\ pc \in [Threads -> Places]
        /\ Tasks \subseteq Threads /\ Writers \subseteq Threads
    BY DEF IInv, TypeOK, ThreadsType, Threads
  <1>2. /\ \A w \in Writers : pc[w] \in {"sending", "aborting"} => lock = w
        /\ \A t \in Tasks : pc[t] \in {"work", "read"} => lock = t
    BY DEF IInv, LockInv
  \* A step that moves no task and leaves the connection.
  <1>3. ASSUME UNCHANGED <<readSelect, polled, opened>>,
               link # "none" => link' # "none",
               state' = "CONNECTED" => state = "CONNECTED",
               \A t \in Tasks : pc'[t] = pc[t],
               \A w \in Writers :
                  pc[w] = "aborting" /\ state' = "CONNECTED" => pc'[w] = "aborting"
        PROVE  ReadInv'
    BY <1>3 DEF ReadInv, Fresh
  <1>4. ASSUME NEW t \in Tasks, Task(t) PROVE ReadInv'
    <2>1. pc[t] \in InLoop
      BY <1>4, TaskMoves DEF IInv, TypeOK
    <2>2. PICK place \in InLoop \union {"none"} : Goto(t, place)
      BY <1>4, TaskMoves DEF IInv, TypeOK
    <2>3. /\ pc'[t] = place /\ \A w \in Writers : pc'[w] = pc[w]
          /\ \A u \in Tasks : u # t => pc'[u] = pc[u]
      BY <1>1, <2>2 DEF Goto
    <2>4. \A u \in Tasks : u # t => pc'[u] \notin InLoop
      BY <2>1, <2>3 DEF LoopInv, OneLoopTask
    <2>5. ASSUME place \notin {"check", "lock", "work", "read"} PROVE ReadInv'
      BY <2>3, <2>4, <2>5 DEF ReadInv, InLoop
    <2>6. ASSUME place # "read", state' # "CONNECTED" PROVE ReadInv'
      BY <2>3, <2>4, <2>6 DEF ReadInv, InLoop
    <2>7. ASSUME Fresh' PROVE ReadInv'
      BY <2>7 DEF ReadInv
    <2>8. CASE Begin(t)
      BY <2>7, <2>8 DEF Begin, Fresh
    <2>9. CASE Check(t) \/ TakeLock(t)
      <3>1. /\ pc[t] \in {"check", "lock"} /\ place # "read"
            /\ UNCHANGED <<readSelect, polled, opened, link, state>>
        BY <2>3, <2>9, <1>1 DEF Check, TakeLock, client, status, loop, server,
             Step, Goto
      <3> QED
        BY <2>3, <2>4, <3>1 DEF ReadInv, Fresh, InLoop
    <2>10. CASE Ping(t) \/ NoPing(t)
      <3>1. /\ pc[t] = "work" /\ state = "CONNECTED"
            /\ UNCHANGED <<readSelect, polled>>
        BY <2>10 DEF Ping, NoPing, Work, client, loop
      <3>2. UNCHANGED <<link, opened>>
        BY <2>10, ControlEffect DEF Ping, NoPing, client, server
      <3>3. \A w \in Writers : pc[w] # "aborting"
        BY <1>2, <3>1
      <3>4. Fresh
        BY <3>1, <3>3 DEF ReadInv
      <3> QED
        BY <2>7, <3>1, <3>2, <3>4 DEF Fresh
    <2>11. CASE \/ Connect(t) \/ ConnectFails(t) \/ PongTimesOut(t)
                \/ SkipRead(t) \/ Recv(t) \/ RecvFails(t) \/ Wait(t) \/ Echo(t)
                \/ Idle(t)
      <3>1. EndWork(t)
        BY <2>11 DEF Connect, ConnectFails, PongTimesOut, SkipRead, Recv,
             RecvFails, Wait, Echo, Idle
      <3>2. place = "after"
        BY <1>1, <2>3, <3>1 DEF EndWork, Goto
      <3> QED
        BY <2>5, <3>2
    <2>12. CASE After(t)
      <3>1. \/ place \in {"poll", "closed"}
            \/ place = "check" /\ state' # "CONNECTED"
        BY <1>1, <2>3, <2>12 DEF After, Step, Goto, IsConnected, client, status
      <3> QED
        BY <2>5, <2>6, <3>1
    <2>13. CASE Poll(t)
      <3>1. UNCHANGED <<link, opened, inbox>>
        BY <2>13 DEF Poll, server
      <3>2. /\ polled' = opened
            /\ readSelect' = 0 => link \notin {"none", "gone"}
            /\ readSelect' = 1 => inbox # <<>> \/ link = "gone"
            /\ readSelect' \in {-1, 0, 1}
        BY <2>13 DEF Poll
      <3>3. CASE readSelect' = -1
        <4>1. place = "pollerr"
          BY <1>1, <2>3, <2>13, <3>3 DEF Poll, Step, Goto
        <4> QED
          BY <2>5, <4>1
      <3>4. CASE readSelect' # -1
        BY <2>7, <3>1, <3>2, <3>4 DEF Fresh, InboxInv
      <3> QED
        BY <3>3, <3>4
    <2>14. CASE PollFailed(t)
      <3>1. state' # "CONNECTED"
        BY <2>14 DEF PollFailed, AbortConnection, Disconnect, ConnectionLost,
             status
      <3>2. place = "check"
        BY <1>1, <2>3, <2>14 DEF PollFailed, Step, Goto
      <3> QED
        BY <2>6, <3>1, <3>2
    <2>15. CASE Closed(t) \/ Finish(t) \/ StopBit(t) \/ Last(t)
      <3>1. place \in {"finish", "stopbit", "last", "none"}
        BY <1>1, <2>3, <2>15 DEF Closed, Finish, StopBit, Last, Step, Goto
      <3> QED
        BY <2>5, <3>1
    <2> QED
      BY <1>4, <2>8, <2>9, <2>10, <2>11, <2>12, <2>13, <2>14, <2>15 DEF Task
  <1>5. ASSUME NEW w \in Writers, Write(w) PROVE ReadInv'
    <2>1. UNCHANGED <<readSelect, polled>>
      BY <1>5 DEF Write, loop
    <2>2. /\ \A t \in Tasks : pc'[t] = pc[t]
          /\ \A v \in Writers : v # w => pc'[v] = pc[v]
      BY <1>1, <1>5 DEF Write, Send, LockToSend, LockTimesOut, SendFrame,
           SendFails, AbortEnds, UnlockAtEnd, Unlock, Done, Goto
    <2>3. CASE Send(w) \/ LockToSend(w) \/ LockTimesOut(w)
      <3>1. pc[w] \in {"idle", "locking"} /\ UNCHANGED <<link, opened, state>>
        BY <2>3 DEF Send, LockToSend, LockTimesOut, server, status
      <3> QED
        BY <1>3, <2>1, <2>2, <3>1
    <2>4. CASE SendFrame(w)
      <3>1. pc[w] = "sending" /\ state' = state
        BY <2>4 DEF SendFrame, status
      <3>2. UNCHANGED <<link, opened>>
        BY <2>4, ControlEffect DEF SendFrame
      <3> QED
        BY <1>3, <2>1, <2>2, <3>1, <3>2
    <2>5. CASE SendFails(w)
      <3>1. pc[w] = "sending" /\ state' = state
        BY <2>5 DEF SendFails, status
      <3>2. CASE state = "UNKNOW"
        <4>1. UNCHANGED <<link, opened>>
          BY <2>5, <3>2 DEF SendFails, server
        <4> QED
          BY <1>3, <2>1, <2>2, <3>1, <3>2, <4>1
      <3>3. CASE state # "UNKNOW"
        <4>1. pc'[w] = "aborting"
          BY <1>1, <2>5, <3>3 DEF SendFails, Goto
        <4>2. \A t \in Tasks : pc'[t] # "read"
          BY <1>2, <2>2, <3>1
        <4> QED
          BY <4>1, <4>2 DEF ReadInv
      <3> QED
        BY <3>2, <3>3
    <2>6. CASE AbortEnds(w)
      <3>1. UNCHANGED <<link, opened>> /\ state' # "CONNECTED"
        BY <2>6 DEF AbortEnds, Disconnect, ConnectionLost, server
      <3> QED
        BY <1>3, <2>1, <2>2, <3>1
    <2> QED
      BY <1>5, <2>3, <2>4, <2>5, <2>6 DEF Write
  <1>6. ASSUME OwnerNext PROVE ReadInv'
    <2>1. UNCHANGED <<readSelect, polled>> /\ state' \in {state, "UNKNOW"}
      BY <1>6 DEF OwnerNext, loop, OwnerReturns, Start, Stop, Close,
           CloseGivesUp, Destroy, StartClear, StopReturns, CloseBit,
           CloseReturns, StopToFree, FreeAfterStop
    <2>2. CASE Start
      <3>1. \A t \in Tasks : pc[t] \notin InLoop
        BY <2>2 DEF Start, LoopInv
      <3>2. PICK t \in Tasks :
               pc' = [pc EXCEPT ![t] = "begin", ![Owner] = "startclear"]
        BY <2>2 DEF Start
      <3>3. \A u \in Tasks : pc'[u] \notin {"check", "lock", "work", "read"}
        BY <1>1, <3>1, <3>2 DEF InLoop
      <3> QED
        BY <3>3 DEF ReadInv
    <2>3. ASSUME NEW place, Goto(Owner, place), pc[Owner] # "aborting",
                 UNCHANGED server
          PROVE  ReadInv'
      <3>1. /\ \A t \in Tasks : pc'[t] = pc[t]
            /\ \A w \in Writers : w # Owner => pc'[w] = pc[w]
        BY <1>1, <2>3 DEF Goto
      <3>2. UNCHANGED <<link, opened>>
        BY <2>3 DEF server
      <3> QED
        BY <1>3, <2>1, <2>3, <3>1, <3>2
    <2>4. CASE Stop \/ Close \/ CloseGivesUp \/ Destroy
      BY <2>3, <2>4 DEF Stop, Close, CloseGivesUp, Destroy, Then, At, Calls
    <2>5. CASE OwnerReturns
      BY <2>3, <2>5 DEF OwnerReturns, StartClear, StopReturns, CloseBit,
           CloseReturns, StopToFree, FreeAfterStop, Then, At
    <2> QED
      BY <1>6, <2>2, <2>4, <2>5 DEF OwnerNext
  <1>7. CASE Environment
    <2>1. UNCHANGED <<readSelect, polled, opened, pc, state>>
      BY <1>7 DEF Environment, loop, status
    <2>2. link # "none" => link' # "none"
      BY <1>7 DEF Environment, ServerSends, ServerPongs, ServerClosing,
                  RestArrives, LinkFails
    <2> QED
      BY <1>3, <2>1, <2>2
  <1>8. CASE Tick \/ UNCHANGED vars
    <2>1. UNCHANGED <<readSelect, polled, opened, pc, state, link>>
      BY <1>8 DEF Tick, vars, loop, server, status
    <2> QED
      BY <1>3, <2>1
  <1> QED
    BY <1>4, <1>5, <1>6, <1>7, <1>8 DEF Next

\* The loop only reads from the connection its last poll was about, although
\* it polls without the lock and senders close the connection under it.
THEOREM ReadsAreFresh ==
  ASSUME Prompt = TRUE, Careful = TRUE
  PROVE  Spec => []ReadFresh
  <1>1. Init => InboxInv /\ ReadInv
    BY Disjoint DEF Init, InboxInv, ReadInv, Tasks, Threads
  <1>2. IInv /\ LoopInv /\ InboxInv /\ ReadInv /\ [Next]_vars
           => InboxInv' /\ ReadInv'
    BY InboxStep, ReadStep
  <1>3. ReadInv => ReadFresh
    BY DEF ReadInv, Fresh, ReadFresh
  <1> QED
    BY <1>1, <1>2, <1>3, Correct, LoopCorrect, PTL DEF Spec
=============================================================================
