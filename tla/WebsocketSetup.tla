--------------------------- MODULE WebsocketSetup ---------------------------
(***************************************************************************)
(* What a WebSocket client owns: esp_websocket_client_init, set_uri,       *)
(* append_header, the transport start creates, and destroy.                *)
(*                                                                         *)
(* Every one of them is a script of allocations, any of which the memory   *)
(* may not suffice for.  A slot is a pointer of the client or of its       *)
(* configuration; it holds where its value comes from, "none" for NULL, or *)
(* "dangling" when the memory it points to has been freed.  What is then   *)
(* read or freed all the same is recorded: it may do no harm or end the    *)
(* program.                                                                *)
(***************************************************************************)
EXTENDS Naturals, Sequences

CONSTANTS Configs,  \* sets of fields the application may give to init
          Uris      \* sets of parts a URI may have

Fields == {"transport", "if_name", "uri", "host", "path", "username",
           "password", "headers"}
Parts  == {"scheme", "host", "path", "username", "password"}

ASSUME SetupAssumption == /\ Configs \subseteq SUBSET Fields
                          /\ Uris \subseteq SUBSET Parts

Slots == (Fields \ {"transport"}) \union Parts \union
           {"client", "event_handle", "lock", "config", "auth", "user_info",
            "rx_buffer", "tx_buffer", "status_bits",
            "transport_list", "parent", "ws"}

VARIABLES given,    \* the fields of the configuration given to init
          parts,    \* the parts of the URI being set
          authOf,   \* history: the credentials auth was made from
          slot,     \* what each pointer points to
          leaked,   \* history: slots whose memory can no longer be freed
          misused,  \* history: slots read or freed while they dangled
          call,     \* the call under way, "idle", or how the client ended:
                    \* "refused", "destroyed" or "crashed"
          script    \* what is left of the call

setupVars == <<given, parts, authOf, slot, leaked, misused, call, script>>

SetupTypeOK == /\ given \in SUBSET Fields /\ parts \in SUBSET Parts
               /\ slot \in [Slots -> {"none", "uri", "config", "default",
                                      "derived", "dangling"}]
               /\ authOf \in {"none", "uri", "config"} \X {"none", "uri", "config"}
               /\ leaked \subseteq Slots /\ misused \subseteq Slots
               /\ call \in {"init", "set_uri", "start", "idle",
                            "refused", "destroyed", "crashed"}
               /\ script \in Seq([what : Slots, from : {"uri", "config", "default",
                                                       "derived", "free"}])

-----------------------------------------------------------------------------
(* The scripts. *)

Alloc(what, from) == [what |-> what, from |-> from]

Block(what, from) == [i \in 1 .. Len(what) |-> Alloc(what[i], from)]

\* esp_websocket_client_set_uri; user_info is a local copy of a part of it.
SetUriScript == Block(<<"scheme", "host", "path", "user_info", "password",
                        "username">>, "uri") \o Block(<<"user_info">>, "free")

\* Mutant: the authorisation header is made before the password is known.
AuthFirst == Block(<<"host", "username">>, "config")
               \o Block(<<"auth">>, "derived")
               \o Block(<<"password", "uri", "path", "headers">>, "config")

\* esp_websocket_client_set_config
SetConfigScript == Block(<<"host", "username", "password">>, "config")
                     \o Block(<<"auth">>, "derived")
                     \o Block(<<"uri", "path", "headers">>, "config")

\* Mutant: there is no default scheme.
NoDefaultScheme == Block(<<"rx_buffer", "tx_buffer", "status_bits">>, "default")

LastBlocks == Block(<<"scheme", "rx_buffer", "tx_buffer", "status_bits">>,
                    "default")

\* Mutant: the configuration is set before the URI.
UriLast(fields) ==
    Block(<<"client", "event_handle">>, "default")
      \o Block(<<"if_name">>, "config")
      \o Block(<<"lock", "config">>, "default")
      \o Block(<<"scheme">>, "config")
      \o SetConfigScript
      \o (IF "uri" \in fields THEN SetUriScript ELSE <<>>)
      \o LastBlocks

\* esp_websocket_client_init
InitScript(fields) ==
    Block(<<"client", "event_handle">>, "default")
      \o Block(<<"if_name">>, "config")
      \o Block(<<"lock", "config">>, "default")
      \o Block(<<"scheme">>, "config")
      \o (IF "uri" \in fields THEN SetUriScript ELSE <<>>)
      \o SetConfigScript
      \o LastBlocks

\* esp_websocket_client_create_transport: the old list goes, with all that
\* has been added to it, before the new one is made.
TransportScript == Block(<<"ws", "parent", "transport_list">>, "free")
                     \o Block(<<"transport_list", "parent", "ws">>, "default")

\* Whether the code makes this allocation at all.
Wanted(a) ==
    CASE a.from = "uri"     -> IF a.what = "user_info" THEN "username" \in parts
                                                       ELSE a.what \in parts
      [] a.from = "config"  -> IF a.what = "scheme" THEN "transport" \in given
                                                    ELSE a.what \in given
      [] a.from = "default" -> slot[a.what] = "none"
      [] a.from = "derived" -> /\ slot["username"] # "none"
                               /\ slot["password"] # "none"
      [] OTHER              -> slot[a.what] # "none"

\* Mutant: the path of the URI is not freed when the configuration has one.
NeitherFreedFirst(a) == \/ a.from \in {"uri", "derived"}
                        \/ a.from = "config" /\ a.what \notin {"host", "path"}

\* Whether what the slot pointed to is freed first; set_config does not free
\* the host of the URI.
FreedFirst(a) == \/ a.from \in {"uri", "derived"}
                 \/ a.from = "config" /\ a.what # "host"

\* asprintf makes the scheme, the host and the path of a URI.
Formatted(a) == a.from = "uri" /\ a.what \in {"scheme", "host", "path"}

-----------------------------------------------------------------------------

SetupInit == /\ given \in Configs
             /\ parts \in (IF "uri" \in given THEN Uris ELSE {{}})
             /\ slot = [s \in Slots |-> "none"] /\ authOf = <<"none", "none">>
             /\ leaked = {} /\ misused = {}
             /\ call = "init" /\ script = InitScript(given)

Busy == script # <<>>
Now  == Head(script)
Rest == script' = Tail(script)

\* What is lost when the slot is given another value.
LostBy(a) == IF slot[a.what] \notin {"none", "dangling"} /\ ~FreedFirst(a)
                THEN {a.what} ELSE {}

Dangling == {x \in Slots : slot[x] = "dangling"}

\* What is freed a second time before the slot is given another value.
FreedAgain(a) == IF FreedFirst(a) THEN {a.what} \intersect Dangling ELSE {}

Skip == /\ Busy /\ ~Wanted(Now) /\ Rest
        /\ UNCHANGED <<given, parts, authOf, slot, leaked, misused, call>>

Release == /\ Busy /\ Now.from = "free" /\ Wanted(Now) /\ Rest
           /\ slot' = [slot EXCEPT ![Now.what] = "none"]
           /\ UNCHANGED <<given, parts, authOf, leaked, misused, call>>

Allocate == /\ Busy /\ Now.from # "free" /\ Wanted(Now) /\ Rest
            /\ leaked' = leaked \union LostBy(Now)
            /\ misused' = misused \union FreedAgain(Now)
            /\ slot' = [slot EXCEPT ![Now.what] = Now.from]
            /\ authOf' = IF Now.what = "auth"
                            THEN <<slot["username"], slot["password"]>>
                            ELSE authOf
            /\ UNCHANGED <<given, parts, call>>

\* asprintf fails and leaves the pointer to what has just been freed, which C
\* libraries may: the check that follows takes it for the new value.
Unnoticed == /\ Busy /\ Wanted(Now) /\ Formatted(Now) /\ Rest
             /\ slot[Now.what] # "none"
             /\ slot' = [slot EXCEPT ![Now.what] = "dangling"]
             /\ misused' = misused \union FreedAgain(Now)
             /\ UNCHANGED <<given, parts, authOf, leaked, call>>

\* destroy_and_free_resources of the client with slots s: what dangles in it is
\* freed again.
DestroyAll(s) ==
    /\ slot' = [x \in Slots |-> "none"]
    /\ misused' = misused \union {x \in Slots : s[x] = "dangling"}

\* The memory does not suffice.  A call of a client that exists leaves it as
\* it is, and loses its local copy; init destroys what there is, and FreeRTOS
\* does not delete a lock that has not been created.
Fail == /\ Busy /\ Wanted(Now) /\ Now.from # "free"
        /\ leaked' = leaked \union LostBy(Now) \union
                        (IF slot["user_info"] = "none" THEN {} ELSE {"user_info"})
        /\ script' = <<>>
        /\ LET left == [slot EXCEPT ![Now.what] = "none", !["user_info"] = "none"]
               early == Now.what \in {"client", "event_handle"}
           IN  IF call # "init"
                  THEN /\ slot' = left /\ call' = "idle"
                       /\ misused' = misused \union FreedAgain(Now)
                  ELSE /\ DestroyAll(left)
                       /\ call' = IF slot["lock"] = "none" /\ ~early
                                     THEN "crashed" ELSE "refused"
        /\ UNCHANGED <<given, parts, authOf>>

\* http_parser_parse_url does not accept the URI.
BadUri == /\ Busy /\ Now = Alloc("scheme", "uri")
          /\ script' = <<>>
          /\ IF call = "init"
                THEN DestroyAll(slot) /\ call' = "refused"
                ELSE call' = "idle" /\ UNCHANGED <<slot, misused>>
          /\ UNCHANGED <<given, parts, authOf, leaked>>

Returns == /\ call \in {"init", "set_uri", "start"} /\ ~Busy
           /\ call' = "idle"
           /\ UNCHANGED <<given, parts, authOf, slot, leaked, misused, script>>

SetUri == /\ call = "idle" /\ call' = "set_uri"
          /\ parts' \in Uris /\ script' = SetUriScript
          /\ UNCHANGED <<given, authOf, slot, leaked, misused>>

\* esp_websocket_client_append_header: the new text is made before the old
\* is freed, and a failure leaves the old one.
AppendHeader == /\ call = "idle"
                /\ slot' = [slot EXCEPT !["headers"] = "derived"]
                /\ UNCHANGED <<given, parts, authOf, leaked, misused, call, script>>

\* The part of esp_websocket_client_start that makes the transport, which is
\* chosen by the scheme, is given the path and connects to the host.
StartTransport == /\ call = "idle" /\ call' = "start"
                  /\ slot["scheme"] # "none"
                  /\ misused' = misused \union Dangling
                  /\ script' = TransportScript
                  /\ UNCHANGED <<given, parts, authOf, slot, leaked>>

DestroyHandle == /\ call = "idle" /\ call' = "destroyed"
                 /\ DestroyAll(slot)
                 /\ UNCHANGED <<given, parts, authOf, leaked, script>>

\* What use of freed memory may come to at any later time.
Corrupted == /\ misused # {} /\ call \in {"init", "set_uri", "start", "idle"}
             /\ call' = "crashed" /\ script' = <<>>
             /\ UNCHANGED <<given, parts, authOf, slot, leaked, misused>>

Ended == call \in {"refused", "destroyed", "crashed"} /\ UNCHANGED setupVars

SetupNext == \/ Skip \/ Release \/ Allocate \/ Unnoticed \/ Fail \/ BadUri
             \/ Returns \/ SetUri \/ AppendHeader \/ StartTransport \/ DestroyHandle
             \/ Corrupted \/ Ended

SetupSpec == SetupInit /\ [][SetupNext]_setupVars

-----------------------------------------------------------------------------
(* Properties. *)

\* init has just returned a handle.
Made == call = "init" /\ ~Busy

\* The scheme is made for the transport, and again for the URI.
SchemeMadeTwice == {"transport", "uri"} \subseteq given /\ "scheme" \in parts

\* A handle that init returns, with whatever fields it was given, has all
\* the loop task and the senders use without a check; each pointer of it is to
\* memory it owns, but for a scheme made twice.  That one, when the memory does
\* not suffice for the second, is taken for made.
HandleComplete ==
    /\ Made => /\ slot["scheme"] # "none"
               /\ Dangling \subseteq {"scheme"}
               /\ ~SchemeMadeTwice => Dangling = {}
    /\ Made \/ call = "idle" =>
          \A s \in {"client", "event_handle", "lock", "config", "rx_buffer",
                    "tx_buffer", "status_bits"} :
             slot[s] \notin {"none", "dangling"}

\* Freed memory is only used for the scheme, the host or the path of a URI that
\* takes the place of another; within init for a scheme made twice.
KnownMisuse ==
    /\ misused \subseteq {"scheme", "host", "path"}
    /\ call \in {"init", "refused"} /\ misused # {} =>
          misused = {"scheme"} /\ SchemeMadeTwice

\* The only memory ever lost is the host of a URI that the configuration
\* replaces and the copy of the user information of a set_uri that fails.
KnownLeaks ==
    /\ leaked \subseteq {"host", "user_info"}
    /\ "host" \in leaked => {"uri", "host"} \subseteq given

\* The credentials a handle starts with are those its authorisation is made
\* from, whether they come from the URI or from the configuration.
AuthOfInit ==
    Made /\ slot["username"] # "none" /\ slot["password"] # "none"
       => slot["auth"] # "none" /\ authOf = <<slot["username"], slot["password"]>>
=============================================================================
