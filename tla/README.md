# A TLA+ model of the ESP32-S3 assistant and its audio server

The repository holds the firmware of a small voice assistant
(`src/subModules_Dev`, C, ESP-IDF), with two components of ESP-IDF that are kept
in its tree and that its behaviour rests on, the WebSocket client and the LED
strip driver (`managed_components`), and the server it streams audio to
(`src/webSocket_server/ws_Project`, Python, asyncio). This directory holds TLA+
modules of the parts with state worth reasoning about, TLC configurations that
check them on small instances, and proofs that TLAPS checks for all instances.

Paths below are relative to `src/subModules_Dev` (firmware) and
`src/webSocket_server/ws_Project` (server).

## Contents

| Module | What it is |
|---|---|
| `RecentStore` | abstract: a most-recently-used list with a copy on stable storage |
| `WifiHistory` | `wifi_manager.c`: the saved-networks array and its NVS blob, step by step |
| `WifiHistory_proofs` | its inductive invariants, four theorems about its properties, and the refinement of `RecentStore` |
| `WifiConnect` | `wifi_manager_connect`, the event handler, and the three tasks that use them |
| `WifiConnect_proofs` | its two inductive invariants and four theorems |
| `AudioPipeline` | microphone task, connection, server handlers, queues and consumers |
| `AudioPipeline_proofs` | its inductive invariants and three theorems |
| `TimeSync` | `time_sync_init` and `verify_system_time` |
| `Boot` | `app_main` from power-on to its last loop, with `check_internet`; contains `TimeSync` |
| `Boot_proofs` | its inductive invariant and five theorems |
| `WifiPortal` | the portal's network page (its script) and the four handlers of `/api/wifi` |
| `WifiPortal_proofs` | its types, the invariant about choices and the passwords, the sort of a scan |
| `WebsocketClient` | `esp_websocket_client.c` at work: loop task, senders, owner, connection and server |
| `WebsocketSetup` | the same file's memory: init, set_uri, append_header, the transport, destroy |
| `Websocket_proofs` | the inductive invariants of these two modules and eleven theorems |
| `LedPixels` | the LED strip's pixel formats, buffer, SPI coding and hue conversion |
| `LedPixels_proofs` | its inductive invariant, the place of every byte, and the conversion |
| `LedStrip` | making, refreshing and deleting a strip; the RMT encoder; the wire; `rgb_led.c` |
| `LedStrip_proofs` | its inductive invariant and two theorems |
| `MC*` | instances for TLC |

Run one check with `tlc -config WifiHistory.cfg MCWifiHistory.tla` (the module of
each configuration is in `PROJECT.json`), one proof with
`tlapm WifiHistory_proofs.tla`.

## Inventory

**Wi-Fi credential history** (`subModules/wifi/wifi_manager.c`). State: the array
`saved_wifi` of `WIFI_HISTORY_MAX` slots in RAM and one NVS blob of it.
Operations: `add_to_history` (search, shift, put in front), `save_credentials`
(add, open, set, commit; every NVS call may fail), `load_credentials` at boot.
Called from three tasks, without a lock. Hard: a reset or an error between two
steps, overlapping saves. Correct when the array is always a list without gaps
or duplicates, newest first, the flash holds only complete arrays, and an
acknowledged save survives.

**Wi-Fi connection** (same file). State: `selected_ssid`, `current_password`,
`wifi_connected`, `WIFI_CONNECTED_BIT`, the driver's configuration and link, the
event loop's queue. Operations: `wifi_manager_connect` (store, disconnect, set
configuration, clear flag, clear bit, connect, wait at most 20 s),
`wifi_event_handler`, `set_selected_ssid`, `set_password`,
`scan_and_connect_known`. Hard: late events of an earlier connection, timeouts
racing an address, the same globals used by three tasks. Correct when `ESP_OK`
means that this call's credentials are up, the flag follows the link (but for a
disconnect that the driver refuses), only
credentials that worked are saved, and every call returns.

**Boot and console setup** (`main/main.c`). `app_main` starts console, OLED,
access point and portal, loads the history, scans, tries the known networks, and
otherwise starts the console task and polls the connected flag; then time,
microphone, and a loop that sends test packets. (The start of the WebSocket client and
of `mic_task` is commented out at this commit, main.c:540-561; the audio path is
modelled as those lines start it.) `wifi_setup_process` is the
console's menu: slot 0's network, or a selection and up to `MAX_ATTEMPTS`
passwords, then another scan. Hard: it runs beside the portal. Correct when the
boot goes on once a network is there for good, and not without one.

The steps of the set-up differ in what an error does: `app_main` returns,
`ESP_ERROR_CHECK` aborts and the chip starts again, or the result is not looked
at. `check_internet` takes addresses and a socket and has five ways out. Correct
when a boot always comes to rest, the portal is there wherever it does, and
nothing that was taken is forgotten.

**Portal** (`subModules/webPortal`). The page keeps `isWifiConnected`, the list
and its visibility; a timer asks for the status every five seconds, a choice is
a select, a prompt and a connect. The HTTP server's single task serves one
request at a time; `select` and `connect` change the manager's state, `status`
and `scan` read it, the other handlers send constant pages or telemetry. Hard:
requests and replies in any order or lost, a prompt or an alert that stops the
script, two requests that belong together. Correct when the list is the strongest networks,
a password is used only for the network it was typed for, and the page's status
ends up as the station's.

**Access point** (`subModules/wifi/ap_manager.c`). Started once, in APSTA mode;
`ap_running` follows the driver's events. Its start is part of `Boot`.

**Time synchronisation** (`subModules/time/time_sync.c`). Polls the clock while
SNTP runs, 10 times 2 s and then 5 s apart, gives up after 31 waits. `app_main`
tests the year again. Correct when it decides within its budget and no clock
short of the expected year gets through.

**Microphone and WebSocket client** (`subModules/mic/inmp441.c`,
`subModules/webSocket/websocket_client.c`). `mic_task` numbers each whole block
and sends it; a packet without a connection, or whose send fails, is dropped but
its number is used up. `websocket_event_handler` keeps `ws_connected`, the
application's own picture of the connection.

**WebSocket client library**
(`managed_components/espressif__esp_websocket_client/esp_websocket_client.c`).
State: `client->state`, `run`, two status bits, a recursive lock, the ages of the
last ping, pong and attempt, and what `esp_websocket_client_init` allocated.
Operations: the loop task (connect, ping, poll, read, reconnect, close), sends from
any thread, `start`, `stop`, `close`, `destroy`, `set_uri`, `append_header`. Hard:
the loop polls without the lock, a failed send aborts the connection from its own
thread, `stop` and `close` wait for a task that may be anywhere, any allocation
may fail. Correct when messages are not mixed, nothing read or awaited belongs to
another connection, there is one loop task, a dead connection is given up, every
call returns, and what is allocated and freed is accounted for.

**LED strip driver** (`managed_components/espressif__led_strip`) **and RGB LED**
(`subModules/rgb_led/rgb_led.c`). State: the pixel buffer in the strip's format,
the RMT channel, the encoder's position, the symbol memory. Operations: new,
set_pixel (three forms), refresh, clear, del, for RMT and SPI. Hard: any order of
components, an encoder that is called back whenever memory is free and may find
it exactly filled, errors half-way through a refresh. Correct when every LED ends
up with the colour set for it, once a refresh has been reported as done.

**Audio server**. `network/websocket_server.py` runs one handler per connection;
`data/data_processing.py` checks the header; `audio/audio_parser.py` puts the
packet into three `Queue(maxsize=200)` with `put_nowait`;
`audio/audio_manager.py` has a player, a recorder and a speech-to-text task,
each getting from its queue in a thread and working on the event loop. Hard:
threads against the loop, full queues, failing consumers, reconnects. Correct
when every consumer sees a subsequence of what was received, in order and
without repeats, and nothing disappears other than by a known drop.

**Other parts**: the console's line input, the test relay `server.py`, the older
scripts and firmware sources, OLED and button, the static web page, examples and
headers of the two components. See `components` in `PROJECT.json`, with the
reason for each that is not modelled.

How the parts interact: by calls from the three tasks into the Wi-Fi manager
(shared variables, no lock); by events from the driver through the event loop's
queue; from device to server by messages on a connection, which the WebSocket
client keeps up; inside the server by the three queues. `WifiPortal` and
`WifiConnect` meet at the manager's shared variables, `Boot` contains `TimeSync`
and treats a connect as one step, `WifiConnect` saves in one step what
`WifiHistory` does in many, and `AudioPipeline` sees of `WebsocketClient` a
connection that is there or not.

## The modules and the code

### WifiHistory

`saved_wifi` is a function from slots to entries, with `None` for a slot whose
`valid` is false. The blob has two values: `written`, what `nvs_set_blob` left,
and `committed`, what the last `nvs_commit` made certain; after a reset the flash
has either. `pc`, `entry` and `hole` are the position and the locals of a task in
`wifi_manager_save_credentials`: `Find` is the search, `Shift` one round of either
shifting loop (the two differ only in where they start, which is `Target`),
`PutFront` the store into slot 0, then `OpenOk`, `SetBlob`, `Commit`, any of which
may be `NvsError` instead. `Load` and `LoadError` are
`wifi_manager_load_credentials`. `owed` and `newer` are history variables for
`AcknowledgedSurvives`.

After a failed load the code goes on with an empty array and its next save
replaces the stored history; the model keeps this and cancels what earlier saves
were promised. A save is assumed to come after the load: the portal is up a few
lines earlier (main.c:451, 455), but a save needs a connect of some seconds first.

`Overlap = FALSE` lets one task at a time be inside a save; `Overlap = TRUE` is
what the code allows. The distinction is deliberate. The code has no lock, so
the invariants fail under `Overlap = TRUE`, which `WifiHistoryOverlap` shows; with
`FALSE` they say that the code is right apart from the missing lock.

`RecentStore` says what its callers rely on: `MoveToFront`, `Write`, `Sync`,
`Restart`, `Restore`. `WifiHistory!ImplementsRecentStore` says that
`WifiHistory` implements it, which TLC checks and `RefinesRecentStore` proves: the add takes effect at `Find`, and an array in the
middle of a shift is mapped to the array once the shift is finished
(`Finished`), so that `Shift` and `PutFront` are stuttering steps. `WifiConnect`
uses its `MoveToFront` too, written as where each entry comes from, so that
it can be proved about.

### WifiConnect

`Store`, `Disconnect`, `SetConfig`, `ClearFlag`, `ClearBit`, `Dial`, `Await`,
`Timeout` and `DriverError` are `wifi_manager_connect` in the order of its
statements; `HandleFlag` and `HandleBit` are the two writes of
`wifi_event_handler`; `Associate` and `Drop` the driver. Station states follow
from the calls the code makes and checks: `esp_wifi_set_config` and
`esp_wifi_connect` are refused while dialling; `esp_wifi_disconnect` brings the
link down and has an event posted, or fails, which the code only logs
(wifi_manager.c:346), so that the connect goes on with the link as it was.

`TryKnown`, `SkipKnown`, `KnownFailed`, `KnownConnected` are
`scan_and_connect_known`: `h` walks the array, `s` the scan's records of the
network in slot `h` (the loop does not stop at the first record, so a network
with several access points is tried several times). `StartConsole` and `Poll` are
the rest of `app_main`'s boot. `Web*` are the portal's two handlers, `Console*`
is `wifi_setup_process`. The code passes pointers to `selected_ssid` and
`saved_wifi[h]` into `wifi_manager_connect`; `Passed` reads them when the function
does. Saving is one step, RecentStore's; what happens inside is WifiHistory's
subject.

`joined`, `proved` and `kept` are history variables: whether the station came up with
a connect's own credentials after it began, with which credentials it has ever
been up, and whether the driver has refused to give up the present link.

`Overlap` is as above: with `FALSE` an operation of the portal or the console
begins only when the other tasks are not inside one of theirs (waiting for input
does not count). `Prompt = TRUE` says that the event loop's task empties its
queue before these tasks go on. It has a much higher priority (20 against 1, 3
and 5) and each handler takes microseconds, where the tasks go through driver
calls between two accesses of the shared state; on two cores this is a matter of
timing and not of scheduling, hence the parameter. With `Prompt = FALSE` events can be arbitrarily late, so that a
late address of the previous connection can satisfy the next wait;
`OkMeansConnected` is therefore claimed under `Prompt` only, whereas
`FlagMatchesLink` is checked and proved with late events, its hard case.

### AudioPipeline

`ReadBlock`, `CheckConnection`, `Send`, `SendFails` are `mic_task` with
`websocket_send_audio`; `Open`, `Close`, `LoseTail` the connection as the client
sees it: in order, and losing a suffix when it breaks. An old connection's wire
can still hold messages while a new one is open. `Receive(k)` is the handler of
connection `k` up to the start of `parse`; `Put` one of parse's three puts;
`Get(c)` the return of `Queue.get` in its thread; `Work` and `WorkFails` the
consumer's turn on the event loop.

The loop runs one thing at a time: none of the awaits between a handler's
reception and the last put suspends, so a parse is not interleaved with another
one or with a consumer's work (`LoopFree`), but it is with the threads' gets.
Packets are named by the order of reception, so that one number sent twice or two
devices would not confuse the properties.

### TimeSync

The clock is its year. `Answer` is SNTP's task, at any time or never. `Delay`
contains the wait, the increment and the test of the limit: after the last wait
the clock is not read again, so an answer during it comes too late.

### Boot

`Steps` is the set-up as a table: for every call whose failure the code
distinguishes, what it brings up and what its error does, in the order of the
code (`WifiManagerInit`, `ApManagerInit`, `ApManagerStart`, `WebportalInit`,
`Preparing`). `StepDone`, `StepIgnored`, `StepReturns`, `StepAborts` walk it.
`up` are the parts that are there, `held` what has been taken and not given back.
Then `Known` (the auto-connect, and the console task without it), `Trap` (the
wait), `AskTime` and `TimeDecided` (`TimeSync`'s steps and what `app_main` does
with their result), `MicStarted`. `Resolve`, `Socket`, `Dial`, `Reply` are
`check_internet`, with both outcomes of each call. `Portal` is what it takes to be
asked for a network, routes included, `Wakeful` what it takes to notice the answer,
and `Unwatched` what of these is created or registered without a look at the
error. An address is only noticed
if event group and handlers were created; without the event group the first
connect aborts (`NoEventGroup`). How a connect goes is WifiConnect's subject;
here it is one step of whoever may connect (`Connecting`).

`MaxBoots` bounds the aborts and so the reboots. Without a bound a step that
always fails would reboot the chip for ever, and nothing in the code ends that.
Console and OLED come first in `app_main` and cannot stop it; they are left out.

### WifiPortal

`Tick`, `ScanWifi`, `SelectWifi`, `ConnectWifi`, `CancelPrompt` are the page's
functions up to their `fetch`, `UpdateWifiStatus`, `RenderScan`, `OpenPrompt`,
`ConnectAnswered` the callbacks, `FetchFails` the rejected promise. Requests
(`asked`) and replies (`replies`) are sets: each travels on a connection of its
own. `prompt()`, and the `alert()` of a scan while connected (`ScanRefused`) and of a
connect that failed, stop the script and its timer until the user is done with
them (`Running`, `DismissAlert`). The handlers take a request when
the server's task is free; only `wifi_connect_handler` takes time (`serving`).

A network's name matters in two ways, given as sets: whether it fits `raw_ssid`
once encoded (`LongNames`; a request whose name does not is not answered), and
whether it breaks the JSON (`Quoted`; the reply does not parse). Passwords that
do not fit `raw_password` are `LongPasswords`. `Exchange`, `Pass`, `SortByRssi`,
`Limit` are the sort and the cut of the scan; the driver's records may list a
network several times. A connect request also records, for the properties only,
which network its prompt asked about (`prompted`). `Pass` and `SortByRssi` are the two loops as
functions of the slots gone through.

The status names `selected_ssid` as the connected network, also after a select
that no connect has followed (wifi_manager.c:616); `shown` keeps this.

### WebsocketClient

The loop task's round is cut where it can be interleaved: `Check` (`while run`),
`TakeLock`, one action for each state of the switch and each of its ways out
(`Connect`, `ConnectFails`, `Ping`, `PongTimesOut`, `NoPing`, `SkipRead`, `Recv`,
`RecvFails`, `Wait`, `Echo`, `Idle`), then, with the lock given back, `After`,
`Poll`, `PollFailed`, `Closed`, and the end in `Finish`, `StopBit`, `Last`. `state`,
`run` and `bits` are also written by others at any time, as in the code.
`readSelect` is what the last poll returned; `polled` records which connection that
was. A message is `Send` (the check without the lock), `LockToSend`, a
`SendFrame` for every tx buffer it fills, and `SendFails` with `AbortEnds` when a
write fails (in two steps, since `state` may change between the check and the
assignment). A sender may also give up waiting for the lock (`LockTimesOut`). The
CLOSE frame of `close` takes the same way. `ConnectionLost` and
`TransportClose` are the two halves of `esp_websocket_client_abort_connection`, used
by all who abort; `HandleEvent` is `websocket_event_handler`.

The owner's calls are cut at their waits: `Start`/`StartClear`, `Stop`/`StopReturns`,
`Close`/`CloseBit`/`CloseReturns`/`CloseGivesUp`, `Destroy`/`StopToFree`/`FreeAfterStop`.

The server assembles messages (`unfinished`), owes pongs (`owesPong`), sends data,
frames in two parts (`CUT`, whose rest is `RestArrives`) and CLOSE. `link` tells a
connection that is up from one the server is closing, one on which nothing arrives
any more (`silent`, for as long as it lasts) and one it has dropped (`gone`). Time is
three ages, kept only as far as their limits (`Older`).

Two parameters name what a run assumes of the application. `Careful`: `start` and
`destroy` follow a successful stop (or, for `destroy`, find the client running), as
websocket_client.c uses them. `Prompt`: a task that has set `STOPPED_BIT` executes its
last statements, esp_websocket_client.c:1113 on, before the thread that waited for the bit
goes on. Without it the assignment of `state` at the very end can hit a client
that has been started anew.

### WebsocketSetup

Every call is a script of allocations that `Allocate`, `Skip`, `Release`, `Unnoticed`
and `Fail` work off: `InitScript`, `SetUriScript`, `SetConfigScript`,
`TransportScript`. A slot is a pointer and its value where the memory came from;
`Wanted` is the `if` around an allocation, `FreedFirst` the `free` before it. So it
can be asked what an allocation that fails anywhere leaves behind. `Fail` in `init`
is `_websocket_init_fail`, including what happens if there is no lock yet.

`set_uri` frees a scheme, host or path and then has `asprintf` write the pointer; if
that fails, the pointer may stay what it was (`Unnoticed`), and such a slot dangles.
`misused` records the dangling slots that are freed again (by the next `set_uri`,
by `destroy_config` or by `_websocket_init_fail`) or read (by the transport's
creation); from then on the program may crash at any step (`Corrupted`).

### LedPixels and LedStrip

`LedPixels` is the data: `Chosen` and `ValidFormat` are the format checks of both
drivers, `Pixel` the bytes `set_pixel` and `set_pixel_rgbw` write, `SpiBit` the three
bits of the bus for each bit, `HsvToRgb` the conversion. A byte is the set of its
one bits. `Reads` and `Ideal` state separately what the LEDs take from the wire and
what hue, saturation and value mean.

`LedStrip` is the order of things: allocation (`Things`), refresh (`Enable`,
`Transmit`, `Flushed`, `Disable`, each with its error), del with its half-way
failure, the encoder's `Session` for whatever memory is free, `Drain` for the
transmitter. Each LED takes the first `Symbols` symbols it sees and passes on the rest
(`Latched`); a component is `Symbols` symbols long, named by pixel value and position.
`user` marks calls made through `rgb_led.c`, which does not look at their results.

## Runs

| Run | Checks | Shows |
|---|---|---|
| `WifiHistory` | `HistoryWellFormed`, `FlashWellFormed`, `AcknowledgedSurvives`, `ImplementsRecentStore` | any NVS call failing, resets at any step |
| `WifiHistoryOverlap` (violated) | `NoDuplicates` | two overlapping saves leave a duplicate |
| `WifiConnect` | `SavedWereConnected`, `OkMeansConnected` | one operation at a time, every error, timeout and drop |
| `WifiConnectLive` | `FlagMatchesLink`, `ConnectReturns`, `BootResumes` | events arbitrarily late, disconnects refused |
| `AudioPipeline` | `StreamsInOrder`, `NothingVanishes`, `ParseEnds`, `QueuesDrain` | full queues, failing consumers, a reconnect |
| `Boot` | `PortalActive`, `NothingLeaks`, `MicOnTime`, `GivesUpOnBudget`, `BootSettles` | any step fails, a reboot, the code's own limits for the time |
| `WifiPortal` | `ScanListsStrongest`, `PasswordForItsNetwork`, `StatusFollows` | lost and reordered requests and replies, a page in its dialogs |
| `WebsocketClient` | `OneLoopTask`, `MessagesIntact`, `ReadFresh`, `PongOfThisConnection`, `FlagFollows` | two senders, loop, owner and a server that closes or fails, over reconnections and restarts |
| `WebsocketLive` | `DeadPeerNoticed`, `TriesAgain`, `LostMeansEnded`, `CallsReturn` | liveness, with a sender, an owner that may destroy, and a server that may close |
| `WebsocketSetup` | `HandleComplete`, `KnownMisuse`, `KnownLeaks`, `AuthOfInit` | an allocation fails anywhere |
| `LedPixels` | `PixelsHold`, `HsvNear` | all position triples, both drivers, both component widths |
| `LedStrip` | `RefreshShows`, `CallEnds` | every error, any interleaving of encoder and transmitter |

Every property of a passing run has a mutant in `PROJECT.json`, an operator next
to the definition it stands in for, with which TLC finds the property violated.
Every safety property of a passing run is also proved, and so is the type invariant of
every module with a run; the runs do not check those again. What only the runs show is the
liveness.

### Where the code disagrees with itself

`WifiHistoryOverlap` shows what the missing mutual exclusion between the portal's task,
the console task and `app_main` does to the array. One lock around
select-connect-save would remove it, and these, which have the same cause and no
run of their own:

- With `Overlap = TRUE` `SavedWereConnected` fails: `save_credentials` reads
  `selected_ssid` and `current_password` (wifi_manager.c:499) after another task's select
  or connect has changed them, and saves a name with another network's password.
  `OkMeansConnected` fails too (two connects wait for one bit), and
  `FlagMatchesLink` and `BootResumes` in a window of microseconds.
- `PasswordForItsNetwork` is claimed for choices that do not overlap (`Hasty =
  FALSE`). With `Hasty = TRUE`, or choices on two pages, the second select changes
  what the first prompt's password is tried on, because a connect request does
  not name its network.

Elsewhere, met while modelling:

- `wifi_manager_connect` only logs a refused `esp_wifi_disconnect` (wifi_manager.c:346)
  and clears the flag all the same (387). The link then stays up, no event sets the
  flag again before it is lost, the page shows "Disconnected", and a boot that polls
  the flag waits for as long as the link lasts: against "Check WiFi connection
  status" (wifi_manager.h). `FlagMatchesLink` and `BootResumes` therefore leave out a
  link that was kept in this way (`kept`).
- "Portal Active: Connect to 'ESP32-Assistant' OR use Serial Terminal input"
  (main.c) is also said by a device whose routes could not be registered
  (routes.c:130-140), or without event group or handlers, whose errors are not
  looked at either: it cannot be set up through the portal. `PortalActive` says that
  nothing else can be missing.
- `app_main` waits for the connected flag (main.c:490) and takes it for internet
  ("Guaranteed to have internet now!", main.c:499) once it is set, while
  `wifi_setup_process` has yet to find out.
- A scan reply that comes after the page has learnt that it is connected fills
  the list (network_html.c:264) against the rule of the comment at 215; the list
  stays hidden.
- The comment at time_sync.c:107 asks for a year past 2024, the test at 109 takes
  2024; `verify_system_time` asks for 2026 in any case.
- `get_connected_ssid` (wifi_manager.c:616) names the network selected last, also
  when no connect has followed; `WifiPortal` keeps this.
- In esp_websocket_client.c, the client at work: a connection closed cleanly ends a
  client that was to reconnect (1103); `close` sets its bit though no CLOSE was sent,
  so that the loop then neither pings nor answers (1214); the server's echo of our
  own CLOSE is taken for one of its own (1064).
- `CLOSE_FRAME_SENT_BIT` (set at 1067, cleared only at 976 and 1143) outlives its
  connection. A sender that waits for the lock while the server's CLOSE is answered
  then fails to write, aborts, and has the client reconnect; the new connection
  is never pinged (1019), and a peer that goes silent on it is never noticed,
  against "Period before connection is aborted due to no PONGs received"
  (esp_websocket_client.h:119). `DeadPeerNoticed` therefore ends with the bit.
- A frame of which only the beginning arrives holds the loop, and the lock, for as
  long as the peer is silent (1046), so that `DeadPeerNoticed` is claimed for frames
  that arrive whole.
- `destroy` tests `run` (762) to see whether there is a task to wait for, but the task
  clears `run` itself, before its last use of the client, after a clean close (1103)
  and, without reconnection, after a lost connection (238): a `destroy` of that moment
  frees what the task still uses. Once these cases are excepted no other is left, so
  that no property is claimed of it.
- In the same file, the client's memory: a URI's parts are overridden by the fields
  given beside it, and its host is lost (319); the authorisation header is not made
  anew by `set_uri` (816), so that `AuthOfInit` speaks of the end of `init`; an `init`
  that fails before the lock exists deletes a NULL lock (439).
- After an `asprintf` that fails the pointer may still point to what was freed, and the
  check that follows (793, and the same for host and path) takes it for made. With a
  transport given and a URI that has a scheme, `init` itself, which is documented to
  return "NULL if any errors" (esp_websocket_client.h), then returns a handle whose
  freed scheme `create_transport` reads (481) and `destroy_config` frees again
  (411-414); `HandleComplete` and `KnownMisuse` say that within `init` this is the only
  case. For a later `set_uri` scheme, host and path are all exposed to it.
- In the LED strip driver: a hue of 360 is neither refused nor red
  (led_strip_api.c:62); a format with positions but `num_components` 0 is refused
  (led_strip_rmt_dev.c:139); a new SPI buffer is all zero, which codes nothing, until the first clear
  (led_strip_spi_dev.c:173); two SPI refreshes in a row have no reset time between
  them (106), so that the second frame goes through to the end of the strip: no
  property is claimed of the SPI driver's frames; a refresh that fails half-way leaves
  the channel enabled, so that every later one fails (led_strip_rmt_dev.c:88).
  `rgb_led_init` does not look at the result of its clear (rgb_led.c:51).

### Bounds, and why they are enough

- `WifiHistory`: `Max = 3` has a first, a middle and a last slot, so a duplicate
  can be found at each and a shift can stop early; a fourth network makes the
  last entry drop out; two tasks. The proofs cover every `Max`.
- `WifiConnect`: two networks, one of them without internet, two passwords, one
  right; `HistoryMax = 2`; the boot finds nothing or two entries, the second
  with an outdated password. `Heard` gives the home network two access points.
  `MaxEvents = 2` bounds the event queue (ESP-IDF's default is 32): a disconnect and
  the address after it can be pending at once. `WifiConnectLive` has one slot, one
  password, one attempt and no access point but home's. The proofs cover every value.
- `AudioPipeline`: `Capacity = 1` (200 in the code) makes overflow common; two
  packets and two connections have a reconnect, an overtaken tail and a drop. The
  proofs cover every value. `Finished` keeps the bounded instance from
  counting as deadlocked at the end. The 32-bit sequence number would take four
  years to wrap at 31 packets a second and is not wrapped in the model.
- `Boot`: `MaxBoots = 2`, one reboot from each place that can abort, and a boot
  after it that finds the clock as it was; the limits and delays are the code's
  own. `CHECK_DEADLOCK FALSE`, because `app_main` may return for good.
- `WifiPortal`: one page, with one status request and one scan of it under way
  at a time (and, as elsewhere in the module, any number of replies in any
  order). `MaxScanResult = 3` with up to four records, the strongest not first,
  two of one name; of the four names two can be selected, one is too long and one
  breaks the JSON; one password is right for one network and wrong for the other,
  one is too long.
- `WebsocketClient`: two senders and two frames are what a mixture needs;
  connections and loop tasks follow each other without end, `MaxConns = 2` tells the
  present from the last, `MaxTasks = 2` allows a second task beside the first;
  `MaxInbox = 1` lets the server be a frame ahead. Intervals of one tick, with ages one
  past them, tell in time from too late.
- `WebsocketLive`: one sender of one-frame messages, one connection told apart (its
  properties speak of the present one) and one loop task at a time, with any number
  of reconnections and restarts; a ping and a pong are due at the first tick.
- `WebsocketSetup`: transport, interface, host, path and headers come together or
  not at all (`MCConfigs`), URI, user name and password in every combination; a URI of
  a path alone and one with every part; calls may follow each other for ever.
- `LedPixels`: all formats with positions up to 3, three and four components; two
  pixels; two calls (`MaxCalls`), a pixel set over, or next to, another. Component levels
  165 and 25855 have different bits in every byte. The 16-bit form of the conversion is
  checked with values up to 500, because TLC's integers have 32 bits and the code's
  products need more; its formula is the 8-bit form's. `HsvFormats` has the
  conversion run on one format, which it does not depend on.
- `LedStrip`: strips of one and two LEDs, two symbols a component, a memory of three:
  a frame is less than the memory or more, and a session may end within a pixel, at
  its end, or at the end of the frame with the memory exactly full. `Frames = 2`: what is
  past two frames on one strip goes through to the end. `CHECK_DEADLOCK FALSE`:
  nothing is left to do with a deleted strip.

### Fairness

- `WifiConnect`: weak fairness of each task's connect, the handler and the
  tasks' own steps: FreeRTOS schedules them and `xEventGroupWaitBits` times out.
  None for users, access points, or the driver.
- `AudioPipeline`: weak fairness of `Put` (straight-line code) and of `Get` (the
  thread pool has a thread for each consumer); strong fairness of a consumer's
  turn, because asyncio runs ready callbacks in the order they became ready, so
  that a stream of messages cannot postpone it for ever although it interrupts its
  being enabled.
- `Boot`: weak fairness of `app_main` and of `check_internet` (FreeRTOS schedules
  both tasks, and every call in them returns or times out); none of networks,
  SNTP or users.
- `WifiPortal`: weak fairness of a connect's end (it times out); strong fairness
  of the page's timer, of the status handler, and of the status callback, which
  a dialog or a lost request may interrupt again and again: `setInterval` goes
  on as long as the page is open, and not every exchange is lost. None for
  users, scans, or the station.
- `WebsocketClient`: weak fairness of every thread's next step, and of `Tick`;
  strong fairness of taking the lock, since FreeRTOS gives a mutex to a waiting
  task; a write on a dead connection ends, since TCP gives up. None for the server,
  the network, or new calls of senders and owner.
- `LedStrip`: weak fairness of the driver's steps, the encoder and the transmitter. A
  wait that fails (`WaitFails`) has none: the code waits without a timeout.

## Proofs

`WifiHistory_proofs`, assuming `HistoryAssumption` and `Overlap = FALSE`, for all
lengths, networks, passwords and tasks:

- `TypeCorrect`, `HistoryStaysWellFormed`, `FlashStaysWellFormed`.
- `HistoryWellFormed` alone is not inductive: in the middle of a shift the array
  does hold an entry twice. `IInv` adds that at most one task is at work
  (`OneAtATime`), and `ShiftInv`: with a task's hole left out the array has no
  duplicates and no gap, the network being added is nowhere else, and no entry
  after the hole is lost. The lemmas follow the code: `TargetSlot` (the search),
  `ShiftMovesHole` (one round), `FrontClosesHole` (the store into slot 0), then
  one lemma per group of actions.
- `RefinesRecentStore`: every initial state and every step of `WifiHistory` is one of
  `RecentStore` under `Recent`'s mapping, or a stutter. `FrontIsMove` is its heart: the
  array that the shift `Find` begins will end in is, read as a list,
  `MoveToFront` of the list there was. `SaveInv` says that the array a save writes starts with the
  entry it acknowledges, and is blank until the load.
- `AcknowledgedStays`. The property counts the networks added since; that is not
  inductive. `SurvivalInv` says where the owed entry is: every slot of either blob,
  and of the array once the add under way is finished, has at or before it the owed
  entry, or holds one of those added since (`Covers`). An entry that has been pushed
  out would leave only other networks in the array; these differ, and so are
  as many as there are slots (`CoversHolds`, a pigeonhole).

`WifiConnect_proofs`, assuming `ConnectAssumption` and `Overlap = FALSE`, for all
networks and passwords, lengths, attempts and bounds on events:

- `TypeCorrect`, `FlagMatches` (however late events are), and, with `Prompt = TRUE`,
  `OkIsOwn` and `SavedHaveWorked`. `Prompt` is needed for the last two, as described
  above.
- `FlagMatchesLink` speaks of an empty queue only. `LinkInv` says what holds at all
  times: the last event pending, or without one the flag, tells the link, unless it was
  kept. To
  clear the flag is then harmless because the link is idle between a connect's
  disconnect and its dialling, or was kept by the driver (`IdleInv`), and that because
  no other task is inside an operation (`BusyInv`).
- `OkMeansConnected` follows from `PathInv`: on its way to the wait a connect has
  no old address pending (`NoAddress`) and no bit set, its configuration is its
  own, and whatever link it then has came up with its own credentials. What is
  saved is read from the shared variables, not from the call: `ArgInv` says that
  they still hold what the connect was called with.
- `MovedToFront` is the lemma about the history list. It rests on `LeastElement`, the
  search's first match, taken from the well-foundedness of `<`.

`AudioPipeline_proofs`, assuming `PipelineAssumption`, for every capacity and
every number of packets and connections:

- `TypeCorrect` (with the bound on the queues), `StreamsStayInOrder`,
  `NothingEverVanishes`.
- The invariant adds to the order of a consumer's stream that nothing in it is
  younger than what parse has already put for this consumer (`StreamInv`,
  `Youngest`) and that the packet being parsed is the last one received
  (`ParseInv`). Lemmas on `Increasing` under append, tail and concatenation
  come first.
- `VanishInv` says of each consumer that what is settled is exactly its
  stream and its drops, which have nothing in common.

`Boot_proofs`, assuming `TimeAssumption` and `BootAssumption`, for all limits,
delays, years and numbers of boots:

- `TypeCorrect`, `PortalStaysActive`, `NothingEverLeaks`; and, assuming that the
  time server's year is not before the two years the code asks for
  (`ServerYear`), `BudgetKept` and `MicWaitsForTime`. Without `ServerYear` the two
  do fail: a server that answers an old year turns a verified clock back.
- `IInv` says how far the set-up has come (`Progress`), what is held at each
  place (`Holding`), that a clock being verified is plausible and that nobody
  waits once the count is up (`TimeInv`), and that the microphone comes last
  (`MicLast`). `NothingLeaks` needs of the table of steps that the only one after
  the buffer's cannot return; `PortalActive` that none between the Wi-Fi
  manager's last and the portal's start returns, and that only those of `Unwatched` are
  ignored. `StepTable` reads
  this off the concatenation of the five tables. `ElapsedStep` and
  `ElapsedInBudget` are the arithmetic of the two delays.

`WifiPortal_proofs`, assuming `PortalAssumption`, for any number of pages, networks and
passwords, and any requests and replies under way:

- `TypeCorrect`. `TypeInv` adds what a page reads of a reply (`ReplyTyped`: a scan lists
  at most `MaxScanResult` networks) and that a call being served has a password and
  finds a name selected (`InCall`).
- `ScanIsSorted`, whatever the driver finds and whatever the limit. A loop is a
  function of the slots it has gone through, and that such a function exists
  (`LoopRuns`) and keeps what each step keeps (`LoopKeeps`) follows from a least
  slot at which it would not (`LeastElement`). `Moved` says of what a loop has
  made that it is what was found, in another order, with the slots before the
  loop's own left alone; so nothing is lost or doubled (`MovedCounts`), and a finished
  slot stays no weaker than any after it (`PassIs`, `SortIs`). `ScanIsStrongest` is the
  cut: what is left out counts less often in the answer than in what was found,
  so it stood behind the cut.
- With `Hasty = FALSE`, `PasswordKept`. The device has one selection for all pages, and
  a connect request does not say what network it is for. `ChoiceInv` follows a choice
  through its stations: it is a request, a reply, a prompt or the call being served,
  one of them at a time (`OnePlace`, `OneAnswer`); in each, its name is still the
  selected one (`NameSelected`); and the station dials the served name with the
  served password (`Dialled`). `Fewer` collects the steps that no choice takes part in.

`Websocket_proofs`, assuming `ClientAssumption`, for any number of senders,
fragments, connections and loop tasks and all intervals:

- `TypeCorrect`, `MessagesStayIntact`, `PongsBelong`, `FlagKept`; with
  `Prompt = Careful = TRUE`, `OneLoop` and `ReadsAreFresh`.
- All rest on `LockInv`: who sends a frame, aborts, or handles a state holds the
  lock. `MessageInv` relates the message the server is assembling to the sender in
  the middle of it, on a connection that is up. `PongInv` says that a pong waited
  for is always one of the newest connection. `FlagInv` relates flag and
  state whoever holds the lock. `LoopInv` says that the stopped
  bit, once the owner has cleared the last one, and `settled` mean that no task is in the
  loop any more.
- `ReadFresh` speaks of the read; the poll's result has to survive, without the
  lock, until then. `ReadInv` follows it (`Fresh`) over the check and the wait for the
  lock: it is stale only while the client is not connected, which the check finds
  out, or while a sender is aborting, which then has the lock. It
  rests on `OneLoop`: another loop task could connect in between.

The same module, about `WebsocketSetup`, assuming `SetupAssumption`, for every set of
configurations and URIs:

- `SetupTypeCorrect`, `HandlesAreComplete`, `MisuseIsKnown`, `NoOtherLeak`, `AuthIsOwn`.
- The properties speak of finished calls; `SetupInv` speaks of what a call's script
  still has to do: each part is there or still to be allocated (`CompleteInv`); what
  dangles is a text of `set_uri` that is made again, in `init` the scheme (`DangleInv`,
  `TextSteps`); the configuration's host is set once, over nothing but the URI's
  (`LeakInv`); once the authorisation is no longer to be made, neither is a credential
  (`AuthInv`, `InitOrder`). The lemmas on scripts (`EntriesJoin`, `NoneAfterJoin`,
  `TailOf`, `InitEntries`) say what is in the concatenated blocks and in which order,
  which is the order of the C statements.

`LedPixels_proofs`, assuming `LedAssumption`, for every length of the strip, set of
formats, component levels up to 16 bits, hues and shades, and number of calls:

- `TypeCorrect`, `PixelsAreHeld`, `HsvIsNear`.
- `PixelsHold` is about bits on the wire. `PixelInv` is about bytes: each byte of a
  colour that was set is coded at its place (`Shown`, `Coded`, `Place`). A format the
  check lets through gives every component a position of its own (`FormatFits`), so
  the place of a byte tells the pixel, the component and the byte it belongs to
  (`Located`, `PixelIs`), and a call writes to no place but its own
  (`PutShows`). `ReadsCode` is then about one byte: its three code bytes, sent bit by
  bit, are 110 for each 1 and 100 for each 0.
- `HsvNear` bounds what the conversion's two divisions lose (`LowIs`, `AdjIs`): for each
  sixth of the circle the exact value of each component is written out
  (`IdealIs`), and the result compared with it (`Rounded`).

`LedStrip_proofs`, assuming `StripAssumption`, for every length of the strip, number of
symbols of a pixel and size of the memory:

- `TypeCorrect`, `RefreshIsShown`.
- While the driver waits, the wire carries the first part of the flushed buffer, up
  to where the encoder is (`Encoding`), and the end of a frame leaves everything at
  rest (`RmtInv`). A wait that fails is why the invariant speaks only of states from
  which a refresh can come past `rmt_enable`. `DivMod`, `DataJoin` and `SessionIs`
  are about the encoder: a session continues the data where the last one stopped,
  wherever the memory cut it, within a pixel or at the end. `SpiInv` says that the SPI
  driver has no encoder at work.

Model-checked only: all liveness (`ConnectReturns`, `BootResumes`, `ParseEnds`,
`QueuesDrain`, `BootSettles`, `StatusFollows`, `CallEnds`, and what `WebsocketLive` checks),
which TLAPS does not prove here, since it has no rule for fairness and `ENABLED`.

## Not modelled, and the plan

What could still be modelled:

1. `ConsoleLine`: `console_read_line` and `console_read_int` against terminals
   that end lines with CR, LF or both (with CR LF the LF is left for the next
   read, console_manager.c:47).
2. `Broadcast`: the relay `server.py`, whose set of clients changes while a
   broadcast awaits (server.py:23).
3. `PacketFormat`: the checks of `DataProcessing.process` against
   `audio_packet_t`, older firmware's packets, and the text messages that share
   the connection.
4. The shutdown of the server (main.py:98: threads blocked in `Queue.get` are never
   woken), which rests on how the interpreter joins its threads; and the recording,
   which nothing stops (audio_manager.py:144).

Left out for good: hardware I/O (I2S, OLED, button), page texts, the
contents of samples and of recognised text, TCP and TLS below the WebSocket
client, the RMT and SPI drivers below the strip (external, as far as the strip
uses them), the examples and headers of the two components, and sources
that are in no build.
