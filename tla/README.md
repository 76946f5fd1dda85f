# PicoW-BLE-Terminal: verification project

TLA+ models of the firmware (`src/`) and of its over-the-air updater
(`picow-ota/`), model-checked with TLC and, where it says so, proved with TLAPS
for every value of the constants.

## 1. The system

A Raspberry Pi Pico W runs one application image out of two flash slots, chosen
by a bootloader.  The application is a shell, reachable over BLE (Nordic UART
service), over USB CDC, and, for commands bound to GPIO edges, without any user.
Everything runs on one core in BTStack's run loop.  Concurrency comes from three
places:

* GPIO interrupts (`bindings.c`) against the run loop;
* commands that wait by polling (`cyw43_arch_poll`) for the network, a delay or
  a Wi-Fi join: timers, BLE packets and therefore *other shell commands* run
  nested inside the one that waits;
* the reset line: power can fail between any two steps, and only flash survives.

| Component | Source | State | Operations | Talks to |
|---|---|---|---|---|
| Updater | `picow-ota/src/ota.c` | `g_status`, page buffer, running hash, metadata sector, both slots | begin, write, finalize, abort, verify, apply, confirm, init | flash, bootloader (through the metadata sector) |
| Bootloader | `picow-ota/bootloader/main.c` | metadata sector | count the attempt, roll back, fall back, jump, BOOTSEL | application (jump), metadata |
| `ota` command, auto-confirm | `src/cli/commands/cmd_ota.c`, `src/main.c` | `dl_state_t`, one-shot timer | download, apply, confirm, abort | updater, HTTP |
| HTTP client | `src/network/http_get.c` | one static context, lwIP callbacks | resolve, connect, receive, time out | `ota download`, `script fetch` |
| Shell core | `src/cli/cli.c`, `shell_state.c`, `parser.c` | line buffer, expansion buffer, `$?`, positional arguments, capture | feed, dispatch, expand | commands, transports |
| Control commands | `cmd_run.c`, `cmd_repeat.c`, `cmd_while.c`, `cmd_if.c` | stack of running scripts | run, repeat, while, if | shell core, scripts |
| Script capture and store | `cmd_script.c`, `storage/scripts.c` | capture buffer and owner, sixteen flash sectors | save, fetch, load, rm | shell core, HTTP, flash |
| Bindings | `src/system/bindings.c` | table of bindings, IRQ masks, pending flags, one flash sector | add, remove, clear, IRQ, dispatch, save, load | GPIO, shell core, flash |
| Configuration | `src/storage/config.c` | one flash sector | load, save, clear | Wi-Fi |
| BLE UART | `src/ble/ble_nus.c` | TX ring, connection handle, subscription, can-send-now request | send, flush, connect, disconnect, write | shell core, BTStack |
| Line editing, parser, expansion | `cli.c`, `parser.c`, `shell_state.c` | line buffer, cursors, `g_expand_buf` | feed a byte or a packet, tokenize, expand, dispatch | transports, variables |
| Variables | `src/system/vars.c`, `cmd_set.c`, `cmd_unset.c` | table | set, get, unset | expansion |
| Peripheral drivers and commands | `src/drivers`, `cmd_gpio.c`, `cmd_pwm.c`, `cmd_i2c.c`, `cmd_adc.c`, `cmd_temp.c` | a ready flag per driver; pads, pwm slices, converter | write, toggle, read, latch, pwm set and off, bus access, conversions | bindings (the same pads), shell core (latch waits) |
| Wi-Fi | `src/network/wifi.c`, `cmd_wifi.c`, timer in `main.c` | link, saved credentials, one-shot timer | connect, forget, auto-connect | radio, configuration, shell core (the join waits) |
| Network diagnostics | `cmd_net.c` | one `probe_t` per running `net test` | `net test`, `net arp`, `net info` | lwIP, shell core (both wait) |
| Information commands, sysinfo, uptime, log, CRC, SHA, linker scripts | `src/cli/commands`, `src/system`, `picow-ota` | log ring | read, format | commands |

What makes each hard, and what makes it correct:

* **Updater.** Chunks split pages anywhere; a page, a sector or the transfer may
  fail; `ota abort` may run nested in a download.  Correct: what is in the slot is
  what was hashed, inside the slot, never twice programmed, never the running one.
* **Bootloader with updater.** Two programs share one record that is rewritten by
  erase-then-program; power may fail in between.  Correct: attempts are never lost,
  an unconfirmed image is booted a bounded number of times, a settled slot was
  confirmed, and the device is never left without an image.
* **HTTP client.** Callbacks of an abandoned request arrive while the next one
  uses the same static context.  Correct: every byte handed on belongs to the
  running request, and its result is reported once.
* **Shell, scripts.** One expansion buffer and one capture are shared by three
  shells and by nested commands.
* **Bindings.** Interrupts set flags the run loop clears.  Correct: no edge of an
  armed binding is lost, and none fires for a binding that was removed.
* **BLE.** Exactly one can-send-now request must be outstanding while there is
  something to send.
* **Flash records** (`config.c`, `scripts.c`, `bindings.c`).  Erase-then-program:
  a crash may lose a record but must never show a wrong one.
* **Tokenizer and expansion.**  `cli_parse` writes its words into the line it is
  reading, `expand_argv` copies values into a buffer of fixed size, `set` cuts its own
  argument in two there.  Correct: what was entered is what runs, and nothing is
  overrun.
* **Variables.**  Slots given up and taken again.  Correct: a bounded map.
* **Drivers.**  Five drivers share pads, slices and the converter and remember in
  flags of their own what they set up once.  Correct: a pin does what was last asked
  of it, and a latched pin goes low again.
* **Wi-Fi and probes.**  Waits nest in each other, and lwIP calls back into a local
  variable of a handler that may have returned.  Correct: what is saved is what was
  joined, a verdict is the probe's own, and no freed pcb is aborted.

Two facts about waiting shape several models.  A command that waits
(`cli_keepalive_sleep_ms`, `http_get`, `net test`, `net arp`, a Wi-Fi join) calls `cyw43_arch_poll`, which
lets the async context run its other workers: BTStack's timers and packets, and
with them the USB poll timer, the bindings timer, the auto-confirm timer and
received BLE lines, all *inside* the waiting command.  And a line of input that
arrives this way is dispatched as any other, so handlers pile up on one C stack
while every static buffer exists once.

## 2. Modules and plan

Done in this order, the most important behaviour first:

| Module | Models | Composed from |
|---|---|---|
| `OtaFlash` | the two slots, erase and program | |
| `OtaStaging` | the streaming half of `ota.c` and `ota download` | `OtaFlash` |
| `StagingPromise` | abstract: what `ota.h` promises about the staged image | |
| `OtaDownload` | closed system for the streaming half, its properties | `OtaStaging`, refines `StagingPromise` |
| `OtaBootloader` | the bootloader and the rewriting of the record | `OtaFlash` |
| `OtaSystem` | the whole device under update | `OtaStaging`, `OtaBootloader` |
| `OtaStagingProofs`, `OtaDownloadProofs`, `OtaSystemProofs` | theorems | |
| `HttpGet` | the HTTP client with nested calls and stale lwIP objects | |
| `HttpGetProofs` | theorems | |
| `ScriptSlots` | the slot table of the script store, as operators | |
| `FlashRecord` | one record with a CRC in a sector of its own | |
| `StorePromise` | abstract: the script store as a map from names to bodies | |
| `Storage` | script store and credentials with power cuts | `ScriptSlots`, instance of `FlashRecord`, refines `StorePromise` |
| `Shell` | three shells, nested handlers, captures, scripts | `ScriptSlots` |
| `BleNus` | connections, subscription, transmit buffer | |
| `Bindings` | GPIO bindings, their interrupt, their record | instance of `FlashRecord` |
| `CommandLine` | bytes to commands: editing, tokenizer, expansion, dispatch, variables | refines `VarPromise` |
| `VarPromise` | abstract: the variables as a bounded map | |
| `TerminalProofs` | theorems about `BleNus` and `CommandLine` | |
| `StorageProofs` | theorems about `Storage` and `Shell` | |
| `Pins` | gpio, pwm, i2c, adc and temp on shared hardware | |
| `GpioProofs` | theorems about `Bindings` and `Pins` | |
| `Network` | joins, the auto-connect timer and the probes, nested in each other | |
| `NetworkProofs` | theorems | |
| `MC...` | the small instance of the module of that name, one for each run | |

A definition whose comment begins with "slip" is a plausible mistake in the
definition that follows it (a dropped guard, an off-by-one, a swapped order).
Nothing uses it; exchanging it for the right one shows that a property notices.

Planned next: a composition of `Shell` with `HttpGet` and `Network`, in which the nested
waits of the one are those of the others, and the join that `ota download` makes by
itself (cmd_ota.c:90-100).

## 3. How the models correspond to the code

**OtaStaging, OtaDownload.** `g_status`, `g_page_buf`, `g_next_page_off` and
`g_sha` are the statics of `ota.c`; `g_page_buf_len` is the length of the
sequence, and a digest is the sequence of bytes it was computed from.  `dl` is the
one running `ota download` (its place, and `dl_state_t.bytes`).  `ota_begin` is
`BeginOk` and, when the erase of sector *k* fails, `BeginIo`; `ota_write` is
`ChunkOk`, `ChunkIo` (page *k* of those the chunk completes fails) and
`ChunkRefused`; `ota_finalize` is `FinalizeOk` and `FinalizeFailed`; `ota_abort`
is `DownloadAborts` (after a failed transfer) and `ShellAbort` (from another
shell, at any moment).  A cell programmed twice becomes `Smear`.

**OtaBootloader, OtaSystem.** `main` of the bootloader is one action per branch,
each ending where the code erases, programs, jumps or stops: `BootFresh`,
`BootNothing`, `Rollback`, `CountAttempt`, `BootSettled`, `JumpActive`,
`FallBack`, `SelectNothing`, `JumpWritten`.  `write_metadata` is two steps,
`MetaErase` and `MetaProgram`, and power may fail before either
(`PowerLoss`).  The application is `OtaInit`, `Apply`, `ShellConfirm`,
`AutoConfirm`, `ConfirmWritten`, `MetaWriteFails` and the actions of
`OtaStaging`.  An image *runs* if it is whole, linked for the slot it is in, and
one of `Healthy`; anything else hangs when jumped to, except that an image linked
for the other slot jumps there, because its vector table points there.

**HttpGet.** `ctx` is the static `ctx_t`, `Fresh` its `memset`.  Every lwIP
callback is an action, and each is enabled as long as lwIP could still call it,
whether its `http_get` has returned or not; `stack` are the calls that have not
returned.  A connection the peer has closed is `closing` until lwIP forgets it: `tcp_close`
has been called, but a reset or a time-out still runs `tcp_err_cb`, on whatever call then
owns the context (http_get.c:243, :309-310).  lwIP refuses a `tcp_write` to no pcb, which
is the failure of `send_request` (:209-212).  A response is a sequence of header units followed by body units, which
`TcpReceive` takes in pieces of any size.

**Storage.** Each call is a few steps, one per flash operation, any of which may
be refused (`ScriptRefused`, `FlashRefuses`) or interrupted (`PowerCut`, with
every content an interrupted operation may leave).  A CRC is the flag `sound`.
A sector whose magic survived an interruption but whose name did not counts as in
use and is found by no name: the model keeps such slots, so the store may fill up
with them, as the real one may.  A damaged name is taken to spell no other script's.

**Shell.** `stack` are the handlers that have not returned, with the iteration
they are at.  `intact` says that a handler's `argv`, which points into
`g_expand_buf`, still spells its command; every dispatched line sets it to FALSE
below it.  `Line`, `CaptureLine` and `CaptureEnds` are `end_of_line` with
`cli_dispatch_line`; `BleReset` is `cli_reset`; the innermost handler proceeds by
`SleepEnds`, `FetchChunk`, `FetchEnds`, `LoopStep`, `RunLine`, `RunEnds`.  A BLE
line that arrives inside a BLE command finds its line buffer still full, is
appended to it, and is dispatched as the first word of what is there: `held`,
`Appended` and `CaptureGarbled`.  `Runs` are the places of the scripts under way,
`Fetches` those of the transfers, and `Overlap` says that a transfer and a capture,
or two transfers, use `g_cap_buf` at once; `mixed` remembers that it was ever so.

**BleNus.** `ble_nus_send` is `Send` (and the greeting in `Subscribe`), the
three events of `packet_handler` and `tx_flush` are actions of their own; a byte
is the number of its place in everything offered, so order, loss and duplication
show.  BTStack (external) owes one can-send-now event once asked, and forgets it
with the connection.

**Bindings.** Every store of `bindings_add`, `_remove`, `_clear_all` and `_load`
that the interrupt handler can see is a step (`todo` are the updates the call
still has to do, `at` the next store), and `Interrupt` may come between any two.
`gpio_set_irq_enabled` adds to the enabled events or disables both
(`Refreshed`).  Milliseconds count modulo `TimeMod`, and the subtraction of
`gpio_irq_cb` is modular as in the code.  The stores are taken in program order;
a compiler that reordered the non-volatile ones is not modelled.

**CommandLine.**  `FeedByte`, `FeedNothing` and `EndOfLine` are one call of
`cli_feed`, or the end of a packet in `cli_feed_line` (`PacketEnd`).  Each move of
the two cursors of `cli_parse` is an action (`SkipSpace`, `StartWord`,
`TakeEscaped`, `TakeSymbol`, `TakeQuote`, `EndWord`, `Unclosed`); `EndWord` keeps
the code's order, the read cursor before the terminator.  `ExpandNext` copies one
literal or one value of `expand_argv`, `Reference` being what `$` introduces;
`ExpandWordDone` terminates a word.  `argv` and `words` hold positions, as the
code holds pointers, so a handler that writes into `g_expand_buf` is seen by the
next one.  The handlers are `set`, `unset` and `repeat`, spelled `s`, `u` and `r`;
any other word is an unknown command.  Abstracted: a count of `repeat` has one digit,
and after a line the buffers, which nothing reads again, go back to their initial
values.  One shell, and no handler that waits; what packets and nesting do to each
other is in `Shell`.  The words a line means are computed by `Lex` and `Expanded`,
which read it a symbol at a time and share no buffer.

**Pins.**  A pad has its function, direction and output register; a slice its
divider and two compare levels; the converter its sensor switch.  Every driver call
is an action that writes what the SDK calls in it write, and the driver's own
flag (`gpioInit`, `busReady`, `adcReady`, `adcPins`, `tempReady`).  `LatchBegins`
and `LatchEnds` are the two halves of `gpio latch`, with any commands between.
`MakeInput` is what `refresh_pin_irq` does to the pad.  `asked`, `lost` and `disturbed` are
histories.  The values read and transferred change no state and are left out, and
so are refused arguments.

**Network.**  `stack` are the waits, innermost last, as in `Shell`; here each has
what it waits for.  A join's `creds` are pointers into `g_expand_buf`: `intact`
says whether they still spell what was typed, and `Stray` is what they spell when not
(one value for all other texts).  The radio (external) joins, fails, finds no
network or loses the link when it likes; in `NoNetwork` the SDK call asks again with
what its pointers spell then.  `net test` has a pcb, which lwIP owns (`pcbs`), and a
`probe_t` (`memory`), which lives on the stack of the call.  A callback that comes
after the call has returned writes nowhere that matters, or into the `probe_t` of
a call that is waiting now (`Writes`, `struck`): damage to other locals of other
handlers is undefined behaviour that is not modelled further.  `Restart` is power,
watchdog, `reboot` or the reset button.

## 4. The runs

Twelve runs, ten of which pass; each finishes in under three minutes with two workers.

| Run | Question | Bounds, and why they are enough |
|---|---|---|
| `ota_download` | Is what was hashed what is in the slot, inside it, programmed once, and does `ota.c` keep the promise of `StagingPromise`? | pages of 2 bytes, 1 page a sector, 3 sectors; chunks of 1-3 bytes over 3 values: chunks below, at and above a page, splitting it anywhere, and a slot that is filled exactly and exceeded; sizes unknown and 5 (odd, so that the last page is partial) |
| `ota_system` | Are attempts counted, is probation bounded, was a settled slot confirmed, is the device never stranded, and does a hanging update undo itself? | 2 sectors of one byte (an image is torn when half of it is there), 2 attempts (the first, the last, and one too many), three images: good for each slot and bad for one; power cut at every step |
| `http_get` | Does an undisturbed call get its own body, and its result, once; is the pcb never dangling; does every call return? | 2 calls (what one leaves to the next, nested or after it), five answers: whole, without length, 404, headers one unit too long, body longer than announced; header buffer of 2 units, which the answers fill and exceed |
| `storage` | Do scripts and credentials survive power cuts as promised? | 3 names compete for 2 slots (a full store, an overwrite, a new name), bodies of 0-2 lines with the limit at 1 |
| `shell` | Are buffers, single resources and captures safe under nesting, and does every line end? | 3 lines of input, 2 names, 1 slot, bodies of up to 2 lines, `while` capped at 2: three handlers of three shells in one another, a script removed under its reader, a capture that overflows |
| `ble_nus` | Is no wake-up lost and no byte of another peer delivered? | buffer of 3 bytes, notifications of 1 or 2, three connections, ten bytes offered: full, overfull and wrapped several times over |
| `command_line` | Is what was entered what runs, is no byte overwritten before it is read, is no buffer overrun, and are the variables a map? | three packets out of nearly 700: every line of up to 3 symbols over blank, quote, backslash, `$`, brace, letter and digit and of 4 over the first three and a letter, and sessions that fill the table (2 slots), the line (9), the argument list (4) and the expansion buffer (10) exactly and by one too many; both transports |
| `pins` | Does every pin do what was last asked of it, within the four limits `ClaimHolds` names, and does every latch end low? | pins 4 and 5 (one slice, one I2C bus) and 26 (the converter), three frequencies (one divider in range, one clamped at either end), duties 50 and 100 %, latches nested twice, five commands |
| `network` | Is what is saved what was joined, is a verdict the probe's own, and is no freed pcb aborted? | two shells, BLE one of them, two networks, 2 probes (a dead one beside a living one), 4 lines, one restart |
| `bindings` | Is every binding armed, pending only for its own edge, debounced, dispatched? | 2 pins and 2 slots, debounce 2 on a clock of 4 (windows lie across the wrap as often as not, and an old stamp comes round again), 2 calls or power cuts, each a whole update or load |

`CHECK_DEADLOCK FALSE` is set where the system may stop: a bound on calls, lines
or bytes is used up, and nothing is owed to anybody.

*Fairness.* `ota_system`: each step of a boot is strongly fair (power does not
fail at the same step for ever), a requested reboot happens, and somebody cycles
the power of a board that hangs: no watchdog is armed that would.  `http_get`:
the wait loop is weakly fair, being what pumps everything else, and lwIP answers
or gives up a name query; no fairness is asked of peers.  `shell`: the innermost
handler goes on; this is `http_get`'s own liveness, and otherwise plain code.
`ble_nus`: a can-send-now event that is owed comes when a buffer is free, and
then the notification is taken.  `bindings`: the thread and its 20 ms timer go
on; none is asked of interrupts or of the clock.  `pins`: a latch's wait, which is
`cli_keepalive_sleep_ms` with a deadline, ends.  `network`, `command_line`, `storage`
and `ota_download` ask for none: they check safety only.

Some runs check a conjunction of named invariants: `DownloadInv` is
`WaitingPageInSlot` and `BusyOnlyByLostTail`; `AnswerIsOwn` is `OwnBodyInOrder` and
`OkMeansReceived`; `ShellInv` is `TypeOK`, `RunIsBalanced` and `OneCapture`; `TableInv`
is `TypeOK`, `BoundIsArmed` and `LoadRestores`; `StoreInv` is `StorageTypeOK` and
`NamesUnique`; `ReadsAsMeant` is `ParsesAsMeant` and `ExpandsAsMeant`; `PinsInv` is
`PinsTypeOK` and `ClaimHolds`; `NetworkInv` is `TypeOK` and `AbortsLivePcb`.

What the passing runs leave out by condition is stated in the property: `~Mishap`
(no record torn by a power cut, no operator who downloads on probation or applies
an image built for the wrong slot), `~spoiled` (no erase of a later download failed
half-way), `alone` of `HttpGet` (no other call is nested into this one, and when it began no call,
name query, connection attempt or unread data of another was outstanding; connections
that were merely left open, as every finished transfer leaves its own, may close and fail
under it) and there `sole` (none was left open either: only then does a close that ends an answer
without Content-Length have to be its own), `alone` of `Network` (a join that no other
line disturbed), `~mixed` (no transfer and capture overlapped, no line was garbled), `lost`
and `disturbed` (a driver is not heard on a pad another one has taken; the two pins of a
slice are not independent), `FallsShort` (a frequency no divider has is clamped to the
nearest; the level of 100 % does not fit its register, and the pin stays low), `struck` (a
dead probe's callback wrote to this one).  What happens otherwise is in the next section;
a hazard whose bad outcome is left out so is not counted as covered in `PROJECT.json`,
and its note says which of the statements below is about it.

## 5. Where code and documents disagree

Two runs each check one statement of a comment and find it violated by what the code
does.

| Run | Said | Done |
|---|---|---|
| `ota_rollback` | `bootloader/main.c:125-127`: rollback goes to the previous known-good image | a download made during probation replaces the only confirmed image, and the flip then goes to one that never was |
| `network_clobbered` | `cmd_wifi.c:2`: `wifi connect` joins and persists credentials | a line of another shell, dispatched while the join waits, rewrites `g_expand_buf`, where `ssid` and `psk` point, and other words are written to flash |

### Known divergences

More of the same kind, stated in the modules.  Those with a configuration of their own
name it; where a module is named, put the property in place of the INVARIANTS and
PROPERTIES of that module's configuration, and TLC shows how it comes about.  The rest
are notes.

* `ReadyMeansStaged` (`OtaDownload`): `ota.h:49,80` says that `image_ready` means a
  whole image and that `ota_apply` fails otherwise; `ota_begin` returns `OTA_ERR_IO`
  from its erase loop with the flag of the previous download still set.
* `BodyOrError` (`HttpNested.cfg`): `http_get.h:3-4` says that the caller has the whole
  body or an error; a call made inside another clears its context, and the outer one
  returns the inner one's verdict, without a body.
* `LoopKeepsItsCommand` (`ShellLoop.cfg`): `cmd_repeat.c:3` says that `repeat N` runs
  the sub-command N times; a line dispatched inside rewrites `g_expand_buf`, where the
  loop's `argv` points.
* `RepeatedAlike` (`CommandLine`): the same without any other shell.  `set` cuts its
  own `NAME=VALUE` in two in `g_expand_buf`, so the second round of
  `repeat 2 set A=1` is a usage error.
* `TakenMeansCapturing` (`ShellWedge.cfg`): `cmd_script.c:79` refuses because a save is
  in progress on another shell; after a BLE disconnect inside a capture nobody captures,
  and every save is still refused.
* `FailureIsOwn` (`Network`): `cmd_net.c:1` calls `net test` a one-shot connect probe;
  `probe_connected_cb` closes the pcb and leaves the address of its `probe_t` in it, so a
  reset that comes later writes into a later probe, which then reports a failure.
* `GpioDrives` (`Pins`): `gpio_ctrl.h:25` says that a write configures the pin as an
  output; after pwm, I2C or the converter has had the pin, `ensure_init` thinks that it is
  set up, and the pin's function stays theirs.
* `SensorStaysOn` (`Pins`): `adc_init`, called for the first `adc` after a `temp`, resets
  the converter with the sensor switch in it, and `temp` never sets it again.
* `DutyIsAsAsked` (`Pins`): 100 % is a compare level of 65536, which is 0 in sixteen
  bits: the pin stays low.
* `FrequencyIsAsAsked` (`Pins`): above about 1.9 kHz the divider is clamped, so `pwm` at
  5 kHz is `pwm` at 1.9 kHz; `pwm_ctrl.h:19` says "8 Hz .. ~1 MHz".
* `MismatchIsNotApplied` (`OtaSystemMismatch.cfg`): a download whose digest
  differs is announced as not to be applied, but `ota apply` applies it.
* `ToldMeansSettled` (`OtaSystemTold.cfg`): `ota confirm` says that no rollback
  will happen also when its flash write failed.
* `MislinkedIsRolledBack` (`OtaSystemMislinked.cfg`): an image linked for the
  other slot starts the image in that slot, which then confirms the wrong one.
* `PowerLossKeepsProbation` (`OtaSystemTornRecord.cfg`): a power cut between erase
  and program of the metadata ends the probation of the pending image.
* `CallbackOnlyWhileWaiting` (`HttpDeadCallback.cfg`): an early return of
  `http_get` leaves its callback in the context, for an old connection to call.
* `OkAtOwnClose` (`HttpGet`): `http_get.c:233-234` says that a peer's close is success if
  the whole body has come and a truncated transfer otherwise.  The FIN of the previous
  transfer's connection ends an answer without Content-Length too, with `HTTP_OK`,
  wherever it has got to.
* `DeadlineSaysTimeout` (`HttpDeadline.cfg`): `tcp_abort` runs `tcp_err_cb`, whose
  verdict comes first, so a deadline is reported as `HTTP_ERR_ABORTED`.
* `FetchOwnsTheBuffer`: `cmd_script.c:182-183` says that nothing else touches
  `g_cap_buf` during a fetch; a save begun in another shell meanwhile does.  And
  the fetched text is stored under the name `argv` spells when it has arrived.
* A BLE packet that arrives inside a waiting BLE command is appended to the line
  under dispatch; that line is lost, and only its first word dispatched again.
* `bindings.c:111-112` says that the interrupt mask is set to exactly the bound
  edges; `gpio_set_irq_enabled` only adds.  It does no harm: the handler compares
  the edge itself (`PendingIsOwn` holds).  The same goes for the interrupts that a
  load leaves enabled on pins it dropped.
* `cmd_reboot.c:15-17` says that 50 ms are enough for the goodbye to leave; it is a bare
  `sleep_ms`, which pumps neither BLE nor lwIP (`duration.h:26`), so nothing leaves.
* A stamp of 0 stands for "never" in the debounce test, so an edge in the first
  milliseconds after boot, or just as the clock comes round, is dropped.

## 6. The proofs

Proved for all values of the constants that satisfy the named assumptions of the
modules (`LayoutAssumption`, `StagingAssumption`, `DownloadAssumption`,
`BootAssumption`, `SystemAssumption`, `HttpAssumption`, `SlotAssumption`,
`CredsAssumption`, `ShellAssumption`, `BleAssumption`, `CommandLineAssumption`,
`BindingsAssumption`, `PinsAssumption`, `NetworkAssumption`): any page, sector and slot
size, any images and chunks, any number of attempts, calls, links, scripts, bindings,
pins and lines, nested to any depth.  Every safety invariant and every refinement that a
passing run checks is a theorem.

| Theorem | Property |
|---|---|
| `StagingTypeCorrect`, `ReceivedBytesAreStored`, `ReadyImageIsTheHashedOne`, `EveryPageProgrammedOnce`, `UpdaterSparesRunningSlot` | `StagingTypeOK`, `ReceivedIsStored`, `ReadyImageIsHashed`, `NoDoubleProgram`, `RunningSlotUntouched` of `OtaDownload` |
| `NextPageHasRoom`, `UpdaterKeepsPromise` | `DownloadInv`, `StagingRefinesPromise` of `OtaDownload` |
| `SystemTypeCorrect`, `AttemptsNeverLost`, `ProbationEnds`, `SettledSlotWasConfirmed`, `NeverNeedsACable`, `ExecutionIsSafe` | `TypeOK`, `TrialsAreCounted`, `BoundedWithoutMishap`, `SettledMeansConfirmed`, `NeverStranded`, `ExecutingSlotUntouched` of `OtaSystem` |
| `HttpTypeCorrect`, `HttpPcbIsLive`, `HttpAnswerIsOwn` | `TypeOK`, `PcbIsLive`, `AnswerIsOwn` of `HttpGet` |
| `StoreIsSound`, `CredentialsAreNeverMixed`, `StoreImplementsPromise` | `StoreInv`, `CredentialsAreWhole`, `StoreKeepsPromise` of `Storage` |
| `ShellsAreSound`, `ScriptsAreAsMeant` | `ShellInv`, `StoredAsMeant` of `Shell` |
| `BleTypeCorrect`, `WakeUpNeverLost`, `EachPeerGetsItsStream` | `BleTypeOK`, `NoLostWakeup`, `StreamIsOwn` of `BleNus` |
| `LineTypeCorrect`, `UnreadNeverOverwritten`, `LinesAreReadAsMeant`, `VariablesAreAMap` | `TypeOK`, `UnreadIsIntact`, `ReadsAsMeant`, `TableKeepsPromise` of `CommandLine` |
| `LinesAreReadToTheEnd` | `Onward`, stated beside its proof: reading a line ends |
| `TableIsRight`, `NoStaleEdge`, `EdgesAreApart` | `TableInv`, `PendingIsOwn`, `AcceptedApart` of `Bindings` |
| `PinsDoAsAsked` | `PinsInv` of `Pins` |
| `NetworkSafe`, `VerdictsAreOwn`, `UndisturbedSaves` | `NetworkInv`, `VerdictIsOwn`, `SavedWasJoined` of `Network` |

*The streaming half* (`OtaStagingProofs`, `OtaDownloadProofs`).  The first module
has what erase, program and the page buffer do to cells and sequences, once, for
the other two.  The inductive invariant adds to the five properties only what the
slots may hold while a transfer runs: `ReceivedIsStored` says that flash and page
buffer together are the bytes hashed, and everything behind them is erased; a
page that is programmed next therefore hits erased cells (`NoDoubleProgram`), and
`FinalizeOk`, which empties the buffer, leaves the whole image in the slot
(`ReadyImageIsHashed`).  `RunningFits` adds that a running update is not also
announced as ready and fits its slot.

`NextPageHasRoom` needs two facts more (`PageInv`): pages begin on multiples of the
page size (`Aligned`), and a slot is a whole number of them, so that a page that begins
inside the slot also ends there.  `WaitingPageInSlot` and `BusyOnlyByLostTail` are
inductive with it.  `UpdaterKeepsPromise` is a step simulation: a chunk, whole or
broken off at a page, extends the abstract image by what was hashed (`AcceptStep`),
`FinalizeOk` announces it (`AnnounceStep`), what ends a transfer drops it (`DropStep`),
and every other step stutters.

*The device* (`OtaSystemProofs`).  The invariant is `Base`, which holds always
(types, and where `exec`, `g_status` and `meta` agree at each place `pc` can be),
and `Careful`, which holds until a mishap: a settled or to-be-settled record names
a slot that was confirmed and runs, a pending one has such a slot as its
alternative.  `TrialsAreCounted` alone is not inductive: between the counting of
an attempt and its jump the record in RAM, and then the one in flash, must be
strictly ahead of the boots that were made (`Counted`, part of `Base`).

*HTTP* (`HttpGetProofs`).  The types of the context and the connections, the
header bound and `PcbIsLive` are inductive together (`Core`); the types of the
histories are kept beside them (`Rest`).  The step that matters is a call that
clears the context while older connections live: it forgets their pcb, so that
none of their later ends can leave it dangling.

`AnswerIsOwn` is about calls that were alone from the first step to the last.  `Whole`
adds that calls begin in order and that only the youngest can still be alone (`Order`),
that a connection that was never opened carries nothing (`FreeIsEmpty`), what a call has
received that is no longer the context's (`Past`), and, for the one that is
(`Present`): other connections can only close or fail (`OthersSilent`, which `OthersKept`
carries over a step), and context and connection agree on how far the answer has been
read, state by state (`UnderWay`).  A close or a late `tcp_err_cb` of another connection
may clear the pcb of the context and give the verdict; it neither adds to the body nor
takes the call to `HTTP_OK` before its length, if it has one, is there.  A step of its own
connection moves both sides of the agreement.

*The script store* (`StorageProofs`, first part).  `NamesUnique` alone is not inductive:
the header of a save is programmed steps after its slot was chosen.  `CallOwnsSlot` says
that the slot of the call under way carries the call's name or none, and that no other
slot does.  That the first slot of a set exists when the set is not empty is the
well-foundedness of the numbers.  `CredentialsAreWhole` follows from what each flash
operation may make of the sector (`LoadIsWhole`); it rests on `CredsAssumption`: an erased
or torn sector spells no credentials.  For `StoreKeepsPromise` the abstract map is what
each name loads (`Held`), and the abstract call is the name and body of the one under
way (`Asked`); `SlotAssumption` keeps the absent body and the damaged name apart from the
real ones.

*The shells* (`StorageProofs`, second part).  The handlers on the stack differ in what
they carry, and any line rewrites the `argv` of all of them.  The invariant (`ShellIs`)
is the shape of the stack (`StackOK`: what each kind of handler has), of the argument
frames (`RunOK`, with `RunIsBalanced`), of the capture (`CapOK`, with `OneCapture`), that
whoever uses `g_cap_buf` has lines in the part it has filled (`BufOK`), and that names
are unique in flash (`FlashOK`).  `StoredAsMeant` needs `Faithful`: unless a transfer and a
capture ever overlapped, the buffer has one user, and what it has entered so far is what
the buffer holds.  Two lemmas carry the proof: a stack `Like` the one before has its
scripts and transfers in the same places whatever became of the `argv`s
(`PlacesKept`); and a dispatched line, which may be any command on top of any such
stack, keeps `ShellIs` (`DispatchKeeps`).  `ShellAssumption` says what a command is, that a
script is a sequence of lines no longer than the buffer, and that the flash at start-up
is what `Storage` leaves there.

*BLE* (`TerminalProofs`).  The three properties are inductive together; the
sequence lemma `HeadMoves` says that moving the head of the buffer to the peer
changes nothing else.

*The tokenizer* (`TerminalProofs`).  What has to be added to `UnreadIsIntact` is why
the write cursor never passes the read cursor (`ParseInv`): it is behind it or level
with it, or, after the last word's terminator, both are at the end of the line, where
nothing is left to read.  A terminator that is written at the level of the read cursor
falls on the blank that has just been stepped over, which is why the order of the two in
`EndWord` matters.  `LineInv` adds that lines and packets hold no terminator of their own.

*Line types, and the variables* (`TerminalProofs`).  `Shape` is `TypeOK` with what the
positions need to stay inside their buffers: the cursors inside the line (`TLine`), words
inside what has been copied (`TWords`), every nested `repeat` with a word to be
dispatched by (`TLoops`), names and values of the lengths `set` allows (`TSlots`).  For
`TableKeepsPromise` the abstract map is `Held`.  `Distinct` says that slots in use carry
different names; a bijection from those slots to the names in use then shows that there
is a free slot exactly when the abstract map has room, which is what makes the table's
refusal the promised one.

*What is read is what was meant* (`TerminalProofs`).  `ReadsAsMeant` compares what the
buffers hold with readings that share no buffer: `Lexed`, the reading of the line after
each of its symbols, and `Ahead`, the expansion of a word from each of its positions on.
Both are recursive functions, and what the proof needs of them is one unfolding each
(`LexedIs`, `AheadIs`, and `SizesAre` for the room the words need): a set of positions
that holds the first one and with each the next holds the last (`Climb`), which is the
well-foundedness of the numbers and no induction scheme.
`ReadInv` carries the reading so far beside the cursors.  Between words, the finished
words of the reading stand in the line before the write cursor (`Between`, `Laid`); inside
a word, what was kept of it since the last pointer is the reading's unfinished word,
except that a backslash is kept before it is known whether it escapes anything
(`Growing`).  With `UnreadIsIntact`, the symbol the code reads next is the next symbol of
the line, so each move of the cursors is one or two steps of `Lex`.
`CopyInv` then follows the copying: of the word under way the first *k* symbols have been
read, the buffer holds what they stand for, and that and what is still `Ahead` are the
word's expansion (`Copied`); the words before it stand in the buffer, terminated
(`Copies`).  How full the buffer is says how much of the room has been used (`Sizes`), so
what does not fit is more than there is room for whatever follows (`NextOverflows`).  Two facts
from elsewhere are needed.  A `$` in the rewritten line stands for what it stands for in
the word alone, because a terminator ends every name (`ReferenceMoves`); and values hold no
terminator (`CleanSlots`), because `set` takes them from words.  `CommandLineAssumption`
says that `$`, `#`, `?` and the digits start no name, as in `vars_name_char_first`.
`LinesAreReadToTheEnd` needs the same invariants: `cli_parse` writes into the line, so
that the terminator it loops towards is still ahead is not obvious, and a reference could
lead past the end of its word.

*Bindings* (`GpioProofs`, first part).  An update of a slot is several stores, and the
interrupt may come between any two.  `Inv` therefore speaks of the slots nobody is
working on (`Fixed`): pins are bound once, their edges are enabled, and a pending one has
seen its own edge (`OnePerPin`, `FixedArmed`, `FixedSeen`); of the slot at hand it says
how far the stores have come (`WriteOK`).  `AcceptedApart` needs `SinceIsClock`: within the
debounce time the modular difference of the stamps is the time that has passed, wrap or
no wrap.  `LoadRestores`, in `TableInv`, needs `Restoring`: the tasks left are the end of
those the load began with, the slots emptied and filled so far are the first ones, and
the next free slot is the one whose turn it is; `BindingsAssumption` has the tables that
flash may hold at start-up bind a pin once.

*Pins* (`GpioProofs`, second part).  `ClaimHolds` alone is not inductive: whether a pin does
what is asked of it depends on drivers that skip the set-up they remember having done.
`Known` says that a driver that remembers so has the pin, or is in `lost` for it.  Every
command is then a request for some pins and a change of what they had (`RequestKeeps`);
`ActsTable` spells out once what each request makes of a pad and its slice.  What a slice
does is measured against what was asked, and not by the driver's own formulas: it runs at
a frequency if its divider is the greatest that is not slower (`RunsAt`), and is high for a
percentage if its level is the greatest that is not more (`HighFor`).  `DividerIs` and
`LevelIs` show that the driver's arithmetic meets this everywhere but where the registers
end, which are two of the four limits in `ClaimHolds`.

*Network* (`NetworkProofs`).  The invariant is `NetInv`: the types; that every waiting
test has a probe of its own (`StackInv`); that what a waiting test finds in its
`probe_t` is what its connection did, unless that `probe_t` was struck (`Truthful`, in
`ProbeInv`); and that only the innermost wait can be undisturbed, with its words,
the radio and the link as it left them (`AloneInv`).  `AbortsLivePcb` alone is not
inductive, because a callback of one connection may write to the `probe_t` of another.

*Only model-checked.*  Every liveness property (`HungComesBack`, `EveryCallReturns`,
`LinesFinish`, `Drains`, `PendingIsTaken`, `LatchEndsLow`): liveness under fairness and
`ENABLED` are out of the prover's reach.  No module uses `RECURSIVE`; the recursive
functions of the models are unfolded by lemmas, and nothing is claimed by induction over
data.

## 7. Not modelled

* Log, uptime, system information, `help`, `system`, `info`, and the parts of other
  commands that only print: formatting and output.  `env` and a bare `set` print the
  table.
* The arithmetic of durations (`duration.c`) and of `repeat`'s count beyond one digit;
  hexadecimal input of `i2c`, its transfers and its scan; the scaling of converter and
  temperature values: functions of their input, with no state.
* SHA-256 and CRC-32: functions of bytes; a digest is modelled by the bytes it was
  computed from, a CRC by whether it matches.
* Linker scripts and build: in `OtaSystem` the slot an image is linked for is the
  constant `Link`.  Credentials that are compiled in with `-D` are not modelled.
* `wifi_disconnect` has no caller; the join `ota download` makes before it begins
  (cmd_ota.c:90-100) is not part of `Network`.
* What a dead callback of `net test` damages besides another test's `probe_t`.
* Text of URLs, headers, prompts and messages; reference counts of `pbuf`s; advertising
  and start-up of BLE; the second core (never started).
