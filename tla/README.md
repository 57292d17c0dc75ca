# A model of the NSWMP access point

This directory is a TLA+ development of the wireless termination point (WTP,
here: the AP) in `src/ap-free`. One process registers with an access controller
(AC) over UDP, receives the configuration of its WiFi interfaces, serves them
through hostapd, keeps in contact with the AC by ECHO messages and reboots the
machine when the contact is lost for good. The AC itself is in the repository
only as binaries and archives (`src/ac-install`); it is part of the environment.

## The system

| part | source | state it keeps | operations |
|---|---|---|---|
| main loop | `main.c` | `S_state`, `G_wmpsock`, `G_wmpaddr` | calls the handler of the state for ever; SIGINT takes the interfaces down and exits |
| INIT | `init.c` | - | identity, AC address and board name are read, or `exit(1)` |
| DSCV | `dscv.c` | a new socket | DSCV-REQ, one datagram decides: JOIN or SULK |
| SULK | `sulk.c` | the rest of the time | 10 s in which datagrams are thrown away, then DSCV |
| JOIN | `join.c` | a new socket, the ECHO time | JOIN-REQ, one datagram; its attributes configure and open the interfaces: RUN or SULK |
| RUN | `run.c` | `S_echonum` | an ECHO-REQ each ECHO time; REBOOT-REQ: 2 s of sleep and a reboot; lost contact: WAIT |
| WAIT | `wait.c` | the loop counter | 60 RECONN-REQs, 5 s each; a reply: RECOV; none: 5 s of sleep and a reboot |
| RECOV | `recov.c` | the loop counter | 2 RECOV-REQs, 3 s each; a reply: RUN; none: 10 s of sleep and a reboot |
| WiFi interfaces | `wifi.c` | `wifi[8]`, `S_WiFi_num`, files in `/tmp` | add an interface, open all, close all |
| AP data | `wtpinfo.c` | `S_echo`, the sequence number | getters, setters, `wtpInfoGetSEQNUM` |
| identity | `wtpid.c` | `S_wtpid`, the identity file | read it, or create it and read it back |
| messages | `wmp.c`, `wmp.h` | a `WMMSG`: bytes, offset, lengths | start a message, put an attribute, check a header, get an attribute |
| attributes | `wmpctrl.c`, `buff.c` | a `BUFF`: bytes, offset, length | pack and parse single attributes |
| sockets | `udphelp.c` | descriptors | open, receive with a time limit |
| commands, log | `util.c`, `log.c` | the mutex of the log | run a shell command, write a line |

The handlers share the socket, the data of `wtpinfo.c`, the table of `wifi.c`
and `S_state`, and call down to the other parts. There is one thread. What makes
the program hard is what it waits for: at every `select()` or `recvfrom()` any
datagram from anyone may arrive, late, twice or not at all, the wait may time
out or fail, a signal may end the process, and a reboot it asked for may take
place. State survives from one visit of a handler to the next (the ECHO count,
the table, the sequence number) and, in the identity file, from one process to
the next. Two things run beside that thread: the handler of SIGINT, on its stack,
and the shell scripts that start and stop hostapd, in the background.

What makes the parts correct:

* the session: the AP comes to RUN through JOIN, goes from a lost controller
  back to RUN only through RECOV, and keeps its interfaces on the air meanwhile;
* the count of missed ECHOs neither ends a session early nor late, and starts
  each session at zero; no stream of datagrams puts a timeout off, but for
  REBOOT-REQs, for each of which the AP sleeps;
* a dead controller is noticed and given up, whatever it left on the network, and
  a working one is joined at last;
* one socket is open, at most, and the handlers after JOIN have it;
* the table of interfaces, their files and what hostapd serves agree, and the
  exit leaves nothing on the air;
* a message is read within its bounds and to its end, and what one side put the
  other gets;
* the identity is whole, the one on file, and survives restarts.

## Modules

| module | models | made of |
|---|---|---|
| `WtpSession` | abstract: the session the AP promises | - |
| `WtpRadio` | abstract: what becomes of the interfaces | - |
| `Wtp` | the process: `main.c` and its handlers | implements `WtpSession`, `WtpRadio` |
| `WtpNet` | the AP with a controller and a network | extends `Wtp` |
| `WtpWifi` | `wifi.c` command by command, `utilDoCMD`, SIGINT, the mutex of the log | implements `WtpRadio` |
| `WmpAttr` | the values of attributes: `buff.c`, `wmpctrl.c` | - |
| `WmpMsg` | messages: `wmp.c` and the loops that read them | extends `WmpAttr` |
| `WtpId` | the identity and its file: `wtpid.c` | - |

`MCWtp`, `MCWtpNet`, `MCWtpWifi`, `MCWmpMsg` and `MCWtpId` give the constants
values for TLC. `WtpProofs`, `WtpSessionProofs`, `WtpNetProofs`, `WtpWifiProofs`,
`WtpWifiAirProofs`, `WmpAttrProofs`, `WmpMsgProofs` and `WtpIdProofs` hold the theorems. An operator
with an underscore in its name (`LostContact_OffByOne`) is a mutant: the
definition before its suffix with a plausible bug, which some property refutes.

`Wtp` is the core: the process as the loop of `main()`. One action is the code
between two points where a handler blocks, so `pc` has "ready" (a handler is
about to run up to where it blocks), "recv" (it is blocked for a datagram) and
"sleep" (it is in the `sleep()` in front of a reboot command), besides three ways
of having stopped: "exit", "hung" (the endless loop of `joinParseRep`) and
"undef" (after undefined behaviour). Variables carry the names of the code or
say in their comment which variable they are. Actions are named after the
handler and what happens: `DscvSend`, `DscvRecv`, `DscvTimeout`, `SulkStart`, ...,
`RecovGiveUp`. `wait.c` and `recov.c` are the same code with other messages,
times and counts, so both use the operators `RetrySend`, `RetryRecv`,
`RetryAgain`, `RetryGiveUp` and `RetryReboot`. `sent` holds the datagram of the
last step; `joined` and `quiet` are history variables no action reads.

The sleeps of `run.c:114`, `wait.c:47` and `recov.c:43` take `RunPause`,
`WaitPause` and `RecovPause` ticks of `nap`. In them the AP reads nothing, so what
arrives lies in its socket, and `tv`, the time left of `select()`, stands still:
after the sleep of `run.c` the handler waits on for the rest of its ECHO time.
The reboot command comes after the sleep, in an action of its own (`RunReboot`,
`WaitReboot`, `RecovReboot`), and SIGINT or a reboot asked for before may come in
between. (The log of `wait.c:46` says "after 10s" where 5 s follow.) The random
sleep of `init.c:46`, with no socket open, takes no time in the model: no property
is about how long INIT takes.

The environment of `Wtp` is arbitrary: `Receive(m)` is possible for every record
of `Msg`, from any peer, with any code, number and payload. That includes lost
(never received), duplicated, delayed and reordered messages. A payload is a
sequence of attributes as the loop of `joinParseRep` sees them (`Attr`), with an
element for each kind the loop treats differently: the unusual ones are an
attribute that is accepted without a value ("empty"), one that is passed over
("skip"), one that is refused ("bad") and a rest too short for an attribute
("stub"). An ECHO of length 0 leaves the ECHO time as it was and is a "skip".

`WtpSession` has five phases, the number of missed answers, the interfaces on the
air and whether a reboot was asked for; `WtpRadio` has the table and the
interfaces told to serve, in three phases. `Wtp` maps to them at `Session` and
`Radio`.

`WtpNet` restricts the environment of `Wtp`. Datagrams travel on `wire` for at
most `Delay` ticks; they may be lost, overtaken and delivered again. What arrives
while the AP sleeps is `Queued` in its socket until it looks there again. `down`
counts the ticks since the controller went down, `slept` how many of them the AP
slept, and `tried` says whether WAIT or RECOV came to a reboot command since. The
controller is known from what the AP expects of it: it answers a request with the
reply of the same number, may refuse a join or a reconnection, may ask for a
reboot, may be down. Each action of the AP is one of `Wtp` with what becomes of
the wire. A new socket has a new port, so that answers to what the old one sent
reach nobody. From some point on the environment may be `calm`: nothing is lost or
repeated, the controller is up and willing, and no call of the AP fails.

`WtpWifi` takes apart what `Wtp` does in one step: `wtpWiFiWirteFile` empties the
file, and then fills it and appends to `table`, or fails; `wtpWiFiOpen` and
`wtpWiFiClose` go through `table` by `pos`, a command at a time. Each command ends
in `&`: `utilDoCMD` returns before the script has run, so `scripts` holds those
under way, which run later, in any order, or fail unseen. SIGINT may come between
any two steps (`Interrupt`); its handler never returns to what it interrupted. Of
`log.c` the model has the mutex: `held` says that the interrupted code was writing
a record. The first records of the handler, that of `exitSignalHandle`
(`main.c:43`) and that of `wtpWiFiClose` (`wifi.c:183`), come one after the other
before the first stop and wait for the mutex alike (`FirstRecords`); those behind
a stop find it free. The scripts are not part of the sources; the one that starts hostapd is
taken to serve what the file holds when it runs, the other to take the interface
off the air. `faults` is a history of what failed, so that a property can say
which faults it holds in spite of.

`WmpAttr` has the `BUFF` and the formats of `wmpctrl.c`. A parser calls one getter
per field, does not look at their results, and accepts if at the end the value is
used up; so a format is the sequence of its getters, each for a fixed length, for
the rest, or for what an earlier field says, and `Fields` gives what each getter
stored. `WmpMsg` is the wire format: a sender that packs attributes into a message,
or any datagram, and a receiver that checks the header and reads attributes the
way `joinParseRep`, or `wmpWaitRecvAC` and `wmpRecovRcvAC`, do. Both are over
bytes; `touched` records how far the receiver has read. They show what `Wtp` takes
for granted of a payload: each turn of the loop meets one of the kinds of `Attr`.

`WtpId` is `wtpid.c` with the identity file: what a reader finds there, and what
a power cut may leave there. The layout of the file is modelled over the real
matrix `uuid_enable`; of the random offset only the parity is kept, which
decides whether the matrix lies transposed. The stream is written when it is
closed (the file is smaller than its buffer in glibc; with smaller buffers a
prefix may be written earlier, which `wtpidRead` refuses like an empty file).

## Runs

| run | configuration | shows |
|---|---|---|
| `wtp` | `MCWtp.cfg` | the safety and liveness properties of `Wtp`, and that it implements both abstract modules (41,962 states) |
| `net` | `MCWtpNet.cfg` | what the AP makes of a controller that dies, and of one that works (480,362 states) |
| `wifi` | `MCWtpWifi.cfg` | the interfaces with scripts, faults and signals (693,438 states up to symmetry) |
| `wmp_msg` | `MCWmpMsg.cfg` | the properties of messages and attributes (169,314 states) |
| `wtp_id` | `MCWtpId.cfg` | the properties of the identity |
| `wtp_join_source` | `MCWtp_JoinFromAC.cfg` | a JOIN-REP of a stranger starts the service |
| `wtp_wifi_table` | `MCWtp_WifiTableFits.cfg` | the table of interfaces overflows |
| `wtp_gives_up` | `MCWtp_GivesUpForGood.cfg` | service resumes after the decision to reboot |
| `wifi_signal` | `MCWtpWifi_SignalExits.cfg` | a SIGINT during a record of the log does not end the program |
| `wmp_parse_ends` | `MCWmpMsg_ParseEnds.cfg` | the attribute loop may never end |
| `wmp_cut` | `MCWmpMsg_CutIsRefused.cfg` | a cut message may be accepted |
| `wtp_id_layout` | `MCWtpId_StoresGenerated.cfg` | the stored identity is a permutation of the generated one |

The last seven are expected to end with a counterexample: each states what a
comment, a log message or a declaration of the code says and the code does not
keep. Where the code breaks such a statement the other properties are those it
keeps all the same: `EndsOrStub` says that nothing but a rest of one to three
bytes keeps the loop, `ServiceOnAir` says of a table that has not overflowed
what is on the air, `BlocksEarly` that a handler that waits for the log has not
begun to take interfaces down, `OwnBytes` that the permuted identity is complete.

The properties of `Wtp`:

* `EchoBudget`: `S_echonum` never passes `WTP_ECHO_MAX`, with which it is
  compared by `==`, and is zero whenever RUN is left.
* `OneSocket`: whatever fails on the way, the descriptors held are the one in
  `G_wmpsock`, and RUN, WAIT and RECOV have the one of JOIN.
* `ServiceOnAir`: what hostapd serves is in the table, and once joined all of
  the table is served.
* `NoHastyLoss` and `ContactBound` bound the silence from both sides: the count
  ends contact only after `EchoMax` whole ECHO times without an ECHO-REP, and
  RUN ends after `EchoMax + 1`. Both count the time the AP waits in `select()`: a
  REBOOT-REQ, from any address, adds the 2 s of its sleep to RUN each time, and if
  the reboot fails or is yet to come there is no limit to that. WAIT and RECOV come
  to their reboot command within their tries and the sleep in front of it.
* `KeepsSession`, `KeepsRadio`: the refinements.
* `EchoResolves`, `LostResolves`, `SulkEnds`: no stream of datagrams keeps the
  AP in a state it should leave, with one exception: REBOOT-REQs without end
  whose reboots never come keep RUN for ever, and `EchoResolves` excludes them.
  A reboot command that fails leaves it in WAIT or RECOV, where it begins again;
  a `select()` that fails at once and for ever would keep SULK, and `SulkEnds`
  excludes it.

Of `WtpNet`:

* `DeadAcNoticed`: the AP leaves RUN within `Delay` and `EchoMax + 1` ECHO times
  of the controller's end, although any ECHO-REP with any number counts. What the
  AP sleeps meanwhile, for REBOOT-REQs the controller left behind and their
  copies, comes on top.
* `DeadAcEscalates`: RUN, WAIT and RECOV do not feed each other with replies of
  the dead controller: one of the latter comes to its reboot command within a
  bound. That, too, does not count what the AP slept, once for each REBOOT-REQ and
  in front of the command; what the command returns does not matter.
* `Stabilises`: with a calm environment the AP ends up in RUN, for good, whatever
  went wrong before and whatever is still on the wire.
* `JoinsAtOnce` and `KeepsContact`, its safety half: in a calm environment an
  attempt to join, from INIT or DSCV on, never falls back to SULK and its service
  is never lost; and an AP in RUN with no answer missing and no reboot under way
  stays there, whatever else is on the wire. `Paced` is the timing this takes:
  waits longer than a round trip, and one missed ECHO at least.

Of `WtpWifi`:

* `TableHasFiles`: an interface that is opened has the file of its last
  configuration, unless a WIFICFG was refused or could not be written.
* `ServesLast`: when the scripts have run, those of failed attempts included and
  in whatever order, every interface serves its last configuration.
* `ExitTurnsOff`: wherever SIGINT meets the program, nothing is on the air when
  the scripts have run, unless a stop or a script failed or was overtaken.
* `BlocksEarly`, and the refinement `KeepsRadio`.

Of `WmpMsg`: `BuiltIsSound` (the sender keeps buffer and header in agreement),
`ReadsInBounds`, `Consumed`, `RoundTrip` (what was packed is what is parsed),
`ReadInStep`, `SplitsRest` (name and key of a WIFICFG share what is there by
their lengths), `EndsOrStub`. `ReadInStep` is about the parsers, which ignore
that a getter failed and look only at where the last one left the value. It says
which values pass although a getter failed and a later one took the bytes of its
field (`OutOfStep`): a WIFICFG cut inside `power` or `wlanindex` (7 or 9 bytes),
whose byte left over becomes `ssidsupp` and which leaves all behind it as it
was, and one with too long a name, whose key takes bytes of the name. Nothing
else, of no type and length, passes out of step.

Of `WtpId`: `InUseIsOnFile`, `OwnBytes`, `KeepsIdentity`.

What TLC showed on the way and no run repeats: a WIFICFG with an unknown
encryption leaves an empty file behind, also for an interface that is in the table
already, which hostapd cannot be started with again (hence "refused" in
`TableHasFiles`); a stop script that overtakes a start leaves the interface on the
air after the exit (hence "overtaken" in `ExitTurnsOff`); a script that fails in
the background, or a shell that is killed, is taken for done (hence "script" and
"killed"); the first stop that fails ends the loop (hence "stop"); and a file that
`fclose` cannot write is taken for good (hence "flush"). These are hazards the
properties exclude, not ones they cover, and so are in `WtpId` a good file that
cannot be read for once and a power cut that takes the new file away ("excused").

Nor does a property cover a socket of -1 in `FD_SET` (`sulk.c:40`), which the code
does reach, the random start of the sequence number after 65535 (all properties
hold for any start), and the arrays of 40 bytes for name and key.

## Bounds

`wtp`: two peers tell the AC from anyone else. Two sequence numbers tell the
right one from a wrong one and reach the wrap-around at once. Times are 0 to 2
ticks, where 1 leaves room for a datagram before and after the tick and 2 for a
datagram in the middle; tries are 2, a first and a last one; the sleeps are 1 tick,
and 2 in RECOV, where as in the code the sleep is longer than a wait. The reboot
command may succeed or fail. `EchoMax` is the 1 of the code. Two interfaces, and a table
of two, make it overflow at the third configuration. `MCBodies` has eight
payloads: a reply that configures and one that only accepts, a refusal behind a
configuration, a "bad" behind a configuration, and each other unusual element.

`net`: one peer, since strangers are in `wtp`. A datagram travels for up to one
tick, so that replies come in the tick of the request, in the next or never;
`MaxWire` is one datagram, which with two sequence numbers still lets a stale
reply meet a later wait; what is sent while the wire is full is lost, a case the
network has anyway. Once it is calm there is no such bound. The ECHO time is 3 and
so are the times of DSCV and JOIN: `Stabilises` needs a round trip, `2 * Delay`, to
be shorter than each of them, and fails with times of 2.
`Horizon` is 10, above what each bound on `down` comes to without sleeps (the
largest is 9), where the count stops; with what the AP sleeps the bounds may be
higher, and then they hold for any larger `Horizon` by the proof. The reboot
command succeeds in this run, as the reboot may take as long as it likes to come.
By hand, and too long to repeat: the invariants with two datagrams on the wire, so
that a late RECONN-REP and a late RECOV-REP travel together, with a reboot command
that may fail and `Horizon` 12 (8,872,650 states); and all properties with one
datagram, a failing reboot command and `Horizon` 12 (1,368,420 states). The
theorems hold for every `MaxWire`.

`wifi`: two interfaces, two configurations there is a template for and one there
is not; a table of two, either both interfaces or one of them twice; a call of
`wtpWiFiOpen` begins with at most two scripts under way (`MaxScripts`), those of
one earlier attempt, so that up to six are under way at the exit. Interfaces and
configurations are symmetric: they are only compared, and no liveness is checked
in this run. `wifi_signal` needs one of each.

`wmp_msg`: bytes have six values. Numbers have two and four bytes, as in the code,
so that the getter of two bytes can fail where one of a single byte behind it
succeeds; only the header is shorter, two bytes. All datagrams of three byte
values and up to nine bytes are tried: room for an attribute and part of another,
for lengths below, at and above every limit. To these come WIFICFGs cut at every
place and with all lengths of name and key from 0 to 4 over a rest of 0 to 4, up to
past the end of a `BUFF`, each by itself or with a RESCODE behind it that says
yes, no or nothing. The sender puts seven attributes, a number, a key, boards with
and without a name, one without a value and one too long, as many as fit.

`wtp_id`: two UUIDs without a common byte; nothing else in `WtpId` is bounded.

The actions of `Wtp`, `WmpMsg` and `WtpId` have no bounds of their own. What grows
in the code is bounded by the code: `wifinum` stops at the step that overflows the
table, after which the process is "undef"; `quiet` and `tries` are bounded by
`ContactBound` and the loops.

## Fairness

`wtp` assumes weak fairness of `Proceed`, what the process does by itself, time
included, and of `Restart`, the reboot that was asked for; it assumes nothing of
the network, of faults and of signals. The process is scheduled by the system and
the clock runs; weak fairness of `Proceed` as a whole is enough as the process
does one thing at a time. It excludes that a datagram is ready at every `select()`
for ever even when the time left is zero, which without sleeps only a network
faster than the AP can bring about. It does not exclude a REBOOT-REQ every 2 s,
each of which makes the AP sleep while the time left stands still; that is why
`EchoResolves` names it.
`select()` counts down the time it was given, as on Linux, for
which the program is written; on a system where it leaves it alone `TimeLeft` is
`TimeLeft_Renewed`, and `ContactBound` and `SulkEnds` fail.

`net` assumes the same of the AP and the clock, and of the network only what holds
once it is calm: a datagram arrives, and a request is answered. `calm` itself is
never forced. `wifi_signal` assumes that a process that is not blocked goes on: it
finishes the record it writes, and the handler its next step; the run shows that
this does not help a handler that waits for its own thread. `wmp_msg` assumes weak
fairness of the receiver: a function that was called runs on.

## Proofs

All theorems hold for every value of the constants allowed by the ASSUMEs of
the modules: any peers, times, tries, delays, payloads, interfaces, sizes and
UUIDs.

* `WtpProofs`: the inductive invariant `IInv` consists of the type invariant,
  `EchoBudget`, `OneSocket`, `ServiceOnAir`, `ContactBound` and two parts that
  make it inductive: `Linked` (what a handler finds in the variables the others
  leave, as no misses, no tries and no silence on entering RUN) and `Timed`,
  which ties the silence to the counters and to the time left: in RUN the
  silence and the time left make up `echonum + 1` ECHO times, also in a sleep, and
  in WAIT and RECOV no more than `tries + 1` times, or in the sleep after the last
  try, with what is left of it, all tries and the pause. `NoHastyLoss` follows from the lower
  bound, `ContactBound` from the upper. There is a lemma for the steps of each
  group of handlers; the products of counts and times are in `Products`,
  `EchoSpan` and `RetrySpan`.
* `WtpSessionProofs`: under `IInv` every step of `Wtp` is a step of the session
  or leaves it as it is; with the initial states this gives `SessionTheorem`. The
  same for the plan of the interfaces gives `RadioTheorem`.
* `WtpNetProofs`: every step of the network is a step of `Wtp` or leaves the AP
  alone (`NetImplementsTheorem`), so `IInv` holds there. `Fresh` says that what
  a dead controller left is as old as the time it has been dead, but for what the
  AP slept while it lay in the socket; `CountedRun`, `CountedRetry` and
  `CountedPause` say that from the last datagram on this time, without the sleeps,
  and the silence of the AP grow together. With the bound of `ContactBound` on the
  silence they give `DeadAcNoticedTheorem` and `DeadAcEscalatesTheorem`, which
  assume nothing of the reboot command. `Horizon` only stops the counts and the
  theorems hold for each of its values.
* `WtpWifiProofs`: types, which need that a file is only filled while its entry
  has a place; `BlocksEarlyTheorem`; and the refinement `RadioTheorem`, with `RInv`:
  what was told is in the table, and in an opening at least what `pos` has passed.
* `WtpWifiAirProofs`: `FilesInv`, that every interface of the table has a last
  entry and its file holds that entry's configuration but while it is being
  written, gives `TableHasFilesTheorem`. `ServeInv` adds the background: for what
  was begun a start is still to run, or what is on the air is what the file holds;
  a start that runs late, or early, reads the file of its time, and that is why
  the order does not matter (`ServesLastTheorem`). For the exit the order does
  matter: `ExitInv` says that each interface is still to be stopped or `Silent`,
  the last script for it a stop (`ExitTurnsOffTheorem`).
* In a calm environment (`JoinsAtOnceTheorem`, `KeepsContactTheorem`) what keeps
  the count and the timeouts away is `InTime`: what the AP waits for is on the wire
  and has more time left than the ways it has to go; the clock, the controller and
  the AP each keep that. In DSCV and JOIN nothing else may be on the wire
  (`Exchange`), as one datagram decides there, and a new socket has the wire to
  itself; in RUN anything may but a REBOOT-REQ (`InContact`).
* `WmpAttrProofs` has what the getters and the Pack functions compute, for every
  value. Both are recursive functions on an interval; `Induction` gets induction
  over its elements from the well-foundedness of `<`, with a set in the place of
  the predicate. `BytesOfNumber`: a number comes out of its bytes again.
  `Reading`: each field is the piece of the value its getter moved over, as long as
  asked for or empty.
  `NumberUnpacks`, `SecKeyUnpacks` and `BoardUnpacks` take packed values apart.
* `WmpMsgProofs`: the offset and what was read stay within the message, from
  which `ReadsInBoundsTheorem` and `ConsumedTheorem` follow; `Sound` and the lemma
  `DivMod`, on the carry between two bytes, give `BuiltIsSoundTheorem`; the types
  follow from both. `ReadInStepTheorem` and `SplitsRestTheorem` need no invariant:
  the lemmas of `WmpAttrProofs` hold of every value. For the first, `StepByPlaces`
  turns "out of step" into a statement about the places the getters start from;
  those of the fixed getters do not depend on the value (`OthersStep`,
  `WifiPlaces`), and a place is overtaken exactly by a cut number or too long a
  name (`WifiOvertaken`). `RoundTripTheorem` needs
  `Arrives`: every attribute that was put lies in the message at a place of its own
  (`Laid`), and the receiver, after `n` attributes, stands at the place of the next
  one and has the first `n` in `got` (`Received`).
  `PutsAssumption` is what it assumes of the sender: the attributes are structs of
  `wmpctrl.h`, with numbers of their width and a text shorter than a `BUFF`, which
  the arrays of 128 bytes are. Without the last, `buffRawPut` would refuse the text
  and the value would go out with the length alone.
* `WtpIdProofs`: an identity in use and not excused is on file, and then
  `wtpidInit` does not get as far as `wtpidCreate`; from this `InUseTheorem` and
  the action property `KeepsIdentityTheorem`. `RankNumbers`: the count of the places
  passed numbers the places of any finite set from 0, each once; so the bytes of a
  UUID are permuted by `Number` between writing and reading, which gives
  `OwnBytesTheorem` and the types, and for a row-first file it is the identity
  (`RowFirstTheorem`).

All invariants and all action properties of the runs are proved. Model-checked only
is liveness (`EchoResolves`, `LostResolves`, `SulkEnds`, `Stabilises`, `EndsOrStub`),
which is beyond the prover; of `Stabilises` the safety half is proved.

## What is not modelled

* The IMAGE state and `image.c`: `imgup` of a join reply is never set, so
  `main()` never enters the state, and nothing calls `wmpImage`. `ieee80211.h` is
  included by no file.
* Functions without a caller in the AP: `wtpWiFiCloseThe`, `udpNewServer`,
  `utilByteMAC`, `utilSetNonblock`, `wtpidWriteTmp`.
* The text of the configuration files and the scripts that start and stop
  hostapd; the scripts are external, see `WtpWifi`. Openings and closings that
  fail halfway reach an arbitrary subset of the table in `Wtp`; the prefix the code
  reaches is in `WtpWifi`.
* The sizes of the arrays name and key are copied to (`wmpctrl.c:142`): `SplitsRest`
  says what is copied, not where.
* Locks inside the C library, which the handler of SIGINT may meet as it meets
  the one of the log (`main.c:44`); memory, as the list of `getaddrinfo` that is
  never freed (`udphelp.c:158`); the descriptor 0 as a socket (`join.c:44`).
* Files, levels and texts of the log; board name, address and accounting times of
  `wtpinfo.c`, on which nothing depends but the contents of a request; the command
  line; the build.
* The AC, but for what `WtpNet` takes it to do.

## Plan

Done, in the order of importance: `WtpSession`, `Wtp` and their proofs; `WmpMsg`,
`WtpId`; `WtpNet` and `WtpWifi` with theirs; `WmpAttr`, and the proofs about its
recursive functions and about the layout of the identity file. Left, and why:

1. `WtpNet` with two APs at one controller: the APs share nothing but the
   controller, whose side is not in the repository; worth it only with its source.
2. The handler of SIGINT and the locks of the C library, as the mutex of the log:
   needs a model of which calls of the program hold which lock.
3. `Stabilises` for other timings than those of the run: `Paced` is sufficient, by
   `JoinsAtOnceTheorem`; which relation of delay and times is necessary is open.
4. Proofs: the safety half of `LostResolves` and `SulkEnds`, as the steps that
   lead out of WAIT, RECOV and SULK and the measure that decreases.
