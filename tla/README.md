# Models of spqr

spqr is a file server over UDP in C: a parent process accepts clients with a three-way
handshake and forks a child per client, the child runs a dialogue of text commands
(LIST, GET, PUT, CLOSE), and files travel with a Selective Repeat protocol of the
program's own. This directory holds TLA+ models of it, TLC configurations that check
them, and proofs checked by TLAPS. `PROJECT.json` maps every definition to the lines it
models. Paths below are relative to the repository.

Contents: [inventory](#inventory) - [modules](#the-modules-and-the-code) -
[runs](#the-runs) - [bounds](#bounds) - [fairness](#fairness) - [proofs](#the-proofs) -
[disagreements](#where-the-code-and-its-documents-disagree) - [plan](#plan) -
[not modelled](#what-is-not-modelled)

## Inventory

| Part | Code | State | Operations | Talks to |
|---|---|---|---|---|
| Transfer | `src/protocol.c` | the two windows, packet and byte counts, error count, the file | `main_sender` (`send_data_to_receiver`, `wait_ack`), `main_receiver` (`receive_data_from_sender`) | its other end, by datagrams; its caller, by the value it returns |
| Adaptive timeout | `src/common.c` | `SO_RCVTIMEO` of the socket | `get_timeout`, `set_timeout`, `increase_timeout`, `decrease_timeout` | called by the sender, and by both programs around a transfer |
| Server processes | `src/spqr_server.c` | bitmask in shared memory, `child_pids`, the processes | `server_manage_client_connections`, `set_bit`, `get_bit`, the signal handlers | children share the bitmask; signals and `waitpid` |
| Handshake | `src/spqr_server.c`, `src/spqr_client.c` | what each side waits for, attempts left | `*_open_connection_with_*`, `client_establish_connection_with_server` | client and parent, by datagrams on port `PORT-1` |
| Session | the same | which command each side believes it is in, `alarm` | `server_manage_client_commands`, `client_manage_server_commands`, `*_close_connection_with_*`, the client's signal handler | starts transfers; shares its socket with them |
| File store | `src/spqr_server.c`, `src/protocol.c` | `server-files/` | existence test, create, write, remove | all children at once |
| Listing | `src/spqr_server.c` | a 1024-byte buffer | `get_server_files` | the session |
| Loss simulator | `src/common.c` | - | `can_send_packet` | every data packet and every acknowledgement but the last ones |

What makes these hard:

* **Transfer.** Sequence numbers are slots, taken modulo the window size; an
  acknowledgement names the slot and not the packet. The receiver tells old packets from
  new ones by byte counts, among them a stale one left in the slot. Timeouts may fire
  while datagrams are on their way, so copies of a packet and of its acknowledgement
  arrive at any time, in any order, after their slot moved on. Each end has its own idea
  of when the transfer is over. Correct means: a receiver that succeeds has the file; the
  two outcomes agree as far as they can; both ends return; nothing is left where the next
  command would read it.
* **Adaptive timeout.** It is read back from the kernel, which rounds it; it lives on in
  the socket after a transfer, whose callers must not have one. Correct means: within its
  bounds during a transfer, off otherwise, and growing with silence.
* **Server processes.** Parent and children update bytes of a shared bitmask without a
  lock; slots are freed by the child, and again by the parent that reaps it; slots are
  reused in between; signals interrupt all this. Correct means: one client per port, no
  slot lost, no child left over, the parent always back at `select`.
* **Handshake.** All clients write to one socket of the parent, which reads a SYN, then
  whatever comes next, without a timeout and without looking who sent it; a client repeats
  its SYN after 3 s. The port is told before the child has bound it. Correct means: a port
  goes to a client that waits for one, to one client only, no slot is taken for nobody, and
  the parent comes back to `select`.
* **Session.** The dialogue has no tags, lengths or numbers: a datagram is a file name, a
  command, an answer or an outcome by where its reader is, and packets of the last transfer
  may arrive in between. Some waits have a timeout, some have not; either end may be
  interrupted anywhere. Correct means: both ends are in the same command; a file reported as
  sent is there; every command ends, and both ends do.
* **File store.** `PUT` looks for a name and creates the file later; meanwhile another child
  may do the same, read the file, or remove it. Correct means: a file that was stored stays,
  complete; a file that is not complete is being written.
* **Listing.** The directory changes while it is read, and lines are packed into a buffer
  of 1024 bytes. Correct means: every name arrives, once and whole.

`hazards` of PROJECT.json lists these line by line, with the properties that watch them.

## The modules and the code

`...Properties`: types, invariants, action properties and liveness of the module they are
named after; the cfgs run these (`AdaptiveTimeout` has its own). `...Proofs`: theorems
(`LoopbackProofs`: those about `SelectiveRepeat` that need timeouts that are not early).
`SpqrLemmas`: facts on remainders, bags and sums, and induction, for the proofs.

How they fit together: `Session` uses `FileTransfer` (INSTANCE) for the transfers of a
session, and `SelectiveRepeat` implements `FileTransfer`, so that what `Session` takes for
one step is what packets and acknowledgements add up to. `AdaptiveTimeout` details the
`timed` of `Session`'s child. `Handshake` extends `ServerPool`: every step of its server is
one of `ServerPool`'s, together with the datagrams that step reads and sends, so that the
bitmask, its race and the reaping are the same in both. `FileStore` shows the directory that
is a set of names in `Session`.

### SelectiveRepeat: one transfer

The file is `<<1, ..., N>>`. A packet is known to the code by the byte count up to its
end (`no_bytes_to_send`); as that grows by one packet at a time, packet `p` stands for the
count after `p` packets: comparisons of counts become comparisons of packets. `pkt`,
`left` and `seq` of a datagram are `no_bytes_to_send`, `no_packets_to_send` and `seq_num`;
`size` and `write` of an acknowledgement are its fields `size` and `write_byte`.

| Variables | Code |
|---|---|
| `sWin`, `base`, `counter`, `noPackets`, `lastAck`, `maxErrors`, `ret` | `window`, `i`, `*counter`, `*no_packets_to_send`, `last_ack_confirmed_bytes`, `*max_errors`, `ret` of `main_sender` and `wait_ack` |
| `rWin`, `rNext`, `sizeReceived`, `isFirst`, `noRecv`, `file` | `window`, `i`, `*size_received`, `is_first`, `no_packets_to_receive` and the file of `main_receiver` |
| `sResult`, `rResult` | what the two functions return |
| `toReceiver`, `toSender` | datagrams in flight, as bags: any order, any number of copies |

Actions: `SendWindow` (the first transmission), `Timeout` and `ReceiveAck` (one round of
`wait_ack`, its sliding loop included), `Drain` and `SenderReturn` (the end of
`main_sender`), `ReceivePacket` (one round of `receive_data_from_sender`, with the end of
`main_receiver` when it is the last), `Lose` (the network). `can_send_packet` is a choice
inside an action: `Survivors` and `OneOrNone`.

The constants say what the environment may do: `EarlyTimeouts` (a `recvfrom` times out
although something is in flight), `NetworkLoses`, `WritesFail`. Without early timeouts a
timeout means that nothing is in flight any more - a loopback interface, where the
shortest timeout of 8 ms is long.

### FileTransfer: what a transfer promises

Three variables, what each end returned and the file the receiver keeps; four actions.
The receiver succeeds only with the whole file, the sender only after the receiver, and
the receiver fails only after the sender gave up. The sender may give up although the
receiver succeeds: that is what the last acknowledgements cannot rule out.
`SelectiveRepeat` implements it (`ImplementsFileTransfer`).

### AdaptiveTimeout: the timeout of a child's socket

One variable is the kernel's `SO_RCVTIMEO`, another the place in the dialogue of commands
that decides it: `command`, `start` (waiting for START_TRANSFER), `sending`, `draining`,
`receiving`, `completed` (waiting for TRANSFER_COMPLETED), `dead`. `errors` is
`max_errors`; `silence` is a history variable. `Ticks` is what the kernel makes of a
timeout (external: whole ticks, rounded up).

### ServerPool: the server's processes

| Variables | Code |
|---|---|
| `busy` | `shm_bitmask`, as the set of slots whose bit is 1 |
| `childPids`, `noClient`, `pid` | `child_pids`, `no_client` (or `i` when reaping), `pid` and `wpid` |
| `pPc`, `pCopy` | where the parent is; the byte `set_bit` has loaded and not yet stored |
| `proc` | the children: where, on which slot, byte loaded, is a SIGTERM pending |
| `blocked` | what the parent's `sigprocmask` blocks |
| `lost` | history: has a store of `set_bit` undone that of another process |

The parent's loop is `SynArrives`/`NoSyn`, `AckArrives`/`NoAck`, `Scan`, `ParentLoads`,
`ParentStores`, `Fork`, `Record`, then `Reap`, `Forget` (and the stores of `set_bit`
again) until `NothingToReap`. `set_bit` is two steps, a load and a store, in the parent
and in the children: `|=` and `&=` on a byte in memory are no more than that for another
process. A store that writes back a bit that has changed since the load sets `lost`
(`Undoes`): properties that this race breaks are stated for behaviours without it, with the
slots in one byte as they are. `Interrupt` may come between any two steps of the parent, and
leads to its handler's `WaitForChild` and `ParentExits`. A child is `Start`ed (it binds its port or
dies), serves, and ends by `SessionEnds` and its own `set_bit`, by `Dies` (`spqr_assert`),
or by `Terminate` and `ClientAnswers` (its SIGTERM handler). `blocked` is chosen from
`Masks` at the beginning: `set` is uninitialised in the parent's branch of
`setup_signal_handling`, so any mask may come of it.

### Handshake: clients connect

| Variables | Code |
|---|---|
| `cPc`, `attempts`, `port` | each client: where it is in `client_establish_connection_with_server`, `connection_attempts`, the port it was told |
| `toServer`, `toClient` | the datagrams for the parent's one socket with their senders, and for each client |
| `addr` | `client_addr`, which each datagram the parent reads changes, during a handshake |
| `pPc`, `noClient`, `busy`, `proc`, ... | the server's processes: the variables of `ServerPool` |

A client `Connect`s, reads the SYNACK or times out (`SynAckRead`, `SynAckTimesOut`, both
with `Retry`), reads its port (`PortRead`), types its first command (`FirstCommand`) and
leaves (`Leave`, which is also its child's `SessionEnds`). The parent reads a SYN (`SynRead`),
then the next datagram of whoever sent it (`AckRead`); after an ACK it searches a slot
(`SearchSlot`), stores its bit, tells the port and forks (`ForkChild`), records the pid and
reaps (`Inside`, or `NothingRead` when `select`'s second is over), each of these one of
`ServerPool`'s steps. A child binds its socket, and clears its bit in the end (`ChildWorks`).
A full server says BUSY, and then does the same with port 9696. Signals to the server and
children that die in `spqr_assert` are `ServerPool`'s subject and not repeated here, but for
a child that finds its port taken. A process id is the number of the client it is forked
for: the child of a client is thus known by its name.

`Mishaps` are the faults the environment may commit, each at most once and at most
`MaxMishaps` in all: a lost datagram, a late SYNACK, a first command that is faster than
`bind`, SIGINT in a client, a server that does not run. A property that needs some of them
not to happen says so by `mishaps`.

### Session: one client and its child

| Variables | Code |
|---|---|
| `cPc`, `cRequest`, `cPath`, `cRet` | the client: the place in `client_manage_server_commands` or `client_close_connection_with_server`, `request`, the file of its transfer, what `main_receiver` returned |
| `sPc`, `sPath` | the child: the place in `server_manage_client_commands`, `server_close_connection_with_client` or its signal handler, the file of its transfer |
| `toChild`, `toClient` | datagrams on their way or unread, in order |
| `timed`, `soiled` | ends whose socket kept the timeout of something else; ends whose buffer for the outcome holds the rest of a longer datagram |
| `sent`, `received`, `kept`, `begun`, `spoilt` | the transfer (`FileTransfer`), whether its sender has started, whether its receiver took a text for its first packet |
| `files`, `whole` | `server-files/`, and what is complete there |

Each `recvfrom` is an action, with all that follows up to the next one. An end that reads a
datagram where it expects another does with it what the code does: the client takes any
answer for the answer, the child answers COMMAND_NOT_FOUND, a receiver takes a text for a
packet (`TextForReceiver`). A sender takes it for an acknowledgement, and its first letters
index `window`, far beyond its end: what is there counts as acknowledged
(`TextForSender`), or there is no memory and the process ends (`SenderCrashes`); a text of 17
bytes or more has letters in `write_byte` as well, which is then more than the size of the
file, so that `wait_ack` returns as after the last acknowledgement, and `main_sender` reports
success (`SenderMisled`, `Succeeds`). A wait with a
timeout ends when nothing is on its way (`TimesOut`), or when something is late. Mishaps, as
above: loss, an answer that is late, a packet or acknowledgement that arrives after its
transfer (`StrayArrives`), a sender that gives up although the receiver has everything,
an `fopen` that fails, SIGINT, SIGQUIT and SIGTERM.

`PathSize` stands for a detail of `CompletedRead`: the child reads TRANSFER_COMPLETED into
the memory of the path of the file, with its size, so that what it recognises depends on the
length of the name (`NameLength`).

### FileStore: the directory, and LIST

| Variables | Code |
|---|---|
| `dir`, `data` | the inode of each name in `server-files/`, and the blocks of each inode |
| `pc`, `name`, `fd`, `size`, `got` | each child: where it is, the name it works on, the `FILE *`, `st_size`, what it has written or read |
| `list` | `get_server_files`: the offset in its buffer, the names in it, sent and cut off, those `readdir` returned; `always` and `ever` are history |
| `alone`, `kept`, `partial` | history: has a child had a rival, who stored a name, names a child died writing |

A PUT is `TestPut` (the name is looked up), `Create` (`fopen` for writing, which empties a
file that is there by now), `Write`s, and `PutEnds`, `PutFails` (what the name refers to by
then is removed) or `Dies`. A GET is `TestGet`, `Open`, `Read`s and `GetEnds`. LIST is one
`ReadDir` for each name, and `ListEnds`; POSIX does not say whether `readdir` returns what
appeared or disappeared meanwhile, so either happens. Blocks are known by who wrote them,
so that two writers of one file show.

## The runs

Passing:

| Run | Question and answer |
|---|---|
| `sr_loopback` | Is it Selective Repeat where timeouts are long? N=7, W=3, losses by `can_send_packet`. An acknowledged slot holds a packet the receiver has, the file is a beginning of the source at all times, the sender leaves its socket empty, and the outcomes agree. |
| `sr_slow` | And where they are short? N=5, W=2, early timeouts. Some of the above no longer holds (see below); but success still means the whole file (`Integrity`), slots are only written with newer packets, the inductive invariant of the proofs holds, the transfer implements `FileTransfer`, and it ends. |
| `sr_lossy` | The same with a network that loses anything and a disk that fails: types, and that the sender's success implies the receiver's. |
| `timeout` | The settings of `settings.h` with a tick that divides none of them (HZ=300, 3333 µs), so that every change is rounded: the timeout stays in range, grows with every timeout in a row, is off at every command, and a sender gives up only after the silence the settings imply. |
| `pool_slots` | Does the accept loop give out slots correctly but for the race of `set_bit`? The slots share a byte, loads and stores of parent and children overlap, and behaviours are followed until one store undoes another (`UntilLost`): ports are exclusive, `child_pids` is current, slots come back, a shutdown ends if clients answer, and leaves no child behind but one forked that moment. |
| `handshake` | Three clients, two slots in one byte, one mishap, until an update of the bitmask is lost: ports go to those who wait for one, no two clients know the same, and slots are taken for nobody only if something went wrong; who connects while no other client does is served or told that the server is busy or away; the parent comes back to `select`. |
| `session` | One session with every command, any one of eight mishaps at any point: the ends are in step as long as nothing goes wrong, a file the client reports as sent is complete, a GET that succeeds has the right file, every command ends, and both ends do - when the user leaves, interrupts at the prompt, or the server stops. |
| `store` | Two children, two names, files of two blocks, three inodes: what a PUT without a rival stored stays; an incomplete file is being written or its child died; a GET without a rival is whole; LIST sends each name that fits. |

Violations, each a [disagreement](#where-the-code-and-its-documents-disagree):
`pool_lost_busy`, `pool_full`, `session_duplicates`, `handshake_two_clients`.

`Integrity` of `sr_slow` goes together with something that is not checked there, as it is not
true: an old acknowledgement does confirm a packet the receiver lacks (`AckedIsReceived`
fails with early timeouts), and the receiver then does write a later packet in its place, out
of order (`WrittenInOrder` fails); but the byte counts then make it reject what it would need
to finish with success, as a slot never goes back. The transfer ends with an error, and the
file is removed. What survives is the property users need, and it is the one that is proved.

Every property of a passing run has a mutant of the code in PROJECT.json that breaks it;
the mutated definitions stand next to the right ones, marked "Mutant".

`CHECK_DEADLOCK FALSE` is used where the system really stops: a lost error packet leaves the
receiver waiting (`sr_lossy`); a session ends, or leaves an end that waits for good
(`session`, `session_duplicates`); all clients have left, and nobody else comes
(`handshake`, `handshake_two_clients`). Elsewhere the end of the program is an explicit
stuttering action (`Finished`, `Exited`, `Dead`), or there is none.

## Bounds

* `N`, `W`: with `N` over `2*W` every slot is used three times, so that a packet can be
  confused with the one before it and the one after it; the ring wraps at different times at
  the two ends. The retry limits (`MAX_ERRORS` 25, `MAX_RETRIES` 10) are cut to 2 or 3:
  they only say how often something may be repeated.
* `MaxInFlight` bounds early timeouts: none fires with more datagrams than that in
  flight. A timeout with an empty network is always possible. With two, a copy
  of a packet or of an acknowledgement can be overtaken by later ones: enough for data to
  be written out of order.
* `MaxClients=2`, three process ids: a client more than the server has slots, and a
  slot given to a new child before the old one is reaped.
* `CharBit` is 8, as in the program. What counts is whether two slots share a byte, and two
  do. The properties that a lost update breaks have `~lost` as a premise, and `UntilLost` ends
  the behaviours of `pool_slots` and `handshake` there, which keeps the runs short. The
  invariants of both are proved without that bound; of the others only `ShutdownEnds` and
  `KeepsAccepting` say something of what might come after, and hold there, too, if the
  constraint is taken out (1.4 million and 690,000 states). `pool_lost_busy` shows what does
  come after: two clients with one port.
* `Masks` is what `sigprocmask` may find in the parent: nothing, or a mask that blocks
  SIGINT. One that blocks SIGTERM stops the shutdown: see below. The proofs are for any masks.
* `timeout` uses the real settings.
* `Mishaps`, `MaxMishaps`: one mishap of any kind, at any step. A second one adds little: the
  properties that allow mishaps at all are about what one of them leads to, and the safety
  ones among them are proved for any number.
* `handshake`: three clients for two slots, so that the server is full, slots are given back
  and taken again, and bits are cleared while others are set; two attempts of the program's
  three. Any two handshakes overlap, and so do a repeated SYN and another.
* `session`: two names, one on each side, both of five characters; one datagram for a LIST.
  `MaxUnread`: the user types the next command while one datagram of the last is unread, not
  more. Commands go on for ever.
* `store`: two children are enough for two writers, or a writer and a reader, of one file; of
  three inodes one may be open without a name. The lines of LIST are 4 and 3 bytes in a
  buffer of 8 with a header of 2: either fits with the header, both do not, and one fills the
  buffer to the byte.

The proofs are for all values of these constants; those about `Session` say which they need.

## Fairness

`SelectiveRepeat`: weak fairness of each program's steps. A process that can go on is
scheduled, and a `recvfrom` whose timeout is over returns. Nothing is
assumed of `can_send_packet` or of the network: the sender gives up after `MAX_ERRORS`
timeouts, whatever is lost. `Lose` is never fair.

`ServerPool`: `Fairness` is weak fairness of the parent and of each child; it includes
`NoSyn`, as `select` has a timeout of one second, but neither the end of a handshake nor a
client's answer, for which the code waits without a timeout. Where a run needs
well-behaved clients it says so: `ClientsAnswer` adds that one who began a handshake, or
whose child wants to close, sends something in the end. A session need not end.

`Handshake`: weak fairness of the clients' reads, timeouts and first commands, of the
parent and of the children's own steps, taken together. That is as much as fairness of each
here: the clients are finitely many, each starts and leaves once, so no behaviour goes on
for ever, and one that stops has nothing enabled. Starting, leaving, interrupts and losses
are never fair.

`Session`: weak fairness of the client without `TypeCommand`, of the child, and of texts that
meet a transfer: what was sent and not lost arrives, transfers end (`SelectiveRepeat`'s
`Termination`), a user answers when asked for a file name. A user need not type another
command: `ShutdownAtPrompt`, which needs one, says so. Each liveness property names the
mishaps it allows.

`AdaptiveTimeout` and `FileStore` state no liveness and no fairness.

## The proofs

All for every value of the constants under the named assumptions of the modules, which
TLC evaluates in every run.

**SelectiveRepeat.** `TypeCorrect`; then `Invariance` of `IInv`, from which follow
`IntegrityHolds`, `SlotsAdvanceHolds` and `Refinement` (when writes do not fail) and
`SenderSuccess`. `Integrity` is far from inductive. The argument of `IInv`:

* a data packet is in the slot of its number, in both windows, in the datagrams and in
  the file (`SenderInv`, `NetworkInv`, `FileInv`);
* the file's `n`-th packet is `n` or a later one of the same slot, and later than what
  that slot wrote before (`FileInv`); each slot of the receiver's window holds what it
  wrote last, or a newer packet of the same residue (`WindowInv`): this is what the three
  conditions of the duplicate test are for;
* so the file can only run ahead of the source; once its `m`-th packet is the `m`-th,
  those before it in its slot are right, too (`ExactInv`), since they grow by at least the
  window size at a time;
* the receiver returns after exactly `N` packets (`ReceiverInv`); packets are at most `N`,
  so the last `W` of the file are exact, and with them all others;
* a terminal acknowledgement exists only after the receiver's success (`NetworkInv`), and
  only that or giving up leads the sender out of `wait_ack` (`SenderInv`).

`LoopbackProofs` is about timeouts that are never early (`EarlyTimeouts = FALSE`), the mode
of `sr_loopback`: `AckedIsReceivedHolds` and `WrittenInOrderHolds`, even with failing writes
and a network that loses datagrams; `SenderSocketIsCleanHolds`; and `OutcomesAgreeHolds`,
without losses. An acknowledgement names a slot and not a packet, so the argument of
`LoopbackInv` is that each slot has one datagram in flight at most, and of the packet that is
in it:

* the sender sends a slot again only when nothing is in flight, and refills it only when its
  acknowledgement is out of the network (`LoneInv`, which is about bags, copies counted);
* the receiver acknowledges what it has: a packet that is stored, or already in the file;
  an old packet is known by the file's length since none is more than `W` past it (`SentInv`,
  `OrderInv`);
* so an acknowledged slot's packet is with the receiver, and the window never moves past the
  first packet that is not in the file.

What is left in flight at the end is `CleanInv`; what the ends know of each other then,
`QuietInv`. Early timeouts make two copies, and `WrittenInOrder` fails in `sr_slow`'s mode.

**AdaptiveTimeout.** `TimeoutStaysInRange`, `TimeoutGrows`, `CommandsHaveNoTimeout`, by
the invariant `TimeoutInv`. It needs that timeouts are whole ticks: otherwise rounding
could make a timeout that is decreased longer. `SilenceStaysBounded`: a sender
that has counted some timeouts in a row has been silent for at least its `Patience` - a
recursive sum of what `TimeoutFollowsErrors` makes of each - and at most as many times the
longest timeout (`LongestTimeout`). That the sum exists and is what its equation says is an
induction (`SumsExist`); the induction theorems of the library take operators, so it goes by
least elements of a set (`LeastNatural`, `NaturalsOf`).

**ServerPool.** `PoolTypeCorrect`; `PidsStayCurrent`, with `PidInv` (each child is named
once, a forked one not yet), whatever the race does; and `ExclusiveUnlessLostHolds`: however
many slots share a byte, as long as no store has undone another's, no two live children have
one port. It is by `SlotInv`: a slot is held by one child, which `child_pids` names, and its
bit is set; a byte loaded and not stored yet belongs to its slot. It shows that reuse before
reaping and freeing twice are harmless, and that the lost update is all that breaks the
exclusion in `pool_lost_busy`.

`NoOrphansHolds` adds `OrphanInv`: once a signal came, `child_pids` knows each child that
lives, but for one the parent had in hand, and the handler exits when it knows none. After a
lost update the second child of a slot overwrites the pid of the first, which is then left
behind: `~lost` is needed here, too.

**Handshake.** `HandshakeTypeCorrect`; `PortGoesToWhoWaitsHolds` and `ToldApartHolds`
by `PortInv`, whatever goes wrong on the network and with the clients, for any number of
clients, slots, attempts and slots in a byte: a client sends one ACK and has no answer while
it is under way (`AckInv`), nothing is in a closed socket (`SocketInv`), and from the ACK to
the fork the parent has one client in hand, whom it told no port (`AddrInv`). The ACK is what
makes it work, although the parent does not look whose ACK it reads: only a client that waits
for a port has sent one. `ToldApart` is stated for behaviours without a lost update; `ToldInv`
(a slot whose port a client knows is held by its child) reduces it to `SlotInv` of
`ServerPool`, which is proved for every step of `ServerPool` and holds in `Handshake`
because each of its steps is one of those or leaves the server alone.
`NoSlotWithoutClientHolds` is by `CleanInv`: as long as nothing goes wrong each client has at
most one datagram under way, its SYN, its ACK or the answer, and a child that has a slot is
that of the client that knows it (`Covered`).

**FileStore.** `StoreTypeCorrect`, whose part about the buffer of LIST holds for every
length of the lines; `PutIsKeptHolds`, `NoPartialFileHolds` and `GetIsWholeHolds` by
`StoreInv`, for any number of children, names and blocks: an inode has one name, and an open
one no other than that it was opened by (`NameInv`); a PUT without a rival made the file and
wrote all that is in it; a file nobody writes is whole unless a child died; a GET without a
rival has read a beginning of it.

`ListIsCompleteHolds` is by `ListsInv`: what a LIST has taken from `readdir` is what it showed,
cut off or still has in its buffer, and as long as it is `Small` - nothing appears or goes,
and the lines fit - the offset in the buffer is the header and the sum of the lines taken, so
that nothing is cut. The sum is the fold of the community modules, with a `CHOOSE` of the next
element; that it is the same in any order, and grows with the set, is an induction over
finite sets by the size of a smallest counterexample (`SumsAnyOrder`, `Weights`). It needs
finitely many names (`NamesAssumption`; a name has at most `NAME_MAX` bytes).

**Session.** `SessionTypeCorrect`, whatever goes wrong (with `FilesInv`). `InStepHolds`:
as long as nothing goes wrong each place of the client allows few places of the child, each
with one content of the two sockets. It is nearly inductive: `CalmInv` adds what the ends
remember meanwhile (the request, the name, that no timeout and no rest of a text is left).
It is proved for all names, files and commands, under two assumptions the code does not
ensure: `LongNames` (five characters, so that the path has room for the outcome) and
`ShortLists` (a LIST takes one datagram). Both are needed: see below.

`PutIsStoredHolds` and `GotIsRightHolds` are about what users see when something does go
wrong, in any order and any number of times, but for lost and stray datagrams; the names may
be of any length. The invariant is `Settled`. While the client has not sent FIN (`Playing`,
`NoFin`), client and child are in one of three relations (`Placed`):

* `Together`: where `InStep` has them, or one waits for what will not come - the child for an
  outcome it was not sent or did not recognise, the client for a file the child cannot open
  (`Unheard`), for the outcome of a transfer that did not begin (`NoTransfer`), or for the
  START_TRANSFER of a child that could not create its file;
* `Dead`: the child has gone, and what it left on the way is no START_TRANSFER
  (`Uninvited`) but for the one of a PUT that it had begun, whose transfer will not succeed,
  not even by a text that misleads the client's sender, as none is on its way;
* `Deaf`: the client could not open the file it was to send, and the child takes all it says
  for packets. It never leaves that state: each text is a first packet that spoils the count.

A client that closes the connection has no more to report, so that nothing needs to be known
of what follows. The clauses about success are attached to the places where one is on its
way: a file that is whole before `EXIT_SUCCESS` reaches a client that sends, and the right
file before it leaves one that receives. `ShortLists` is needed here, too: with lists of up
to three datagrams TLC finds a run of 22 steps without any mishap in which answers are taken
for other answers until a transfer begins between ends that do not mean the same, and the
client reports an incomplete file as stored. TLC agreed with `Settled` before it was proved,
with up to four mishaps at once.

**Only model-checked:** liveness, which TLAPS does not prove (`Termination`, `SlotsComeBack`,
`ShutdownEnds`, `AloneIsServed`, `KeepsAccepting`, `BackToPrompt`, `EndTogether`,
`InterruptedAtPrompt`, `ShutdownAtPrompt`). Every safety property of a passing run is proved.

## Where the code and its documents disagree

| Run | What happens |
|---|---|
| `pool_lost_busy` | The bitmask has a race: a slot is given out twice. |
| `pool_full` | A full server tells the client that it is busy and goes on to fork a child for it on port 9696, storing its pid past the end of `child_pids`. |
| `session_duplicates` | The loop that waits for TRANSFER_COMPLETED is there to read over packets that were sent again; one of them leaves its end in the buffer, the text is not recognised any more, and the child loops for ever. |
| `handshake_two_clients` | Two clients at once, and nothing lost: the SYN of one is read in the place of the other's ACK, that ACK is dropped, and its client waits for ever. |

Others the models show without a run of their own; the change that shows them is in
parentheses.

* Transfer: a late copy of an acknowledgement confirms the packet that is in its slot now,
  and data may be written out of order (`WrittenInOrder` in `sr_slow`). The one error packet
  by which the receiver learns that the sender gave up may be lost, and the receiver waits
  for ever (`Termination` with `NetworkLoses = TRUE`). A failed `fwrite` is reported to both
  users as success (`Integrity` with `WritesFail = TRUE`).
* Server: the race also leaves a slot busy for ever (`SlotsComeBack` without its premise). The
  parent's signal mask is read from uninitialised memory and inherited; if it blocks
  SIGTERM the shutdown hangs (`ShutdownEnds` with `Masks = {{"SIGTERM"}}`). SIGINT between
  `fork` and the store of the pid leaves that child running (`NoOrphans` without its first
  exception).
* Handshake: a client that is lost after its SYN stops the server from accepting
  (`KeepsAccepting` without `mishaps = {}`). A SYNACK that is late makes the client repeat
  its SYN, and wait for ever or take the second SYNACK for its port; SIGINT after the ACK
  leaves a slot taken, and the EXIT and FIN it sends may break another client's handshake
  (`NoSlotWithoutClient` without `mishaps = {}`).
* Session: after a PUT of a name of up to three characters the child loops for ever
  (`BackToPrompt` with `NameLength <- Three`); with four, `strcmp` reads past the end of the
  path. A LIST of two datagrams is read as answers to the next commands (`InStep` with
  `ListParts = {2}`), and an incomplete file may then be reported as stored (`PutIsStored` with
  `ListParts = {1, 2, 3}`); `src/README.md:33` names no limit. SIGINT where a file name is expected
  sends EXIT as one: a PUT then creates an empty file of that name and the child is left for
  ever. SIGQUIT sends no FIN, so that the child waits for one. An old acknowledgement or any
  text in the place of the first packet of a PUT spoils the count, and an incomplete file is
  reported as stored (`PutIsStored` without its condition). If `fopen` fails: on the child in
  a GET, its TRANSFER_ERROR is taken for a packet, and answers and acknowledgements follow
  each other for ever; on the child in a PUT, both wait for ever; on the client in a GET,
  the child dies after 80 ms; on the client in a PUT, the child waits for ever.
* File store: of two PUTs of one name the one that fails removes the other's file, and the
  second to fail dies in `spqr_assert` (`PutIsKept` without `alone`). A child that dies in
  a PUT leaves a file that GET and LIST take for a complete one.

Smaller ones, seen and not run: the limit is 25 errors, the paper says more than 25; packets
known to be confirmed are sent again if they end after the last byte confirmed; an
empty file is never transferred (window of size 0); the hour of inactivity is
watched by the client, not by the server.

## Plan

Done, each with its runs and proofs: `SelectiveRepeat`, `FileTransfer`, `AdaptiveTimeout`,
`ServerPool`, `Session`, `Handshake` on top of `ServerPool`, `FileStore` with LIST. What would
add most now: `PutIsStored` with stray datagrams, which needs to say which of them spoil a
count.

## What is not modelled

Prompts, progress bar, colours, emoji, ASCII art and the optional video; argument parsing
and the build; measurement data, paper and website. In the transfer: the `sent` flags and
the receiver's `ack` flags, which are never read; `sendto` errors, which are only
logged; and the receiver's branch for sequence numbers out of range, which no packet of this sender
takes.
In the pool: signals before `child_pids` is initialised, and a terminal's SIGINT to
the process group (a child blocks it once it serves; before that it runs its parent's
handler, with the effect of the parent's, and ends).

In the handshake: what a socket error does, and a client that is started again, which is
another client. In the session: the hour-long alarm, whose handler does what SIGINT's does;
a second signal inside a handler; the timeout a failed `fopen` keeps when the next text makes
the client wait for a PUT nobody asked for; upper and lower case; a file named like a command,
which would drive the client's loop (`NamesAssumption`); reordering of texts, which one
socket on a loopback interface does not do. In the file store: the buffers of `stdio` (a
block reaches the file at some point before `fclose` returns), errors of `fwrite`, which are
`SelectiveRepeat`'s `WritesFail`, and files that do not come from a PUT.
