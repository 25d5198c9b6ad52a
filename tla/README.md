# A verification project for streaming-api

TLA+ models of the programs in this repository, TLC runs that check them on
small instances, and proofs, checked by TLAPS, of what holds for every instance.
`PROJECT.json` names for each definition the lines of source it stands for.

Paths below are relative to `src/`; `CC` is short for `casenium_carroll`.

- [1. The system](#1-the-system)
- [2. The modules](#2-the-modules)
- [3. The runs](#3-the-runs)
- [4. Disagreements between code and text](#4-disagreements-between-code-and-text)
- [5. The proofs](#5-the-proofs)
- [6. Fairness](#6-fairness)
- [7. Bounds and abstractions](#7-bounds-and-abstractions)
- [8. What is not modelled](#8-what-is-not-modelled)
- [9. Plan](#9-plan)

## 1. The system

The repository holds several products that share an author and no code.

### casenium_carroll: the streaming microphone server

Four programs that talk through a kernel driver, and the libraries under them.

| Part | State | Operations | What must hold |
|---|---|---|---|
| `driver/ctl10` | two registers, *progress* and *power-off*, shared by every process | ioctls that write, read and reset them | nothing by itself: it is memory two protocols are built on |
| `runexec/croffw` | a counter of polls, the last percentage | ask, poll, report, withdraw | it ends; its report means what it says |
| `runexec/crserv` | main loop, close thread, sound thread, `procv`, sweeper; slot pool, modules, system nodes | start, serve, close, leave | closes only when asked, once, and with everything given back; cannot be left spinning while asked |
| `runexec/crmicp`, `crinp` | the same loop with one system node | the same | the same |
| `library/librmc` | a list of 2048 slots, a random cursor, a timer | create, select, find (the sweeper), final, free | a slot is not taken from a block that is being worked on; slots come back |
| `library/libcrt/mod.c` | lists of modules and threads | load, find, register, cancel, unload, disable | what runs in a module is stopped before the module is unloaded |
| `library/libcrt/ctime.c` | none | elapsed seconds between two readings of minute and second | ends, and is not ahead of the clock, while other threads overwrite the reading it works with |
| `library/libcrt/sysnode.c`, `sign.c` | the list of system nodes; the signal handler | update, free; exit | freed once, counted at most once; a crash on freed memory only in the close phase, though a signal can end a daemon at any time |
| `module/*` | 22 modules loaded at start, five with a thread | answer control messages, watch the process | the threads that walk shared lists survive the close thread |
| `library/libsck` | one listening socket | accept, read lines, write, power off | lines are found whatever the reads return |
| `library/libvbt` | a modified BlueZ test library: two emulated controllers (`btdev.c`), a small host (`bthost.c`), the sockets between them (`hciemu.c`) | commands, connections, channels | all four sides agree on what is connected; every command is answered |

How they interact. `croffw` writes the disable value into the power-off register
and polls the progress register; every daemon reads the first and writes the
second once per turn of its main loop. In `crserv` the audio callback is the
producer of the slot pool (`librmc_create`), hands the block to the modules
(`bcdx` → `cor0` → `dbi0`), and looks it up again (`librmc_select`); the sweeper
thread releases slots that timed out. On a request the close thread tears all of
this down while the other threads run: no list has a lock, and no cancelled
thread is waited for. What a thread touches after that is undefined; the program
relies on its SIGSEGV handler, which calls `exit(0)`.

Hard: every list is shared without a lock; two programs and several daemons
share two registers; the elapsed time is computed by a loop with special cases;
a random cursor is kept in too small a type.

### market: the trades table

`market/program/trades.c`, one process: an array of rows with ids, a `next_id`,
and CSV files. Add, edit, delete, sort, save, load. Ids must identify rows; a
saved file must give the rows back; a save may be interrupted.

### centerbank

Accounts, a ledger and an audit table in one SQLite file; deposit, withdraw and
transfer are sequences of separate statements. Several copies may run, a copy may
be killed between two statements, and refused statements are not noticed. Accounts
must not be overdrawn and must agree with the ledger. Nothing looks at the sign of an
amount, so a negative deposit does overdraw.

### bionicbit

A node that forks for every connection and appends headers to `chain.dat`;
miners and wallets that connect to it; a tool that starts the file anew. What was
acknowledged must stay; nobody may be left waiting; miners should get their
headers in.

### libvbt: two emulated Bluetooth controllers

`hciemu.c` puts two controllers in one process. The master has the kernel as its
host, the client a host of a few hundred lines, `bthost.c`, with a command queue, a
list of connections and channels on them. The controllers call each other directly;
each talks to its host over a socket, and one main loop handles what arrives. What
is in a socket when the other side changes its mind is what makes this hard: a page
is cancelled while it is accepted, a connection is closed while data is under way.

### biosec: the chat server

`biosec/program/chat_server.c`. `main` accepts, waits for a name, enters the client
into a table of fixed size and starts a thread for it, which passes on what the
client says, to everybody or to one name. A mutex protects the table; what is taken
out of the table is used after the mutex is released, and descriptor numbers come
back as soon as they are closed. Who is connected should be listed, private messages
should reach whom they name, and nobody should be kept out.

### iserver-linux: the web server

`iserverv2.6/webserver` with `libar` below it. One thread serves one connection at a
time: a request line, headers, a search for the file, a script beside it that can
change the outcome, a count, a header, a body. Clients stop in every place, files
change between two looks at them, and descriptors are never closed. Who asks for a
file should get it, all of it and nothing else, and the next client its turn.

### biosec's bank, ERP64, LocalSign, erp_client

A second bank front end and window programs. Not modelled, see
[section 8](#8-what-is-not-modelled).

## 2. The modules

| Module | Models | Built on |
|---|---|---|
| `CrClock` | the clock as `ctime.c` reads it, and the closed form `Elapsed` of `get_time_final` | |
| `CrTime` | the loop of `get_time_final`, one test a step, and the other threads' `localtime` between any two | `CrClock` |
| `Ctl10` | the registers of the control driver and the ioctls that move data | |
| `Lifecycle` | abstract: what powering off promises about a daemon | |
| `PowerOff` | `croffw` and the daemons' main loops and close threads; implements `Lifecycle` | `Ctl10` |
| `PowerOffProofs` | proofs, that of the refinement among them | `PowerOff` |
| `ThreadRegistry` | the thread registry of `crserv` from registration to unloading, with the walk of module `thi0` | |
| `RmcPool` | the slot pool in service: sound thread, sweeper, clock | `CrClock` |
| `CrservProofs` | proofs about what `crserv` runs on: the clock, the loop and the pool, and the thread registry | `CrTime`, `RmcPool`, `ThreadRegistry` |
| `TradeTable`, `TradeTableProofs` | the trades table and its file; proofs | |
| `CentralBank`, `CentralBankProofs` | the bank, statement by statement; proofs. `MCCentralBank` has amounts for TLC, one below zero | |
| `BionicNode`, `BionicNodeProofs` | the node, its children, their clients, the chain file; proofs | |
| `ChatServer`, `ChatServerProofs` | the chat server's main, its threads, table, mutex and descriptor numbers; proofs | |
| `HciEmu`, `HciEmuProofs` | the two emulated controllers, `bthost`, and the kernel as far as the controllers can tell; proofs | |
| `WebServer`, `WebServerProofs` | the web server's one thread, the client it serves, and an editor of the document root; proofs | |

Each state module has one action per step of the code that other threads or
processes can observe. Definitions introduced by a comment `Variant:` are not part
of any specification; each is a plausible bug in the definition that follows it
and shows that some property would notice.

### PowerOff

`pc[d]` is the place of `main` of daemon `d`: `zero` and `fresh` are the reset of
the two registers at startup (crserv `main.c:417-420`), `top`, `state`, `write`
one turn of the loop (count, read the request, publish), `thread`, `serve`,
`nodes`, `node`, `final` the branch taken when the disable value was read (create the
close thread, `mod_disable_service`, `libcrt_snexit`, the two tests that lead out).
`procx[d]` is the close thread: `sweeper` and `slots` are `librmc_exit` and
`librmc_free`, `cancel`, `mods` and `mod` are `mod_thread_exit` and `mod_free`, `close`
clears `close_final`. `crt` is `crt_free`, the plain counter both increment
(`sysnode.c:46`, `mod.c:319`): `nodes`/`node` and `mods`/`mod` are the read and the
write of one increment, `mreg` and `creg` what was read, and an increment of the other
in between is lost. `nodes` and `mods` count, for the properties, what is really freed. `opc` is `croffw`. `asked` is a ghost that remembers whether
a request was made since the daemon's startup reset. `Fleets` says which daemons may
be installed together; the others are `absent` throughout a behaviour.

A daemon may crash (`Gone(d, "crashed")`) where one of its threads may touch what the
close thread freed: a slot walk it was inside (`TouchFreedSlot`), a module visited
by `mod_disable_service` (`TouchFreedModule`), the thread registry
(`TouchRegistry`). These are nondeterministic because the outcome of touching
freed memory is; `TouchRegistry` allows it at any time after the sweeper was
cancelled, more than the code can do. `ThreadRegistry` has that part in detail.
It may also fail at any time (`Fail`, `Gone(d, "failed")`): the handler of `sign.c:53`
ends it on SIGPIPE when the client of its socket has gone (`libsck.c:258`), and
`libmic` calls `exit` when the sound device gives an error. A server that cannot load
its modules asks everybody to power off (`LoadFails`, crserv `main.c:353-357`), and its
own reset of the registers, a moment later, takes that back.

`Lifecycle` is what a user may rely on: closes once, gives back slots before
modules, ends in order only with empty hands, crashes on what it gave back only while
closing and only if it has modules. It may also fail for reasons of its own at any
time, which is kept apart. `PowerOff` refines it with `phase` read off `pc`, `procx` and
`ended`, and `held` off the counters.

### ThreadRegistry

Threads are numbered in registry order: modules, the sweeper, main's own. `main`
creates, links and counts a thread (`mod_thread_update`); `thi0` walks the list,
detaches what it finds and "joins" what it has detached before; the close thread
cancels the sweeper, then every entry, frees entries, then takes modules apart. The
test of `prev->tid` and its use are separate steps (`proc.c:34,36`): the build is
`-O0`, the field is read again. `End` is deferred cancellation taking effect.
`NullHandle`, `StaleHandle`, `FreedEntry`, `FreedStruct` and `Unloaded` are the
undefined accesses, each enabled exactly where a thread is about to make it.

### RmcPool

The sound thread walks the list slot by slot: `SkipUsed`, `Stamp`, `Take`,
`DropBlock` are `librmc_create`, `SkipOther`, `Select`, `LoseBlock` the second
lookup. The sweeper makes up to N calls of `librmc_find` per second: `FindMiss`
(no slot has the cursor), `FindSlot` (the slot's timer), `FindCore` (the timer of
the sweep). The clock ticks between any two steps. `CRMC_FINAL` does not occur:
`librmc.c:217` compares where it looks like assigning, so no slot is ever final and
`librmc_final` finds nothing. A cursor of `65535` (the wrapped -1) is `Nowhere`.
Codes are pointers into the ten static buffers of `cdigest`, hence `Alias`.

### TradeTable, CentralBank, BionicNode

`TradeTable` keeps of a row its id, whether symbol and date would survive the file,
and whether the price has more than the ten digits that are `Written`; saving and
loading go row by row, with `Kill` in between, and `SaveClose` may leave out an end of
the file that the disk did not take. The ghosts `was` and `cut` say what was saved last
and whether its end was lost. `CentralBank` has
one step per SQL statement and copy, `Busy` for a statement that SQLite refuses,
`Kill` between statements; of the ledger it keeps the sum per account. The ghost `debt`
adds up what negative deposits and transfers have taken from an account. `BionicNode`
has one step per system call that matters: both writes of `send_msg`, accept and
fork, the read, the append, the answer, the close. Opening the file may fail, for the
append (`OpenFile`) and for the count (`Load`), and so may the write (`AppendHeader`);
the answer tells none of it.

### ChatServer

`mpc` is `main`, `pc[c]` the thread of client `c`. Accept, the name, entering, each
send of `send_to_all` under the mutex, the wait in `recv`, finding an addressee,
telling it, the close and the removal are steps; `cli->sock` is read in the step that
uses it, while the entry `find_by_name` returned is kept in `to` and used a step later.
`file` maps descriptor numbers to connections and `Accept` takes the lowest free one,
as the system does. `mem[c]` is the block `malloc` gave the entry of `c`, and `block`
says whose entry is in a block now: a pointer to freed memory reads nothing, or the
entry that was put there since. History variables hold what the properties have to
except: clients that met a full table (`unlisted`), a number given out between its
close and the removal of the entry (`reused`), clients whose entry or socket another's
thread took away (`wronged`), and addressees whose message somebody else has got.

### HciEmu

A packet is its kind, and every connection has handle 42, as in `btdev.c`. `toDev`
and `toHost` are the sockets. `Device(d)` is one packet handled by a controller, with
the call into the other controller in the same step; `Host` is one packet handled by
`bthost`, with the commands and data it sends in reply; `tail` and `ncmd` are its
command queue and credit. The kernel is not in the repository: it gives any of
`Commands`, one at a time as the credit it is given allows, and is kept to what a
controller would take from it. `conns` is the list of `bthost`'s entries, newest
first, because one handle can be entered twice. The history variable `overlaid` tells
that this handle may have stood for two connections: `Link` made one while the peer's
controller still had one or while a configuration request was on its way to it, or the
kernel sent such a request with the news that the connection is closed already in its
socket. The last two need more commands than the run gives (seven, found with larger
bounds); the first is what a reset leads to.

### WebServer

A request asks by a plain name or an `odd` one, or by none at all (`NoName`). `pc` is the place in `module.c`'s loop and in `request.c`: accept, the wait for the
first byte, request line, headers, `request_path`, script, count, header, body,
shutdown. `Locate` is `request_path` with its search for endings and index documents
and `request_checkfile`, which has the last word on the status (`StatusOf`);
its several system calls are one step, after which the editor can change everything.
`size` is taken in one step and the file read in another. `conn[c]` goes from `queued`
over `open` to `shut`, never back: `Taken` counts descriptors for good. A body leaves in
pieces as far as the client reads (`reads`) and `Window` allows.

## 3. The runs

| Run | What it shows |
|---|---|
| `crtime` | for every pair of readings and however other threads overwrite the shared `struct tm` under the loop: the count is at most two seconds ahead of the true time, unless a new hour's minute stands beside the old second; undisturbed it is at most one ahead and exact within a minute; every undisturbed call ends, and a disturbed one spins only on a reading that stops the counting half way |
| `poweroff` | one `crserv`, or `crmicp` and `crinp` together, with `croffw`, restarts and repeated requests: an orderly end has released everything although 90 percent would let a daemon leave and increments of the count are lost; one close thread per run; a daemon starts to close, leaves its loop or crashes on freed memory only when asked after its start, though each erases the other's requests at startup and each may fail unasked; a standing request gets a daemon down unless so many increments were lost that main never finds 90 percent; every run of `croffw` ends; the protocol refines `Lifecycle` |
| `report` | *violation*, see below |
| `registry` | nothing is unloaded before every thread was cancelled; no handle is cancelled after its thread ended; `thi0` never blocks in `pthread_join`; nothing undefined is reached in service; after closing, every thread ends |
| `pool` | a wedged cursor stays wedged; no slot is released before its time, unless the clock ticked during the sweep; the second lookup finds the own slot or an earlier alias, and misses only what the sweeper released |
| `trades` | ids stay unique until a load brings one the table has; when the file has been read to its end, the plain rows of the table saved last are back, their prices rounded to ten digits, except for what a kill or a full disk kept from the end of the file |
| `bank` | two copies with refused statements and kills: nothing is overdrawn by more than the negative amounts entered for it, and the -1 of a refused read; as long as the copies did not meet, accounts and ledger agree at the prompt and each kill opens a gap of at most the amount it hit |
| `node` | concurrent appends, counts and a run of the chain tool: while the tool is not run, an acknowledged header stays unless the file could not be opened or written for it, and a height counts what was acknowledged unless it is the zero of a file that did not open; every client that waits is answered or turned away; a full table of ended children stays full |
| `miner` | *violation* |
| `chat` | a client in service is listed unless the table was full or another's thread has freed its entry, for which a number has to be given out too early; a private message goes astray only if its addressee has hung up or was wronged so; everybody is accepted and entered unless a client says no name, or does not read what it is sent under the mutex |
| `hci` | controllers and hosts agree in the end on what is connected, unless the kernel has reset; no data reaches a host without an entry and no null connection is followed; each command is answered once (but for `ADD_SCO_CONN`); a granted channel is refused only where a connection was made over another one, or the request was passed on over a later connection than it was sent on; what the kernel asks for is made or fails |
| `web` | who asks for a file that is not touched gets all of it, except over the last descriptor, and nothing of it if the name is odd and there is no script; what is sent is the file, or for a binary that has shrunk what lies behind it; nobody is answered who has not asked, and the process dies only of a client that is gone or of an accepted request for a directory, for no file, or beside a script; everybody gets a turn unless a client stops in mid-line or stops reading, or the descriptors are used up |

`CHECK_DEADLOCK FALSE` is set where the system may stop: `crtime` (a call that
returned does nothing), `registry` (the process has ended), `chat` and `web` (all
clients have gone, or everybody waits for a silent one, which the properties say in
their own words), and `hci` (the kernel has said what it had to say).

`chat` and `hci` check the type invariants of their modules; those of the modules with
proofs are theorems and are not run again.

## 4. Disagreements between code and text

- **report** (`CompleteMeansOff`). `CC/README.md:71` powers the project off with
  `croffw`, which prints "complete progress" once it has read 99 and then resets
  the register. The daemon has to read the request once more, after its close
  thread cleared `close_final`, to leave its loop. TLC finds the run in which the
  percentage gets there first: the daemon has freed everything and stays.
- **miner** (`MinedAppended`). `bionicbit/readme.txt:229` and `:302`. The process
  that served the height request does not read a second one; the header of a miner
  is never appended. This is a liveness property and is refuted under fairness of
  every process involved.

Observed while modelling, and without a run:

- `CRMC_FINAL` is never assigned (`librmc.c:217`); the cursor of the sweeper
  wedges with probability 1/2048 per draw (`librmc/proc.c:37`).
- `crserv`'s branch at `main.c:431` and the reset at `:473` are never reached,
  because no node error ever names a module.
- `error_s` in `mod_update` is not reset between attempts: a module with one missing
  symbol has `xm_init` called thirty times (`mod.c:82`). Of two modules with one name
  (`dbm0` calls itself `dbv0`) `mod_find` returns only one (`mod.c:231`). The search
  of `cor0/init.c:84` treats an empty entry and the same code alike.
- `cread` of `libsck` forgets a carriage return that follows another
  (`libsck.c:221`); `libsck_poweroff` clears a flag that is only read after `accept`
  returns (`libsck.c:145`).
- `trades.c:39` says "unique id" and `trades.c:256` "ensure id unique": saving and
  loading into the same table doubles every id, which is the exception in
  `UniqueUnlessLoaded`. `trades.c:172` assumes lines "from our own writer", which
  quotes only the notes: a quote in symbol or date hides the commas and the row is
  skipped, an exception in `PlainRowsReturn`; the price is rounded to ten digits
  (`trades.c:148`), and errors of `fprintf` and `fclose` are not looked at.
- Ended children of the bionicbit node are never waited for. It answers height 0 when
  the chain file does not open (`db.c:14`), and "ok" when it does not open or cannot be
  written (`db.c:9`, `:10`).
- The web server's status line is always `HTTP/1.2 200 OK`. `open` succeeds for
  directories, so index documents are searched only when no descriptor is left. The
  listing stubs in `ctrl.c` return nothing. The only time limit is that of the first
  byte, `Timeout` times ten seconds. Nothing handles SIGPIPE. `script_startup` cuts a
  pointer to 32 bits and allocates that many bytes. A file that is there is not found
  under a name with `//`, `/\` or `./` in it (`cpath.c:440`), unless a script of the
  document root finds it again (`request.c:308`). A request without a file name
  (`GET ? HTTP/1.1`) leaves `PathTranslated` NULL, and `script_search` takes its length
  (`script.c:77`): the exceptions in `WholeFile` and `AnswersOnlyAsked`.

## 5. The proofs

`tlapm` checks every leaf. Named assumptions are stated where the constants are
declared; TLC evaluates them on each run.

**CrservProofs** extends `CrTime`, `RmcPool` and `ThreadRegistry` together;
`CrTime` calls its parts `CallInit`, `Iterate`, `CallSpec` and so on for that, and
`ThreadRegistry` `RegistryInit`, `RegistrySpec`. `CrTime` and `RmcPool` both count by
the clock of `CrClock`. First come the lemmas about the clock, from `ClockAssumption`: a
tick is a reading, `Elapsed` and `Lapse` are numbers of their range, `Elapsed` compared
with the true time (`ElapsedAhead`), and how it grows by a tick (`TickElapsed`). Then

- `CallTypeCorrect` and `LoopReturnsElapsed`, the latter saying that a call nobody
  disturbs computes the closed form for every clock face and every pair of readings.
  `LoopInv` says that the count has not passed the result, and which tests of the
  round have failed. This is what lets `RmcPool` use `Elapsed` in place of the loop.
- `AheadByTwo`, with the other threads' stores. `NearInv` says where the clock and
  the half-stored reading can be while less than a minute has passed, and what bounds
  the count there: in the minute of the start the second `local` shows; in the next
  one the carry test of the round before, and a round counts two seconds at most; once
  the hour has turned, there is nothing to count.
- of the pool, from `PoolAssumption` too (the cursor's type holds more values than
  there are slots): `TypeCorrect` from `PoolInv`; `TypeOK` alone does not say that the
  positions the two threads hold between steps name slots.
- `LastSlotStays` and `WedgeStays`: action properties. `CursorRange` and
  `CursorApart` say that the cursor is a slot other than the last or no slot at
  all; `ReleasedAtCursor`, that only the slot at the cursor is ever released.
- `NotReleasedEarly`: `NoEarlyRelease` from `AgeInv`: while a slot is used its age is the
  true time since its stamp, until it is `Limit`, and a sweep during which the clock has
  not ticked measures from now, or from the zero reading its first measurement left.
- `AnswerLost`, `LookupFinds` from `AnswerInv`: while the second lookup is under
  way the block's own slot is in use or the ghost `lost` is set. Without the first
  half neither property is inductive: a step past the own slot has to know that its
  status let the lookup stop there.

Of the threads, from `ThreadsAssumption` (at least one module thread):
`RegistryTypeCorrect`, `CancelledFirst`, `NeverJoins`, `DiesClosing` and the action property
`NoStaleCancels`, for any number of threads, all from `ThreadInv`. It describes the
registry phase by phase: while main registers, the entries below its own are complete
and those above blank (`Registering`, which is why nothing undefined is reached in
service); while the close thread empties it, exactly which threads have been
cancelled and which entries still hold a handle (`EmptyingRegistry`, which treats the
sweeper apart, its entry being visited twice); after that everything is cancelled
(`Unloading`). `Walking` says what `thi0` may rely on between its tests.

**CentralBankProofs**, from `BankAssumption`:

- `TypeCorrect`.
- `Overdraft`: `OverdrawnAsEntered` for any number of copies and amounts of any
  sign. `BankInv` adds that a copy about to update has read enough (`Covered`), and
  that what it read is overdrawn by no more than the debts of the account (`Backed`),
  which only grow (`DebtGrows`); but for a refused read, and for an account that does
  not exist and which a single copy cannot open in the middle of its own operation.
  `TwoAreMany` connects the latter with the number of copies.
- `GapBounded` and `BooksReconcile`, from `LedgerInv`: for a single copy the gap of
  an account is what the step the copy is at has yet to book (`Due`), and a kill turns
  that into a gap that stays (`Drift`), so that each kill counts once (`Within`). That
  amounts have a largest size is part of `BankAssumption`: they are doubles.

**TradeTableProofs**, from `BoundsAssumption`: `TypeCorrect`, `IdsBelowNext`,
`UniqueIdsKept`, `FileIsPrefix` and `PlainRowsLoaded`, all from `TradeInv`. The parts
have to go together: that `next_id` stays in its range after a load needs that the
lines of the file come from rows, also after a kill (`DiskBelow`), which needs that
ids are below `next_id`; that the table does not overflow needs how much of the file
is still to be read (`Room`); and what a load gives back has to be said of every line
already read (`ReadBack`), and of the file, that its lines are the first of those saved
last, the last one perhaps torn (`FirstRows`, `CutLines`). `MovedLast` says what
`table_delete_by_id` leaves.

**BionicNodeProofs**, from `NodeAssumption` (finitely many clients):

- `TypeCorrect`, with the two facts that are not about single variables: the table
  holds at most `MaxProcs` processes (counted by `OneMore`), and a socket is open
  exactly while a process serves it.
- `FullStays`: `FullForGood` from the first of them.
- `AckedStay`, `HeightsCount` from `FileInv`, which includes the clients whose
  process has appended and not answered yet, and that the tool, once opened, has used
  a run. `StoredBound` compares the headers in the file with its length.

**PowerOffProofs**, from `SizeAssumption` (sizes at least one, the nodes at least
as many as slots and modules, and the slots more than one in a hundred of all, as in
the code):

- `TypeCorrect`, `OrderlyEnd`, `ClosesOnce`, `AskedClose`, `CrashesClosing` from
  `PowerInv`, which is `DaemonInv` for each daemon and that a standing request was
  made after the startup of every daemon. The percentage the daemons compare need not
  be tracked: it is zero exactly until the close thread exists. `main` frees
  the nodes, half of the total or more, before it comes back to the head of its loop;
  the close thread can overwrite what main has counted only when it has freed the
  slots, whose count is its own (`Tallied`, `Sharing`, `PercentOf`, `PercentZero`).
  This is why one close thread is created and not two, whatever is lost. `Ordered` is the close thread's
  program order, `Looping` where main can be beside it, `Asked` that everything which
  follows a request follows one made since the startup.
- `Implements`: every step of `croffw` and the daemons is a step of `Lifecycle` or
  changes neither `phase` nor `held`. `Own` says of each action that it touches only
  its own daemon; the refinement lemmas then look at one daemon at a time.

**ChatServerProofs**, from `ChatAssumption`, for any clients, table, descriptor
numbers and memory. The accept step takes the lowest free number, and a search takes the
first entry that fits; `FirstOf`, from the library's well-founded minimum, says that
there is one.

- `TypeCorrect` from `Inv`: where a client stands in its life, whom `main` holds and who
  waits in the backlog (`LifeInv`), that a block of memory is whose entry was put there
  last (`MemInv`), whom a thread is about to tell (`ToldInv`) and how far a walk under
  the mutex can be (`WalkInv`).
- `StrayedHaveLeft` from `KeptInv`: a client that is not wronged has its entry and its
  connection while it is served, and has left afterwards. The property itself says
  nothing of clients nobody has written to yet, so it is not inductive.
- `ServedListed` from `NumberInv` and `ServedInv`. Two clients have one number only
  if it was given out between a close and a removal (`Apart`, `MainApart`): only then
  can `remove_client` free the entry of another one.

**WebServerProofs**, from `NamesAssumption`:

- `TypeCorrect`, and `OnlyAsked` from `TalkInv`: a line that ends the request is the
  client's last (`LastIsLast`), and what the server has read of the request at each of
  its steps, so that nothing is asked of a client that was refused; a path is NULL only
  where no file was named.
- `WholeFileSent` and `NothingForeign`, both from `FileInv`: until the document root
  moves, what was found is the size of the file (`StillThere`), it is served as one
  (`FoundServed`), what was counted is the file and all of it if it could be opened
  (`Counted`), and it has all been sent (`SentWhole`); for an odd name without a script
  (`Denied`) nothing is counted or sent. Each part names the steps at
  which it holds.

**HciEmuProofs**, from `EmuAssumption` (the kinds of controllers and the calls of
`bthost` there are) and `KernelAssumption` (what the kernel sends are commands and
signalling that a controller could be given), for any number of commands and packets:

- `TypeCorrect`, `HostsAgreeAlways`, `HandlesGood`, `CommandsAnswered`, all from
  `EmuInv`. Its parts need each other: that no null pointer is followed needs that a
  disconnect is read only while there is a link (`DiscInv`), which needs that the
  kernel believes in a link only if there is one (`LinkInv`), and that it gives one
  command at a time (`FlowInv`); that data finds its entry needs that none is put
  between a closing event and the next opening one (`FedInv`).
- `DiscInv` is where the reset shows: it closes nothing, so what the kernel knew is
  lost, but what was sent before its completion cannot speak of a later link. The
  invariant therefore tells what stands before the completion in the socket from what
  stands behind it (`Past`).
- `GrantedKnown` from `RefusalInv`, which adds to `EmuInv` that the kernel has a channel
  only on a connection (`ChanInv`), and what is known of it until a connection is made
  over another (`GrantInv`). Each configuration on its way to `bthost` is `Backed`: a
  request for the channel stands before it in the socket, or the newest entry has
  granted it already, and nothing between them opens or closes a connection. Each
  configuration on its way to the controller follows a request that is there too
  (`Asked`), or what `bthost` will make of its socket knows the channel (`Knows`).
  A request, its grant and the configuration are in four sockets at four times; the
  lemmas say how each predicate changes when a packet is put behind the others or the
  first is read.
- The state of a socket enters only through what a host will make of it: whether it
  opens or closes a connection in the end (`Opens`, `Shuts`), whether data comes too
  early or too late (`Early`, `Late`), how many commands or answers are in it
  (`Count`). The first lemmas say how each changes when packets are put behind the
  others, and when the first is read.

Proved and not repeated in a run: the type invariants of `CrTime`, `RmcPool`,
`CentralBank`, `TradeTable`, `BionicNode`, `ThreadRegistry`, `PowerOff` and `WebServer`;
`NextIdAbove`, `PrefixWhileSaving`, `LastSlotPinned`, `ReturnsElapsed`, and
`CrashesOnlyClosing` of `PowerOff`. TLC agreed with each before it was proved, as with
every inductive invariant named here.

Only model-checked: liveness (`Terminates`, `StandingRequestEnds`, `OffwEnds`,
`AllThreadsEnd`, `NobodyWaits`, `Admitted`, `ConnectAnswered`, `Served`), which is
beyond the prover. Every safety invariant of a passing run is proved.

## 6. Fairness

- `CrTime`: weak fairness of the loop, which one thread runs. Nobody has to
  overwrite the reading.
- `PowerOff`: weak fairness of the main loop and the close thread of each daemon,
  of leaving a slot walk, and of `croffw` once it runs. They are threads the
  scheduler runs; none waits for another. Nobody has to start `croffw` or a
  daemon, nothing has to crash or fail, no increment has to be lost, and a signal need
  not end `croffw`.
- `ThreadRegistry`: weak fairness of each thread, and of `End`: a cancelled thread
  gets to its next cancellation point, since every thread of the program sleeps in
  its loop. Nothing has to be closed, and no thread has to touch freed memory.
- `BionicNode`: weak fairness of accepting each queued connection (the backlog is
  a queue, finitely many clients precede), of each forked process, and of miners
  and wallets while they run. Other peers owe nothing but to read their answer;
  nobody has to start again, and nothing has to fail.

- `ChatServer`: strong fairness of `main` and of each thread. They compete for a
  mutex, and weak fairness would let one find it taken for ever; a thread that keeps
  taking it waits for its client in between, so the others get their turn.
  No client has to talk, read or hang up.
- `HciEmu`: weak fairness of each controller's and `bthost`'s handling of a packet, of
  `bthost`'s start, and of the kernel reading what it is sent: one main loop that
  serves every socket. Nobody has to give commands, send data or call.
- `WebServer`: weak fairness of the serving thread, and strong fairness of `Send`: a
  client that reads again and again gets all. Nobody has to connect, go on, read or
  hang up, and the premise of `Served` names the client that holds the thread.

The other modules have safety properties only and state no fairness.

## 7. Bounds and abstractions

| Where | Bound or abstraction | Why it is enough |
|---|---|---|
| `CrTime` | `SPM` 5, `MPH` 3, all readings; any number of stores | the same, the next, a later minute and the wrap of the hour; the loop compares with `SPM` only; the proof covers all faces |
| | between `start` and the call less than an hour passes | the hour is not kept; a longer time makes the count less ahead |
| `PowerOff` | `NODES` 6, `SLOTS` 4, `MODS` 2, `BATCH` 2 | the percentage takes values below 60, between 60 and 90, between 90 and 99 and 100, in different orders of nodes, slots and modules, and one or two lost increments keep it below 90; the code has thousands of each and frees slots one at a time, `BATCH` merges two, whose count nobody else writes |
| | `UINT` 1024 | only has to exceed 100 and to keep the wrapped -1 apart |
| | closers capped at 2 | one more than allowed |
| | `walk` is one bit | which thread is in the list does not matter for touching it |
| | `Fleets`: a server alone, or two input programs | a server with an input program exceeds what TLC finishes; the input programs run the same loop; the proofs cover any daemons |
| `registry` | `NM` 2, `OWN` 1 | every order of `thi0` and another module; the tree has 5 and 2. `librmc_free` is left out, `PowerOff` has it |
| `pool` | three slots, two buffers, `SPM` 2, `MPH` 2, `Limit` 1 | the last slot, an alias pair and a slot without; the clock wraps; the proofs cover all sizes |
| | a call of `get_time_final` is one step that nobody disturbs | the pool is about the sweep; what other threads do to the count of a call, or to its end, is `CrTime` |
| | the cursor is drawn in `FindCore` | `rand()` is drawn by the sweeper between two calls and used by the next |
| | `last` of `librmc_create` is left out | it is written and never read |
| `trades` | `MaxId` 3, `MaxRows` 3 | two live ids, a third row for a load on top of them. Sort exchanges two rows at a time, which gives every order |
| | symbol and date together are plain or not, a price has up to ten digits or more; a line of the file may be torn | what is not plain is skipped or read back changed, a torn line too |
| `bank` | two copies, two accounts, amounts 1 and -3 of a unit of 2, 4 operations, 2 kills | transfers to the same and to a missing account, of either sign; gaps that add up; an amount below one is needed for the exception; the proofs cover any copies, accounts and amounts |
| | amounts are finite numbers, added exactly | a double rounds; infinities and what is no number are left out |
| `node`, `miner` | process table of 2 or 4, a miner, two peers (a wallet takes the path of a peer that stays), one run of the chain tool | two concurrent appends; the table fills while requests are outstanding |
| `chat` | four clients that connect in order, one that may stop reading, one that speaks, two that stay; a table of two, four numbers | a full table; the number of one that leaves given to one whose entry comes first in the table, so that the wrong entry is freed, which takes four clients; the new entry in the same memory; a holder of the mutex blocked while others wait; the proofs of the invariants cover all sizes |
| | names are distinct | a second client of one name is never found, and nothing else looks at names |
| | reading `cli->sock`, taking the mutex and the first look at the table are one step | nothing but the holder of the mutex changes the table or frees an entry |
| `hci` | both controllers `bredrle`; three commands and two data packets of the kernel, of each handler one or two; one call of a test; `Cap` 1 | connections from both sides that cross; a cancelled, a refused and a reset one; a second connection over a handle that is still entered |
| | only the kernel disconnects; addresses are the peer's or an absent one | `bthost` has no call that disconnects; there are two controllers |
| `web` | two connections, two descriptors, one change of the document root, files of up to three units, a window of one, one line ahead | the last descriptor; a file that grows, shrinks or goes between count and read; a body that needs several sends; the proofs of the invariants cover all sizes |
| | encryption, the cache's redirects, icons below the server root, scripts in directories, and a script that is one 404 line without an end of line are left out | they choose another file, not another course of the request |
| `BionicNode` | a header is the name of its sender; a message arrives whole or not at all | lengths and contents decide nothing else; a message cut short ends like no message |
| | a write to the file is one step, and happens or fails as a whole | 80 bytes leave the buffer in one `write` at `fclose`; a disk that takes a part of them is left out |

Time in `PowerOff` and `ThreadRegistry` is interleaving only: sleeps are steps that
can take any number of steps of the others.

## 8. What is not modelled

- The path of a block through `bcdx`, `cor0`, `dbi0`, `dbo0`; module loading and
  lookup (`mod_update`, `mod_find`, `mod_getmod_func`); `libsck`: planned.
- The walks of `mod0`, `map0`, `stk0` and `bcdx`: the same shape as that of
  `thi0`; in `ThreadRegistry` they are threads without a walk.
- Sound, files, configuration, display (`libalsa`, `libarc`, `libcda`, `libqtw`,
  ...): input and output without protocol. Of `libvbt`, everything but the emulated
  pair: management sockets, ioctls and tables of BlueZ, and of `btdev.c` and `bthost.c`
  the commands that set or read a value nothing depends on.
- `qtl10`, `ice10`: copies of `ctl10` that the protocol does not use.
- iserver: the encrypted mode, the configuration files, modules and the window
  programs around the server.
- The other bank front end (the same statements as `centerbank` behind a window),
  ERP64, LocalSign: separate products, forms over a database.
- Web pages in PHP and Java: no state of their own.

## 9. Plan

Done: time, power-off with its refinement proved, thread registry, slot pool, trades,
bank, node, chat server, emulated controllers, web server.

Next, in this order:

1. `ModRegistry`: `mod_update` with its retries, `mod_find` and
   `mod_getmod_func`; a module that fails to load, two with one name.
2. `BlockPath`: the store of `cor0` and the messages that fill and empty it,
   composed with `RmcPool` through the code of a block.
3. `LineServer`: `libsck`, the line matcher against a reference definition over
   all short inputs, and the accept loop against `libsck_poweroff`.
