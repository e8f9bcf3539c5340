# The FreeRootSDOS in TLA+

A verification project for FreeRootSDOS, a 32-bit kernel for PC hardware with a
shell, two file systems, a small TCP/IP stack and a desktop. It holds TLA+ modules
translated from the C source, TLC configurations that check them on small
instances, and proofs that TLAPS checks for every value of the constants. Paths in
this text are relative to `src/`.

    tlasany M.tla                          parse a module
    tlc -workers 2 -config X.cfg M.tla     check an instance (M and X as in the table of runs)
    tlapm M.tla                            check the proofs of a ...Proofs module

## 1. The system

### How it runs

There is one thread of control. `kernel_main` (`kernel/kernel.c`) initialises the
parts one after the other and enters `shell_run`, which never returns; commands,
the desktop and the games are functions it calls. Three interrupts run beside it:
the timer (IRQ0, 1000 Hz), the keyboard (IRQ1) and the mouse (IRQ12). Their gates
are interrupt gates, so a handler runs to its end with interrupts off, between any
two instructions of the program. Nothing locks: the program reads and writes what
the handlers share with interrupts on. Network cards and disks raise no interrupt
that anybody takes; they are polled, and a poll calls the protocol handlers from
inside whatever function is waiting. So there are four sources of difficulty:

1. an interrupt between two accesses of the program (key ring, mouse flag, ticks);
2. a poll that re-enters the network stack inside a send;
3. sector writes that fail, or power that fails, between two steps of an update;
4. long sequences of legal calls over shared tables and a heap that trusts its
   callers.

### Inventory

| component | state | operations | talks to | hard about it | what makes it correct | modules |
|---|---|---|---|---|---|---|
| Kernel heap, `kernel/kmalloc.c` | bitmap of blocks, the blocks | `kmalloc`, `kfree` | everybody calls it; no handler does | `kfree` trusts a header that lies in the heap itself; the last free run; a full heap | regions never overlap, a region freed frees only its own blocks, null only when nothing fits | `FirstFit`, `FirstFitScan`, `Kmalloc`, `KmallocCall`, `Heap` |
| Drive A:, `fs/fs_disk.c` | table, sector bitmap, current directory in memory; superblock, table and data sectors on disk | init, write, read, delete, mkdir, cd, rename, format | shell, environment, desktop above; ATA or floppy below | sector writes fail; power fails between them; boot reads may fail | no sector in two files, none lost, success means readable and durable, bystanders untouched | `FsDisk` |
| Drive H:, `fs/fs.c` | table of entries with pointers into the heap, current directory | write, read, delete, mkdir, cd, rename, format | shell, desktop; heap | hands out pointers, frees before it allocates; recursive deletion; `uint8_t` indices | no leak, no dangling pointer, a file reads as written, the tree stays a tree | `FsHeap` (over `Kmalloc`) |
| Keyboard, `drivers/input/ps2/keyboard.c` | ring of keys, modifier flags, prefix flag, terminal to switch to | IRQ1, `keyboard_available`, `getchar`, `getchar_nonblock` | shell, desktop, games; `hlt` woken by any interrupt | handler and reader share the ring; scan-code prefixes, hidden Shifts, two keys for one flag | keys come once and in order, no modifier sticks, every key is taken | `KeyQueue`, `KeyRing`, `Keyboard` |
| Mouse, `drivers/input/ps2/mouse.c` | packet under way, position, `mdirty` | `mouse_init`, IRQ12, `mouse_moved` | desktop | initialisation polls with the handler on; flag read, then cleared | packets stay in step; no movement undrawn | `Mouse` |
| Timer and interrupts, `kernel/idt.c` | `ticks` | IRQ0, `timer_sleep`, the callers' waits by difference | everything that waits | 32-bit counter wraps after 49 days | no wait ends early, all of them end | `Timer`, `Devices` |
| TCP, `net/tcp.c` | one connection: state, two numbers, receive buffer, FIN flag | `tcp_connect`, `tcp_send`, `tcp_recv`, `tcp_close`, `tcp_handle` | wget and browser above, IP below | loss, repetition, reordering, a receive buffer that fills, numbers that wrap; nothing is sent again | bytes in order, end only at the end, no untrue acknowledgement | `Tcp` |
| Network below TCP, `net/{net,arp,ip,icmp,udp,dns}.c` | ARP table, DNS cache, UDP listener of the resolver, one pending echo reply | resolve, send, handle, ping, listen | cards below; shell, TCP above | `ip_send` polls for ARP and so handles frames in the middle of a send; tables that fill; answers that come late or twice | an answer is matched to its question; a frame goes to the host it is for | `IpStack` |
| Network cards, `drivers/net/*` | receive rings, transmit buffers, the registers they share with the card | init, send, poll | network stack | card and driver use one ring, each card with its own rule for who owns what; a send that gives up while the card still has the buffer | each frame once, in order, and lost only when there is no room | `NicRx`, `NicTx`, `FrameQueue` |
| Storage drivers, `drivers/storage/*` | base address, drive found | sector read and write, floppy retries | file systems | timeouts and retries of the floppy | a sector access succeeds or reports failure | in `FsDisk` as succeeding or failing accesses |
| Shell, `shell/shell.c` | line, history, active drive | line editing, completion, commands, scripts | all of the above | the line exists twice, in the buffer and on a screen that wraps and scrolls; buffers owned across calls | the screen shows what Enter runs; no leak, files as commanded | `Readline` over `Terminal`; file commands on H: in `FsHeap`; network commands in `IpStack`, `Tcp` |
| Virtual terminals, `shell/tty.c` | screens, saved drive, directories, history, start-up commands | `tty.var`, switch | shell, keyboard | state spread over four owners, copied piece by piece; what was saved may be gone when it is restored | a user finds a terminal as he left it; start-up commands run once | `Tty`; deleted directories in `FsHeap` |
| Environment, `shell/env.c` | 32 variables, the file `A:.VAR/env.var` | set, unset, get, save, load | shell, drive A: | a full table; text format parsed back | what is saved is what is loaded | not modelled |
| Programs, `shell/programs.c` | the editor's array of lines, the hexadecimal editor's buffer, calculator | keys, load, save | shell, drives | lines split, joined and deleted by hand; a cursor one past the end | text as typed; the cursor in the file and on the screen | `Edit`, `TextLines`, `FlatText`, `Hexdump` |
| Desktop, `gui/balloon.c` | windows and their order, the programs' handles, menus, pointer, an editor, a terminal, an explorer | main loop, open, close, raise, drag, resize, keys | keyboard, mouse, drives, network | closing and raising move windows between slots while programs keep slot numbers; a second editor with its own rules | a handle means the window it meant; windows stay on the screen; text as typed | `Desktop`, `WinPlace`, `GuiEdit`, mouse poll in `Mouse` |
| Minesweeper, `gui/minesweeper.c` | board, counters | click, flag, new game | desktop | flood fill with a bounded stack, first click, counters | won exactly when only mines are left | `Minesweeper` |
| Boot loader, `boot/*` | | A20 cascade, kernel load | BIOS | retries | | not modelled |
| Text terminal, `shell/terminal.c` | cells, cursor | write, scroll, clear | shell, programs | cursor moved relative to where it is, across scrolling | in the shell's property | `Terminal` |
| Kernel entry, sound, video, buses, images, build scripts | | straight-line port and screen work | | | | not modelled |

### Hazards

`PROJECT.json` lists 40 hazards, each at its line with the properties that would
catch it, or the reason why none does. They are what the properties are for. The
largest groups: interrupts between two accesses (the key ring, the mouse's packet);
what a sector error or a power failure does to drive A:; addresses that outlive their
region on drive H:; frames handled in the middle of a send, answers that come late;
rings that a card and a driver use at once; long sequences of keys on text kept in
bounded arrays; handles to windows that move.

## 2. Modules and how they correspond to the code

**FirstFit, FirstFitScan.** `FirstFit` says what the allocation loops compute: the
lowest place where a run of free units is long enough. `FirstFitScan` is the loop
that `kmalloc` (`kmalloc.c:49-58`) and `sec_alloc` (`fs_disk.c:119-131`) share, one
iteration per step, with the C locals `i`, `start`, `count`.

**Heap, Kmalloc, KmallocCall.** `Heap` is the abstract promise of `kmalloc.h`: a set
of disjoint regions. `Kmalloc` is the implementation: `bitmap`, `mem` (the blocks,
one word each, headers among them), and the history variable `live`, which holds the
regions handed out. `KmallocFound`, `KmallocNull` and `Kfree` are the two functions,
`Store` is what a caller may do to its region. `KmallocCall` runs the loop of
`FirstFitScan` inside the call. Two refinements are checked and proved:
`KmallocCall` implements `Kmalloc`, which implements `Heap`.

**FsDisk.** Memory (`table`, `bitmap`, `cwd`) and disk (`dsuper`, `dtable`, `ddata`)
are separate variables. An operation changes memory in one step, as it does in the
code with no handler looking on, and leaves in `todo` the metadata sectors
`save_super` and `save_table` are going to write; `SaveSector` writes one of them,
from memory as it is then. `WriteData` writes one data sector. Each may fail:
a failed data sector takes the error path, a failed metadata sector is ignored, both
as in the code. `PowerLoss` forgets memory at any step, and boot reads sector by
sector, again with failures. A size is the number of sectors it takes; the contents
of a file are an opaque value, sector by sector.

**FsHeap.** The entries of `fs.c` and the file commands of the shell (`write`,
`append`, `copy`, `move`, `del`, `rename`, `mkdir`, `cd`, `format`), with the heap of
`Kmalloc` under them. Each `kmalloc`, `kfree` and byte stored is a step, so that a
command holds addresses over the steps in which the code does. Frees and stores are
unguarded (`Free`, `Put`): that no command frees or stores where it must
not is the property `CallersKeepContract`, a refinement of `Kmalloc!Spec`. Alt+Fn
exchanges `cwd` and `away`, as `tty_save_shell_state` and `tty_restore_shell_state` do.

**KeyQueue, KeyRing.** `KeyQueue` is the abstract promise: a bounded queue that drops
what comes when it is full. `KeyRing` has the ring, IRQ1 and IRQ0 as one step each,
and `keyboard_available`, `getchar`, `getchar_nonblock` access by access, the gap
between the test and the `hlt` included.

**Keyboard, Mouse, Timer, Devices.** `Keyboard` is the decoder of `keyboard_handler`
byte by byte, and the hardware it decodes: keys held down, typematic repeats,
`E0` prefixes, and the fake Shifts (`E0 2A`, `E0 AA`) a keyboard sends round the
extended keys. Twelve keycaps stand for the classes of keys the code tells apart.
`Mouse` is the initialisation with its acknowledgements, packets gathered over three
interrupts, and `mouse_moved`. `Timer` is the counter, `timer_sleep`, and the loops
`while (timer_get_ticks() - t0 < n)` that the network and the floppy use. The three
share no state. `Devices` is their sum: one of them is chosen at the start, so that
one run checks each through all it can do without paying for their product.

**Tcp.** The connection of `tcp.c` with the calls of wget and the browser, and the
whole of `tcp_handle` as the actions `Rst`, `SynAck`, `Exchange`, `LastAck`. The peer
sends the bytes 1 .. `NumBytes` in any cut, then a FIN; whatever it has sent may
arrive at any time and any number of times, or never, which is loss, repetition and
reordering at once. The history variable `hole` is set when the code acknowledges
data or a FIN it does not keep. `tcp_handle` sends from inside a poll; the ARP entry
it needs is there by then (its peer was reached to connect, and `arp.c` forgets
nothing), so that `ip_send` does not poll again and the handler is never re-entered.

**IpStack.** ARP, IP, ICMP, UDP and DNS under `arping`, `ping` and `resolve`. `job` is
the command under way and where it is; `sending` is an `ip_send` that began
(`IpSend`), may be waiting for ARP, and ends in `IpSent` or `IpFails`. `Poll` is one
frame that `net_poll` found: an ARP frame, an echo request, an echo reply or a DNS
answer to anything that was ever asked, which is again loss, repetition and delay. A
frame may arrive between the two halves of a send exactly when that send polls. An
echo request is answered later (`Flush`), from `pending_dst`, which the next request
overwrites, even while the reply to the first is waiting for its MAC.

**NicRx, NicTx, FrameQueue.** The receive ring and the transmit buffers of the four
drivers. Positions are descriptors (e1000, PCnet), units of a byte ring (RTL8139) or
pages (NE2000). The card acts at any time; the driver gives room back in two writes,
`Release` and `Return`, with the card between them. In `NicTx` a card in `Slow` may
outlast the driver's counted waits. Both are shown to implement `FrameQueue`: a queue
in order, that refuses a frame only when there is no room for it.

**Network** is the sum of `Tcp`, `IpStack`, `NicRx` and `NicTx`, each over an
abstraction of the layer below it: `layer` is the one that acts, chosen at the start.
They share no variable, so a product would show nothing that the sum does not.

**Terminal, Readline.** `Terminal` is the text screen as a row of cells with a
cursor, `base` counting what scrolled away. `Readline` is `readline`, `tab_complete`
and the history: each key changes the buffer and, by its own movements of the cursor,
the screen.

**Tty.** `tty.var` line by line, the start-up commands, and the switch with everything
`tty_switch` and `shell.c` save and restore: the shell's globals, the colours and the
cursor of `terminal.c`, the video memory and the card's cursor.

**Hexdump.** The hexadecimal editor's cursor and the first line on its screen, for
each key. **Edit, GuiEdit, FlatText, TextLines.** The two editors, of `programs.c` and
of `balloon.c`, keep a bounded array of bounded lines; `TextLines` holds what both
need, lines and how a text is cut into them. `FlatText` is what a user may expect: one
text and a place in it, each key inserting or removing at that place. Each editor is
shown to implement it through the mapping that joins the lines. **ShellPrograms** is
the sum of `Readline`, `Tty`, `Hexdump` and `Edit`.

**Desktop.** The slots of `windows[]` with what is in each, the programs' handles
(`win_id`), the context menu, and `balloon_run`'s chain of tests for mouse and keys:
opening, raising and closing move windows between slots, and the code moves the
handles it remembers to move. A nested desktop, started from the terminal inside, is
part of it. **WinPlace** is the place of one window under drag, both resizes,
minimize, maximize and restore. **Minesweeper** is the game, mines laid at the first
click, the flood fill with its bounded stack as a recursive operator.
**DesktopPrograms** is the sum of `Desktop`, `WinPlace`, `GuiEdit`, `Minesweeper`.

Modules named `MC...` only give values to constants that a `.cfg` cannot write.
Operators called `X_Something` beside an operator `X`, under the comment "a mistake
the properties have to catch", are plausible bugs: each property of each run has
one that breaks it, listed under `mutants`.

## 3. The runs

| run | states | what it shows |
|---|---|---|
| `kmalloc` (`KmallocCall`, `MCKmallocCall.cfg`) | 258,628 | the loop, bitmap and headers of the heap, and both refinements |
| `fsdisk_steady` (`MCFsDisk`, `MCFsDisk_steady.cfg`) | 461,997 | drive A: with power on and sector writes that fail |
| `fsdisk_crash` (`MCFsDisk_crash.cfg`) | 267,739 | power lost between any two sector writes, sectors unreadable at boot |
| `keyring` (`KeyRing`, `MCKeyRing.cfg`) | 3,817 | the ring is a queue, and every key is taken |
| `devices` (`MCDevices`, `MCDevices.cfg`) | 42,788 | decoder, mouse packets, waits |
| `ramdrive_heap` (`MCFsHeap`, `MCFsHeap_heap.cfg`) | 55,630 | addresses, regions and contents on drive H: |
| `ramdrive_tree` (`MCFsHeap_tree.cfg`) | 222,035 | nested directories, deletion, two terminals |
| `net` (`MCNetwork`, `MCNetwork.cfg`) | 710,332 | TCP, the stack below it, and both rings of the four cards |
| `shell` (`MCShellPrograms`, `MCShellPrograms.cfg`) | 493,612 | line editing, terminals, hexadecimal editor, editor |
| `desktop` (`MCDesktopPrograms`, `MCDesktopPrograms.cfg`) | 610,969 | windows and handles, a window's place, the desktop's editor, the mines |
| `fsdisk_wiped`, `gui_load` | (violations) | two disagreements between code and documentation, section 4 |

Properties, by run:

- `kmalloc`: `HeapInv` (the bitmap is exactly the union of the regions handed out and
  their headers; headers hold what `kmalloc` wrote; regions disjoint), `ScanInv`,
  `ImplementsKmalloc`, `ImplementsHeap` (null only when nothing fits is part of it).
- `fsdisk_steady`: `DriveInv` (no sector in two entries, none in use and free at
  once), `NoLostSectors` (every error path gives all sectors back), `WrittenIsRead`,
  `SuccessIsDurable` (after success without a failed write a reboot finds the same
  table and bitmap), `BystandersIntact` (no sector write touches a saved file the
  operation was not about).
- `fsdisk_crash`: `CreatingIsCrashSafe` (creation and rename leave a mountable disk
  after each sector; the order "superblock first" is needed for it),
  `BootPreservesFiles`, `BootIsSafe`.
- `keyring`: `RingInv`, `ImplementsKeyQueue`, `EveryKeyTaken` (liveness).
- `devices`: `NoStuckModifiers` (with no key down no modifier is set and no prefix
  pending), `SwitchIsMeant` (a terminal changes only for a function key pressed under
  Alt), `StaysInStep`, `TimeIsKept`, `WaitEnds` (liveness), and the type invariant.
- `ramdrive_heap`: `NoLeakNoDangling`, `FilesKeepText` (also for a file copied onto
  itself out of the region just freed), `CallersKeepContract`.
- `ramdrive_tree`: `TreeIntact`, which includes the type invariant of `FsHeap`.
- `net`: `StreamInOrder` (TCP: bytes in order and once, the end only at the end),
  `NumbersAreTrue` (no acknowledgement of what was not sent; the bytes sent do not
  overlap and the FIN comes after them), `NamesMeanTheirHosts` (no name gets another's
  address), `FramesFindTheirHost` (no frame gets another's MAC, whatever comes in
  during the send), `FramesComeInOrder` and `FramesGoInOrder` (both implement
  `FrameQueue`), and the type invariant.
- `shell`: `LineIsShown` (the screen shows what Enter will run, the cursor where the
  next character goes), `TerminalsAreKept`, `HexCursorInView`, `EditKeepsText` (the
  editor implements `FlatText`).
- `desktop`: `ProgramsKeepTheirWindows`, `WindowsStayOnScreen`, `GuiKeysEdit` (keys
  edit as in `FlatText`, the view follows), `MinesAreFair`.

### Bounds, and why they are enough

- **Heap**: 7 blocks of 2 bytes, sizes 0, 1, 2, 3, 5. Requests of 0, 1, 2 and 3 data
  blocks, exact and inexact multiples, holes that fit, nearly fit and do not fit, a
  full heap. What is left to larger heaps is proved, not bounded.
- **Drive A:**: 3 entries, 1 or 2 to a sector (so the table covers several sectors),
  2 or 3 data sectors, files of one and two sectors: two files fill the disk,
  overwriting grows and shrinks, fragmentation refuses a file that would fit in pieces.
  `MaxFaults` = 2 failed accesses or power losses in a behaviour: a failure during the
  recovery from a failure. Three entries leave no directory with a grandchild: that no
  sector is lost where there are some is proved only (`NoSectorIsLost`).
- **Key ring**: 4 cells and 2 keys: empty, full, overfull and wrapped.
- **Devices**: up to 3 keys down (`MaxDown`), both of each modifier pair, an extended
  and a keypad key; 6 mouse bytes waiting (`MaxBytes`), two packets; a counter of 16
  values (`Wrap`) with waits of 0, 1 and 5 from every start, so that all wrap cases
  occur; at most 2 interrupts (`MaxLate`) between two steps of the program.
- **Drive H:**: `ramdrive_heap` has 11 one-byte blocks, two files, texts of one and
  four bytes, appends up to `MaxText` = 3: enough for both files, for a copy into
  the hole its source left, and for a heap that is full at each `kmalloc`.
  `ramdrive_tree` has 4 entries: the root, and three levels of one directory name or
  files in them. Names of files and directories are kept apart. It carries the
  CONSTRAINT `NotStale`: it does not follow a terminal into a directory that is gone.
- **TCP**: numbers modulo 16, starting at 14, so that both the peer's numbers and their
  comparison wrap; 4 bytes, a receive buffer of 3 (it fills), reads of 2, two sends
  (`MaxSends`). The CONSTRAINT `NotHoled` ends a behaviour once the code has
  acknowledged something it did not keep: the properties speak only of what is before,
  and a hole can no longer be closed, since it is acknowledged.
- **Network below TCP**: gateway, name server and one more host on the subnet and one
  beyond it, an ARP table of 2 (it fills, and sends fail), a DNS cache of 2 (it
  overwrites), two echo requests to a ping, two queries (`MaxQueries`) out of
  three ids (`IdMod`, 65,536 in the code), two of three names equal where the cache cuts them: an answer can be late for another ping, query
  or name.
- **Cards**: rings of 4 positions, frames of 1 to 3 units (they wrap in every way), two
  transmit buffers and three frames. e1000 and PCnet cards may be slow (`Slow`).
- **Shell**: a screen of 2 columns and 4 rows, a prompt of one cell and lines of up to 4
  characters: every line wraps, most scroll the screen. One line of history
  (`HistMax`). Three terminals, two values of everything a terminal has, a `tty.var` of
  two lines (`MaxScript`). Files of 0, 5 and 10 bytes in lines of 3, two lines to the
  screen, `HxMaxSize` 14. Editor texts of up to 3 lines of 2 characters, with files that fit
  and one with no final newline.
- **Desktop**: three windows (`MaxWindows`) of five kinds, the browser among them, beside
  the panel that the menu opens: every slot can be closed with others before and behind
  it and the last opening fails. A screen of 4 by 4 with
  windows of 2 by 2 at the least, so every edge is met. A board of 3 by 4 with one mine, on
  which the stack of the flood fill gets full, and one flag (`MsMaxFlags`). Texts of up
  to 3 lines of 2 characters, one or two lines in view (`GuiViews`: the window is
  resized) and no more than 3 characters (`GuiMaxText`), so that joins are refused because
  the line is full; a file with carriage returns and a newline.

Names, texts and hosts are few because the code only compares them.

Four runs are of sums (the modules `Devices`, `Network`, `ShellPrograms`,
`DesktopPrograms`): parts that share no variable, of which one is chosen at the start and
acts alone. A property of one part cannot tell such a behaviour from one in which the
others act too. Deadlock is not checked where an activity really ends: a connection is
closed, a shell's editor left, a game over, `balloon_run` returned from.

### Fairness

Safety needs none. `KeyRing!FairSpec` assumes weak fairness of the program
(the one thread runs whenever no handler does, and the shell and the desktop keep
asking for keys) and of `TimerIrq` (the PIT interrupts a thousand times a second; no
code masks IRQ0). No fairness is assumed of the keyboard: nobody needs to type. With
it `EveryKeyTaken` shows that a key that arrives between the test of `getchar` and its
`hlt` waits for a timer tick at most. `Devices!FairSpec` assumes the same two for
the timer. The network states no liveness: with no retransmission in the code, one lost
segment ends in a timeout, and there is nothing to promise.

## 4. Where code and documentation disagree

Two are shown by runs:

1. **A read error at boot empties drive A:** (`fsdisk_wiped`). `fsd_init` takes a
   superblock it cannot read for an unformatted disk and saves an empty table over the
   files (`fs/fs_disk.c:211`). `README.md:87`: "(disco, persistente)".
2. **A file opened in the desktop's editor loses its lines** (`gui_load`). At a newline
   the loader writes the end of the string at the start of the line it has just filled;
   the comment there says the line is "already terminated" (`gui/balloon.c:1309`).

Others are in the models, or were met beside them, and are shown by no run:

- **A mouse movement is forgotten.** `mouse_moved` reads `mdirty` and then clears it
  with interrupts on (`mouse.c:98`); a packet completed in between is not drawn until
  the mouse moves again. `mouse.h:17`: "retorna 1 se posição mudou".
- **Removing a directory on A: leaves what is deeper** (`fs/fs_disk.c:405`);
  grandchildren keep their sectors and show up in whatever directory takes the freed
  slot. `README.md:222`: "remove arquivo ou diretório". Drive H: does recurse.
- **A terminal returns to a deleted directory.** The index saved by one terminal is
  handed to `fs_set_cwd` unexamined (`shell/shell.c:1409`). `fs.h:22`: parent is "índice
  do diretório pai".
- **A switch does not move `terminal.c`'s cursor** (`shell/tty.c:207`): the card's cursor
  is restored, the place of the next output is not. `tty.h:39`: "Salva estado atual,
  restaura N".
- **The mines' handle is never cleared** (`gui/balloon.c:2044` clears the others); and
  `balloon` typed in the desktop's own terminal leaves the browser's, the editor's and
  the mines' (`:2014`). `balloon.h:10`: "Handle de janela (retornado por balloon_open)".
- **Closing the last window does not return to the shell**, as `balloon.h:25` has it.
- **The flood fill may stop early**: a cell is pushed once for each blank neighbour, so
  the stack of one place per cell can be full, and what does not fit stays closed
  (`gui/minesweeper.c:96`, against the comment at `:76`).
- **Nobody is asked about unsaved text** when the desktop's editor is closed by Ctrl+Q or
  its box (`gui/balloon.c:1371`). `README.md:112`: "Prompt de salvamento ao fechar arquivo
  não salvo". Its terminal has no Insert, no Ctrl with arrows and no completion
  (`gui/balloon.c:726-797`), which `README.md:105` lists.
- **The explorer opens and deletes by name in the shell's directory** and drive, not in
  the one it lists (`gui/balloon.c:1512`).
- **The menu's item "Sobre o Balloon"** (`gui/balloon.c:1882`) opens the network panel:
  it is given the number 2 (`gui/balloon.c:2333`), "Sobre" has 6 (`gui/balloon.c:249`).
- **A late echo reply is taken for the reply to a later ping** (`net/icmp.c:80`): every
  ping has the same id and numbers its requests from 0.
- **A full transmit ring of e1000 stalls** when TDT meets TDH (`drivers/net/e1000/e1000.c:268`):
  to the card an empty ring.
- **The hexadecimal editor's test for room never holds** (`shell/programs.c:388`), and it
  takes a file to end at its first zero byte (`:359`).

## 5. The proofs

TLAPS checks these for every number of blocks, sectors, entries, cells, hosts, names,
bytes, windows and pixels; the assumptions are the named ASSUMEs of the modules (sizes
are natural numbers and not zero where the code would divide by or index with them; the
null name is no file's name and no directory's (`fs_valid` refuses the empty name); on
drive H: a text holds no zero byte, and with the zero that ends it is of a size `Kmalloc`
is asked for; the gateway and the name server are on the subnet; a name
cut to 63 characters is a name and cut no further; a frame fits in the receive ring; the
screen of the hexadecimal editor
has at least two lines; the longest line the shell reads, 255 characters, fits into all
rows of the text screen but one, 24 of 80, and completion knows finitely many
files; fewer queries are sent than there are ids, 65,536; the
smallest window fits on the screen; the counter of ticks
does not come round within a wait). Some theorems have a hypothesis of their own, in
their statement, explained below: `NamesApart`, `IndicesFit`, `FewBytes` and `Patient`.

| module | theorems |
|---|---|
| `KmallocProofs` | `ScanCorrect`: `ScanSpec => []ScanInv`. `ScanFindsFirstFit`, `ScanFailsOnlyWhenFull`: the loop returns the lowest place that fits, and fails only when there is none. `HeapInvariant`: `Spec => []HeapInv`. `BitmapStaysExact`, `HeadersStayIntact`: its parts that matter to callers. `KmallocImplementsHeap`. `CallInvariant`: `CallSpec => []CallInv`. `CallImplementsKmalloc`, and with it `CallImplementsHeap`. |
| `FsDiskProofs` | With power on: `DriveInvariant`, `SectorsStaySafe`, `BystandersStayIntact`; `NoSectorIsLost`, `WhatIsWrittenIsRead` (under `NamesApart`), `SuccessStaysDurable`. With power lost at any step: `CrashInvariant`, `CreatingStaysCrashSafe`, `BootStaysSafe`, `BootsPreserveFiles`. |
| `FsHeapProofs` | `RamInvariant`: `RamSpec => []RamInv`. `CallersKeepTheContract`: `RamSpec => Spec` of `Kmalloc`. `FilesReadAsWritten`; `NothingLeaks` (under `NamesApart`); `TreeStaysIntact` (under `[]IndicesFit`). It takes the lemmas about the heap from `KmallocProofs`. |
| `KeyRingProofs` | `RingInvariant`: `Spec => []RingInv`. `ReadStaysOldest`. `RingImplementsKeyQueue`. |
| `DevicesProofs` | `KbdInvariant`, `NoModifierSticks`, `SwitchesAreMeant`; `MouseStaysInStep`; `TimeStaysKept`; `DevicesTyped`. |
| `NetworkProofs` | `NamesAreNotMixedUp`, `FramesAreWellAddressed`; `StreamStaysInOrder`, `NumbersStayTrue` (under `FewBytes`); `NetworkTyped`; `FramesArriveInOrder`, `FramesLeaveInOrder` (under `Patient`): the rings implement `FrameQueue`. |
| `ShellProofs` | `LineStaysShown`: `ReadlineSpec => []LineIsShown`. `TerminalsStayKept`: `TtySpec => []TerminalsAreKept`. `CursorStaysInView`: `HexSpec => []HexCursorInView`. `ScreenIsTrue`: all three of `ShellSpec`. |
| `DesktopProofs` | `WindowsAreKept`: `DeskSpec => []ProgramsKeepTheirWindows`. `PlaceTypeIsKept`. `WindowsStay`: `PlaceSpec => WindowsStayOnScreen`. |

How the arguments go:

- **The loop.** That what is found is a first fit is not inductive. `ScanInv` says what
  the loop has established at `i`: the run of `count` free units that ends at `i` is
  maximal to the left, and no run of the wanted length ends before `i`. A used unit at `i`
  rules out every place that covers it; the last free unit makes the run long enough, at
  the lowest place.
- **The heap.** That `kfree` frees nothing of others needs the header to be right, which
  needs that no caller's store can reach a header, which needs regions disjoint, which
  needs the bitmap to be exact, which needs `kfree` to be right. `HeapInv` is their
  conjunction, proved one action and one conjunct at a time. The refinement of `Heap`
  follows: a first fit in the bitmap is a place that overlaps no region, and where the
  bitmap has none, no gap holds the request and its header.
- **The call.** `CallInv` adds `Linked`: while the loop runs the bitmap is the one it
  started with and `request` is what the argument takes. The steps of the loop stutter;
  the step that returns is `KmallocFound` or `KmallocNull` by `ScanInv`.
- **Drive A:, power on.** `SectorsSafe` is not inductive: a write in progress owns sectors
  no entry names (`Pending`), the entry it is for owns none yet, and the save that follows
  must have sectors left. `StepsReady` says so, with the fact that the disk carries no
  magic until the first save (`Init` is the image the build makes). `BystandersStayIntact`
  follows: a data sector being written is in `Pending`, so no saved entry has it; a
  metadata sector is written from a table that agrees with the disk on that entry.
  `NoLostSectors` and `WrittenIsRead` need `WriteInv` beside it: directories own no
  sectors (`DirsOwnNothing`), the sectors written so far hold what was given
  (`WriteOnCourse`). That needs `NamesApart`, that no name is used for files and for
  directories: `fsd_write_in` does not look at the type of what it finds
  (`fs_disk.c:308`) and stores a file in a directory's entry, whose sectors `rmdir` then
  forgets. With such a name TLC refutes both properties. `SuccessIsDurable` needs no
  such thing: `SavesOnCourse` says that an entry on the disk is the one in memory unless
  its sector is still to be saved.
- **Drive A:, power lost.** None of `DriveInv` survives a boot that cannot read some of
  the table: entries of the disk are then missing in memory while their sectors stay
  marked. `CrashInv` says what does: memory claims no more than the disk
  (`IdleWithinDisk`), the superblock is saved first or was saved before
  (`SavesInOrder`), and until it is, a new entry takes no sector of what its slot holds
  on the disk (`NewEntryWithinDisk`). With these, each single sector of a creation takes
  a safe disk to a safe disk.
- **Drive H:, addresses.** A command holds addresses over many steps, and what they are good
  for changes under it: `fs_write_in` frees the region `copy` reads from before it
  allocates the one it writes to. `RamInv` says, place by place, what the command holds.
  At `open`, what is to be written is in append's buffer or is an entry's text. At
  `alloc` it still stands where it stood, in a region or where one was given back
  (`Gap`). At `bytes`, what is not yet copied stands there still (`Ahead`), because the copy
  is written elsewhere or from a place no higher on: first fit finds the gap again or
  something below it (`NotBehind`), and a loop that runs up does not overtake what it
  reads. The contract follows since every region freed or stored into is one of
  `HeapInv`'s, by the lemmas of the heap; `FilesKeepText` because a reader finds the
  first zero, and texts have none (`HoldsReads`).
- **Drive H:, owners.** `OwnersInv`: what is in use is what an entry points to, append's
  buffer or the region being written, and only files point to something. The last needs
  `NamesApart`: `fs_write_in` takes what it finds by name for a file (`fs.c:186`), and
  the region of a directory is never given back. With such a name TLC refutes
  `NoLeakNoDangling`.
- **Drive H:, the tree.** `TreeInv` says where `fs_delete_recursive` is: each directory of
  `path` lies in the one before (`Chain`), and an entry that goes has nothing in it,
  so none of `path` goes, nor the directory the shell is in. With an entry in use whose
  index does not fit in a `uint8_t`, `Low` leads elsewhere and the claim is lost; the code has
  512 entries and 256 indices (`fs.c:7`). `IndicesFit` excludes that, at every step;
  without it, with fewer indices than entries, TLC refutes `TreeIntact`.
- **The ring.** While the reader is between its test and its advance the ring is not
  empty and the cell it reads stays as it is, since the handler fills only the cell at
  `head` and never when that would make head meet tail. `Queue`, the refinement mapping,
  is the cells from tail to head; a put appends, an advance takes the head, all else
  stutters.
- **The decoder.** What the handler holds of a modifier is what the keyboard has, after
  the bytes still on their way: `KbdInv` says of every modifier that it is set only while
  a key of its kind is down or its release waits in `wire`, and that a press waits there
  only while its key is down (`Reported`): at most one event is on its way when the next
  begins. A prefix is never the last byte, so it outlives no event.
- **The mouse.** `InStep` adds up what the handler has and what waits: whole packets,
  each byte in its role, and a position that is right once all are taken. A byte moves
  from one to the other; a packet completed applies the movement that `Led` had counted.
- **The waits.** `TimerInv` bounds the time that has passed by place in the loop: less
  than the wait at a test that failed, and one poll and one test more where it succeeds.
  The difference of two counts is the time between them, however the counter wrapped,
  because no wait is as long as the counter.
- **Windows and handles.** `Kept` is about a record, so that one lemma for each function
  of the code (raise, open, close, the nested desktop) says that it takes a desktop with
  good handles to one. Windows fill the slots from the first, which is what makes the
  last slot the one that closing moves.
- **A window's place.** For each kind of drag one lemma says that the clamped place fits
  whatever the pointer did, because what is clamped last is the edge that could leave.
- **Names and frames.** `AnswersFit`: query numbers only grow, so an answer with the
  number `dns_rx` waits for was asked for the name it waits for; what is cached, and what
  the command goes on with, follows. `ArpIsTrue`: the table holds only what its owners
  said. `WayIsRight`: the choice between host and gateway, made when `ip_send` began,
  still fits its destination when it sends, for nothing that arrives changes the
  destination but an echo request under a pending reply, which the property names.
- **TCP.** `StreamHolds`: what was read and what is in the buffer are the bytes 1 to n,
  and `rcv` is the number of byte n + 1, or one more after the FIN. A segment is taken only if
  its first byte has that number. Numbers are modulo 2^32 and the network may repeat
  what is arbitrarily old, so it *is* byte n + 1 only if no two bytes the peer has sent
  have one number: `FewBytes`, fewer than 2^32 bytes in each direction. Real networks
  forget segments after minutes; nothing in the code relies on more. What is acknowledged
  is `rcv`, so it has been sent. Our own bytes lie one after the other below `snd`
  (`OurNumbers`). A behaviour of `Network` is one of each layer (`LayersStandAlone`).
- **Receiving.** `RxInv` places every frame that is stored and not given back: one behind
  the other from `Oldest` on, which is where the driver reads, or, while it is between the
  two halves of giving back, what the register still says. The sums of sizes (`Sums`,
  `Upto`) say where each begins and what the ring has left, and `RoomIsTrue` that the four
  tests for room, on flags or on differences of positions, are all that one test. A
  frame stored never falls on another's header because what is used ends before it; a
  descriptor counts as empty only when it is given back, PCnet's not between its two
  writes.
- **Sending.** `TxInv` is the same of the buffers: what is handed over and not on the wire
  lies from the card's next one on (`Ahead`), the driver's next one is behind it, and the
  card is done with the others. A driver that waits for a free buffer gives up exactly
  when all are handed over (`TxFreeMeans`). RTL8139 and NE2000 do not look whether a
  buffer is free before they fill it, so for them the wait afterwards must not end early:
  `Patient`. `rtl8139_send` waits for ever (`rtl8139.c:84`); the count of the NE2000's
  driver may run out (`ne2000.c:150`), and with such a card TLC refutes the property.
- **The line on its screen.** `ReadInv` says that the line stands on the screen from
  `base` on, the screen's cursor as far behind `base` as the shell's is in the line, and
  that blank follows when nothing lay there at first. Keys move only relative to where
  the screen's cursor is, so everything hangs on what writing does: `WriteIs` says that a
  text of n characters puts its characters behind each other, moves the cursor n on and
  everything up by d, with d > 0 only when the cursor ends in the last row. Therefore the
  line's beginning never leaves the screen: scrolled, the screen holds `LastRow`
  characters above the cursor's row, and no line is longer (`WriteNumbers`). A key that
  shortens the line overwrites its last character with a space (`RedrawShows`); Up and
  Down blank the whole line before they write another (`EraseShows`). What lies behind
  the cursor when a list of names scrolls the screen moves with it (`WriteBehind`).
- **Terminals.** `TtyInv` adds types and that `kept` holds nothing but what is saved.
  The line read from `tty.var` only ever goes to a terminal, whatever it says, which is
  the invariant of a fold (`ParseTyped`). What is restored is what was saved
  (`SavedRestored`), since the switch copies every piece both ways.
- **The cursor in view.** Down may go to the last byte from behind it and never scrolls
  up, so the invariant adds that the first line on the screen is not below the last byte's.
  That needs a screen of two lines: with one it is false. The lemmas are about division:
  it is monotone and grows by at most one from a byte to the next.

Induction over data is replaced, where it is needed, by a least counterexample
(`LeastNat`: a set of naturals that is not empty has a least element; `Stepwise`: a set
with 0 and every successor up to N has all numbers up to N, which is how sums over a
queue, the writing of a text and the reading of `tty.var`, all of them folds, are
reasoned about: the fold's intermediate results are a function with a first value and a
step, and the set is that of the places up to which what is claimed holds).

Only model-checked:

- liveness (`EveryKeyTaken`, `WaitEnds`): fairness and ENABLED are outside the prover's
  reach;
- the mines (`MinesAreFair`), whose flood fill is a RECURSIVE operator;
- the editors against `FlatText` (`EditKeepsText`, `GuiKeysEdit`): the mapping joins and
  cuts a text by folds, and that cutting undoes joining has to be proved first.

## 6. Limits

What the models leave out, or what the claims do not cover:

- **Heap.** One word stands for a block. `size + BLOCK_SIZE - 1` does not wrap; no
  caller passes a size near 2^32.
- **Drive A:.** `CreatingIsCrashSafe` does not extend to deletion, overwriting and
  format: power lost between their saves leaves a table whose sectors the bitmap calls
  free, and the next write may share them. The model has this; the claims on steady
  operation exclude crashes. A file and a directory of one name are left out of the runs and
  of three theorems, one of them about drive H: (`NamesApart`): the code takes the directory for the file
  (`fs_disk.c:308`). Validation of names and
  printing of paths are abstracted. Case is abstracted (`strcmpi`).
- **Drive H:.** A block holds one byte and the heap starts zeroed, so that a text's
  final zero is a block like any other. The name of a freed entry is forgotten: nobody
  reads it. Indices are cut to `uint8_t` by `Low`, but the runs stay below the cut: at
  256 entries the code goes wrong, which `hazards` records. The old text is lost when
  `kmalloc` fails half way through a write: that is what the code does, and
  `FilesKeepText` then expects an empty file. The commands on A: are in `FsDisk` only.
- **Mouse.** One axis stands for both, buttons are left out. `StaysInStep` speaks from
  a moment on when driver and mouse are in step; they need not be at the start, since an
  acknowledgement (0xFA) passes for a first byte. Overflow and sign bits are not modelled.
- **Timer.** `TimeIsKept` claims nothing of a `timer_sleep` whose end wraps: the code
  returns at once there, every 49 days.
- **TCP.** Checksums, ports, addresses and the window are abstracted; segments come from
  the one peer. Timeouts may happen whenever the caller waits.
- **Network below TCP.** A host is its address and its MAC, and ARP tells the truth.
  UDP carries only the resolver. The query's number is cut to 16 bits (`IdMod`), but fewer
  queries are sent than there are numbers: after 65,536 of them an answer to the first would
  pass for the last one's. The two-second wait is not counted: it may end whenever the
  code looks at the clock.
- **Cards.** A card never unplugs and never stores half a frame; the CPU's and the card's
  view of memory agree in order. `FramesGoInOrder` leaves out a slow NE2000, whose driver
  takes the end of an earlier transmission for the end of this one. The in-poll guard of
  RTL8139 is always open, since polls do not re-enter.
- **Shell.** `LineIsShown` speaks of the editing of a line, not of what commands print
  between two. The files that completion knows are given, not read from the drive; case is
  abstracted, and of the matches all are shown where the code shows the first 16.
  Script files are left out.
- **Editors.** Files with as many newlines as the array has lines are left out
  (`EditAssumption`): `ed_load` writes behind its array. At the last line of the desktop's
  array Enter loses a line (`GuiKeysEdit` says "unless").
- **Desktop.** Where windows overlap is left open: a click may find any of them. One
  window's place is followed at a time.

### Not modelled

- Straight-line port I/O and drawing (kernel entry, sound, video, buses, images, build
  scripts, boot loader): no state that several steps share.
- Storage drivers: `FsDisk` has accesses that succeed or fail, which is what their loops
  and retries come to for a caller.
- The environment: one array and one file, read and written whole; what could go wrong
  in it is the parsing of its text.
- Of the desktop, the graphical terminal's line, the explorer's list, the browser's
  rendering; of the shell, scripts, the calculator and commands that print.
- `drivers/input/input.c` is a stub.

## 7. Plan

Done: heap, drives, interrupts, the network from TCP to the cards, what a user has in
hand in shell and desktop; the proofs of section 5.

What remains, in order of worth:

1. `EditKeepsText` as a theorem: cutting a text into lines undoes joining them.
2. The graphical terminal's line, which is `Readline` once more with a scrolled buffer;
   the explorer's list against the directory it came from.
3. The retries of the floppy, the environment's file, the boot loader's load loop.
