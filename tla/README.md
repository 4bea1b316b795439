# Onken OS in TLA+

Onken OS is a small x86-64 system in freestanding C: one address space, one
thread of control (the *mainline*: `kernel_main`, then the desktop loop
`shell_loop`), and three interrupt handlers (timer, keyboard, mouse) that cut
in between any two instructions of it. What is hard in it to get right, and
harder to test, is what the mainline shares with the handlers and with the
hardware, and what the desktop's many small handlers leave behind for each
other over a long session. This directory holds TLA+ models of those parts, the
TLC runs that check them on small instances, and TLAPS proofs for every
instance.

    tlc -config MCSound.cfg MCSound      model-check one run
    tlapm SoundProofs.tla                check one module's proofs

`PROJECT.json` lists the runs, the source lines behind every definition, the
hazards, the findings and the theorems.

## 1. Inventory

| part | state | operations | met by |
|---|---|---|---|
| sound driver, `drivers/sound.c` | ring of notes, head, tail, playing flag, end of the note, speaker port | `sound_enqueue`, `sound_stop` (mainline), `sound_tick` (timer) | player window, timer |
| window manager, `gui/window.c` | array of windows in z-order, count, active pointer, drag index | add, focus, cycle, mouse pass | desktop loop, every application |
| scheduler, `kernel/scheduler/scheduler.c` | linked list of tasks, current task, tick counters | `task_create`, `task_destroy`, `task_get_count`, `scheduler_tick` | launches, terminal, htop, timer |
| timer, `kernel/time/pit.c` | `kernel_ticks`, `idle_ticks` | `irq0_handler`, `sleep`, `uptime_ms` | everything that waits or shows a time |
| desktop loop, `shell/shell.c` | icons, menus, last buttons, redraw flag | one pass every 5 ms | everything above and below |
| framebuffer, `gui/fb.c` | four pixel buffers, cursor backup | wallpaper, drawing, cursor, swap | desktop loop |
| PS/2 driver, `drivers/ps2.c` | packet counter, wheel flag, modifier flags, last key, pointer | `ps2_init` (polling), IRQ 1 and IRQ 12 handlers, `ps2_get_last_key` | desktop loop, controller |
| terminal, `apps/terminal/terminal.c` | input line, output history, scroll offset, directory | keys, completion, commands, redraw | RAM disk, scheduler, launches, string library |
| RAM disk, `kernel/fs.c` | 64 slots: name, used, size, data | create, open, write, read, remove, by index | terminal, yano, explorer, image viewer |
| yano, `apps/yano/yano.c` | one text buffer, one file name | launch, keys, save, exit | desktop loop, RAM disk, window manager |
| File Explorer, `apps/files/files.c` + `shell/shell.c` | none of its own | draw the list, click a row | RAM disk, yano, image viewer |
| application registry, `kernel/tasking/app.c` | table of 16 applications | register, find by name, find by title | desktop loop, terminal |
| memory, `kernel/mm.c` | bump pointer, counters | `mm_init`, `kmalloc`, `krealloc`, `palloc` | tasks, buffers, image decoder |
| string library, `kernel/string.c` | the static pointer of `strtok` | comparisons, copies, `strtok`, `xsprintf` | everything that prints or parses |
| real-time clock, `drivers/rtc.c` | none | `rtc_get_datetime` | taskbar, terminal |
| PCI, `drivers/pci.c` | none | `pci_enumerate_devices` | terminal |
| htop, System Info | none | several reads of counters | timer, scheduler |
| interrupts, `kernel/interrupts/` | IDT, masks | `idt_init`, stubs | all handlers |
| CPUID, settings, browser, image viewer | little or none | drawing | desktop loop |

How they interact. All applications run inside the desktop loop, so their
handlers never overlap: a call is one step unless it shares memory with an
interrupt handler. The handlers run with interrupts disabled (interrupt gates),
so a handler is one step too. What does interleave is a handler, or a device,
with the single loads, stores and port accesses of the mainline: the note ring,
the task list and tick counters, `last_key`, the buttons, the wheel, the pointer
and the modifier keys, the PS/2 port and the registers of the clock. `idt_init`
enables interrupts *before* `scheduler_init` and `ps2_init` run, so start-up is
exposed as well.

What correctness means, part by part:

- the ring is a bounded FIFO of whole notes, the speaker plays the note that is
  being voiced, and every waiting note is reached;
- no window is lost when the array is reordered in place, the active pointer,
  the flags and the drag index stay consistent, closed windows get no focus;
- the task list is at any moment the live tasks in order, and calls return;
- a press of the button is at most one click, and the menus on the screen are
  those a click is tested against; a drag ends with the release;
- the screen shows the composed desktop with one whole cursor where the pointer
  is, and no trail of an earlier one;
- every byte in the PS/2 port has a reader, modifiers follow their keys,
  packets are framed correctly; a key is handled once and in order;
- the terminal's input is a string, its history the newest lines in order, what
  is drawn a window of it; a command gets the words of its own line;
- the disk is a store: an operation on one name changes that name only, and a
  saved text is found again; texts stay inside the buffers that are kept, and what
  is written behind a smaller one on the stack hits nothing that is still used;
- blocks of the heap are disjoint, aligned and counted, and keep their contents;
- what is read from a clock or counter that goes on was true at some moment, or
  is off by a known amount;
- a formatted line is what C would print; the list of devices is the machine's;
  a window's title leads back to its application.

## 2. Modules and their correspondence to the code

Variables carry the C names. History variables, which no operation reads, are
marked as such where they are declared.

`Sound` (runs in `MCSound`, proofs in `SoundProofs`, abstract specification
`NoteFifo`). `note_ms_left` stands for `current_note_end_ms - uptime_ms()`. A
call of `sound_enqueue` is one step for the test and one for each of its three
stores, `sound_stop` is two steps, the port write and the flag. The three
alternatives of `sound_tick` are the actions `TickExpire`, `TickHold` and
`TickStart`. The fields are neither volatile nor ordered, so the order of the
stores is the constant `StoreOrders`: `SourceOrder` is the C text, `BuildOrder`
the order in `drivers/sound.o`, the object file in the repository.

`WindowManager` (runs in `MCWindowManager`, proofs in `WindowManagerProofs`).
Coordinates are abstracted: a pass of `wm_handle_mouse` is given, for each
window, the zone the pointer is in (outside, close, depth, minimize, title,
body); every combination is tried, since windows can overlap in any way.
`window_t`'s `closed`, `minimized` and `active` are kept; `id` is a history
field that identifies a window while the array is reordered. `button`
distinguishes the pass that first sees the button down, which also runs the
desktop's own click code, from those that see it held.

`Desktop` (runs in `MCDesktop`, proofs in `DesktopProofs`). One pass of
`shell_loop` is cut where it reads the left button again: `keys`, `track`,
`icons`, `icon_edge`, `wm`, `click`, `right`, `dispatch`, `draw`, `save`, with
mouse packets and modifier keys between any two of them. The button is not
volatile; in `shell/shell.o` the two uses in the test of line 373 are one load,
so they are one step. What the pointer is over is chosen anew by every step,
since it moves meanwhile. Of the windows the module keeps whether an open one is
active and whether one is dragged; `wm_handle_mouse` may change these as
`WindowManager` says in detail. The start menu's shutdown entry is a click that
launches nothing.

`Scheduler` (runs in `MCMainline`, proofs in `MainlineProofs`). A task is named
by its pid, since the heap never reuses memory; 0 is the null pointer. Every
iteration of a list walk is a step, as are the loop test of `sleep` and its
`hlt`; `irq0_handler` may run between any two of them. `task_destroy` is
reachable from applications through `sys_destroy_task` with any pid; the only
caller today, the terminal's `exit`, passes 43, a pid that may or may not be on
the list. `DestroyPids` therefore has pids that are the head, inner and last
tasks and one that is not on the list.

`Compositor` (in `MCDesktop`, proofs in `DesktopProofs`). The four buffers lie in one memory, as
`fb_alloc_buffers` takes them from the heap: their size is computed from the
width, their addresses from the line length `Stride`. A redraw composes any of
the pictures `Scenes` over the wallpaper, commits it to the desktop buffer,
draws the cursor and swaps; without redraw only a moved cursor is erased and
drawn anew. The two coordinates are loaded one by one, as in `shell/shell.o`,
while the mouse's handler writes both. A colour is a model value; `Clear` is a
pixel the picture leaves to the wallpaper.

`Vfs` and `FileApps` (runs in `MCFileApps`, proofs in `FileAppsProofs`,
abstract specification `NameStore`). `Vfs` gives the operations of the RAM disk
as what they return and leave in the array. `FileApps` composes them into the
terminal's commands, the editor's handlers and the explorer's click, each one
whole handler. `Trunc` is the name as the 32-byte field keeps it. The editor
has one buffer for all its windows, as in the code.

`Ps2` (runs in `MCPs2`, proofs in `Ps2Proofs`). The controller, the keyboard,
the mouse and the latched interrupt requests are external and modelled from how
the driver uses them. The `Script` is `ps2_init` port by port. A keyboard byte
is the prefix E0 or a key and its direction, of a mouse byte the model keeps bit
3 and its place in the packet. `clean` is a history variable: no keyboard byte
went to a reader other than `handle_kbd`.

`Terminal` (runs in `MCTerminal`, proofs in `TerminalProofs`). A key is one
step, except that what a command prints, and the list of completions, are any
number of lines, one step each. `terminal_draw` is three steps, the test and
addition of the wheel's movement, its reset, and the drawing of the lines, with
mouse packets in between. The texts of lines are model values. Enter and a list of
completions echo the line through `full_cmd`, 128 bytes on the stack that prompt,
directory and line can exceed; the module keeps the length of the directory
(`dir_len`), computes the bytes written (`Echo`) and stops in `pc = "overrun"` if
they reach `EchoRoom`. C leaves a longer write undefined; what it hits in this
build was read from `apps/terminal/terminal.o`. The frame of
`terminal_handle_key` has `full_cmd` of Enter at `rsp+0x68` and that of the
completions at `rsp+0xe8`, then arrays that are filled only after the echo, then
at `rsp+0x200` the list of matches, which is used after it: 280 bytes.

`CString`, `CommandLine`, `FileCommands` (in `MCTerminal`, proofs in
`TerminalProofs`). `CString` gives the
functions of `kernel/string.c` by what they return and leave in memory.
`CommandLine` takes any short line apart as `exec_command` does, with the one
static pointer of `strtok` carried over from line to line, copies arguments into
the two fields `current_dir` and `current_filename`, and puts messages together
from them. The commands stand for what they do with their arguments: a launch, of
`yano` or another (without arguments `yano` stores `new.txt`; the image viewer
copies its argument into a name of its own with the same lines, which is left
out), `touch`, `rm`, one word of which nothing is kept (`cat`, `hexdump`, `wc`,
`stat`), `cd`, `echo`, `write`, `cp`, no word, and an unknown command. A message is
known by the bytes `xsprintf` writes and the size of its array (`said`): the arrays
`msg[64]` and `msg[128]` share one place of the frame, `rsp+0x200` in
`terminal.o`, and the next thing that is used again, the saved registers, is at
`rsp+0x348`, `MsgRoom` = 328 bytes on; `pc = "overrun"` if a message gets there.
`rm` prints its name only if a file has it, so only if it is shorter than a file's
name field. `FileCommands` runs `cat` and `wc` over any short file, one step
per byte, with the limits 2048 and 120 scaled down.

`Heap` (runs in `MCKernel`, proofs in `KernelProofs`). Memory is cells, a block is
what a call returned. Owners fill their blocks with values that tell the cells
apart; `krealloc` copies `new_size` cells whatever the old size was. `mm_init`
chooses the largest usable segment of the memory map.

`Pci`, `Format`, `Apps` (in `MCKernel`, proofs in `KernelProofs`). `Pci` is the
three nested loops of
`pci_enumerate_devices`, one step per test, over any set of functions that
answer. `Format` is `xsprintf` item by item: a format is a sequence of ordinary
characters and conversions with flags, width and letter; the calls are the
callers' formats with narrower columns. `Apps` is the registry with its two
searches, launches from the desktop and by a command, focus and closing; titles
and names are short sequences that share prefixes as the real ones do.

`Rtc`, `Monitor`, `KeyInput` (in `MCMainline`, proofs in `MainlineProofs`). `Rtc`
reads the six registers one by
one while an external clock updates; what a register gives during an update is
undefined. `Monitor` has every read of a counter by htop and System Info as a
step of its own, with ticks in between; the order of the two reads in one
argument list, which C leaves open, is the build's or the other. `KeyInput`
follows a key from the keyboard's handler through the mailbox `last_key` to one
of its two readers in a pass; the load and the store of `ps2_get_last_key` are
two steps, as in `drivers/ps2.o`. A key may have no character (`NoChar`: F1,
NumLock): its handler stores 0 and so empties the mailbox.

`MCDesktop`, `MCTerminal`, `MCKernel` and `MCMainline` hold several modules that
share no variable. Their initial states choose one of them and only that one
moves, so a behaviour is a behaviour of one module and nothing is lost or mixed.
Two of them have a constant, `Sides` and `Walks`, that limits the choice, so that
two runs share one module. For the theorems stated of `MCSpec` a lemma of
each proof module (`ScreenSteps`, `PartSteps`, `OnlyOneServes`, `OnlyOneWalks`)
shows that the composition takes only steps of each part.

## 3. Runs

| run | instance | shows |
|---|---|---|
| `sound` | ring of 3, notes of 2 and 3 ms and a rest of 1 ms, source order; 13,023 states | `RingIsFifo`: the ring refines `NoteFifo`; `SpeakerFollowsVoice`; `QueueDrains` under fairness of the tick; `OnlyStopStrandsSpeaker`: no tick and no enqueue leaves the speaker on with nothing voiced |
| `sound_build_order` | same, build order | **violated**: a tick voices a half-written note |
| `window_manager` | 3 slots, all zone combinations; 58,497 states | `NoWindowLost`, `FocusInv`, `FocusGoesToOpen`, `AltTabReachesAll` |
| `mainline` | 6 tasks, sleeps of 0, 1 and 3 ticks; a clock with few values per field in all 4 register modes; 8 ticks at 3 to the second; 329,035 states | `TypeOK` (no null task is charged), `ListInv`, `CountIsExact`, `ReadIsShown`, `FiguresAreNear`; `CallsReturn` and `ReadEnds` under fairness |
| `keys` | 2 presses, of a letter, of Tab or of a key without a character, modifiers at any moment; 622,864 states | `TakenOnceInOrder`; `KeyReachesLoop` under fairness |
| `desktop` | no bound, the state is finite; 452,912 states | `MenusAreShown`, `OneActPerPress`; `DragsEnd` and `PressAtPassIsSeen` under fairness of the loop |
| `compositor` | 3 x 2 pixels, cursor of 2 pixels, 2 pictures, 2 wallpapers, black boot screen, lines as long as the width; 103,260 states | `ImagesAreFrames`; `MovedCursorIsDrawn` under fairness of the loop |
| `terminal` | input buffer of 4, history of 3 lines, window of 2 lines, up to 4 lines printed since the last clear; lines of up to 5 characters and fields of 3; echoes of up to 7 bytes through an array of 4, messages of up to 8 bytes through arrays of 4 and 6; files of up to 6 bytes; 1,083,456 states | `InputIsString`, `HistoryIsTail`, `WindowOnHistory`, `ArgumentsArrive`, `FilesAreRead` |
| `files` | 3 slots of 2 bytes, buffer of 2, 4 names of which one is too long; 42,840 states | `DiskIsStore`: the disk refines `NameStore`; `SavedIsReadable` |
| `files_explorer` | same | **violated**: after `rm` a click opens a file other than the one shown |
| `ps2` | Alt and Super, 2 keyboard bytes and 4 mouse bytes queued, mouse with and without wheel; 3.9 million states | `PortHasReader`, `ModifiersFollowKeys`, `SyncIsKept` |
| `kernel` | memory of 40 cells, 3 blocks, 2 memory maps; every machine of 2 x 2 x 3 PCI functions and arrays of 0 to 3; 5 formats with numbers and strings around their column widths; 3 applications, 3 window slots, 8 pids; 565,600 states | `BlocksApart`, `ContentsKept`, `BlocksInRam`, `OverreadInHeap`, `ListsInventory`, `WritesColumns`, `AppsAreReached` |

Some of these are conjunctions over one component, defined in the MC modules
from parts that the component's module states one by one: `ImagesAreFrames` is
`TypeOK`, `ScreenIsFrame` and `DesktopIsFrame`; `ArgumentsArrive` is `TypeOK`,
`ArgumentsAreWords` and `FieldsAreStrings`; `FilesAreRead` is `TypeOK`,
`CatPrintsLines` and `WcCounts`; `AppsAreReached` is `TypeOK`, `AppsAreFound` and
`KeysReachOwner`; `FiguresAreNear` is `TypeOK`, `UsageNotOverstated` and
`UptimeWithinSecond`; `ListsInventory`, `WritesColumns`, `ReadIsShown` and
`TakenOnceInOrder` are each the property of that name and the `TypeOK` of their
module.

Bounds. A ring of three slots fills, wraps and drains; three windows are enough
to have an active, a covered and a closed one and to see the array shifted
around a window that stays; six tasks allow a head, inner tasks and a tail to be
destroyed after the three base tasks exist. Six pixels let the cursor lie inside
the screen, over its edge, and over a pixel of each kind. Four printed lines
overflow a history of three. Lines of five characters hold two words with
blanks around them, and words longer than the fields of three. The lengths of the
prompt and of the messages' own text are scaled down so that the
longest echo and messages exceed the arrays they are written to, and the
assumptions on `EchoRoom` and `MsgRoom` are met with nothing to spare. Three slots let
the disk be empty, partly used with a gap, and full; contents of up to two bytes
are empty, inside and beyond the editor's buffer. The keyboard queue holds one
extended key or two plain ones, the mouse queue one packet of four bytes. Three
blocks are enough for a block, its reallocation and a page between them. The
clock has both ends of the day, noon, one- and two-digit values and a carry
through all fields. `MaxBusyTicks` bounds only the counter of ticks before
`current_task` is set.

Deadlock is checked in every run but `kernel`, where the allocator stops at its
bound `MaxBlocks` and the launches at `MaxPid`; the real counters go on.

Views. `MCFileApps` and `MCPs2` take as one state those that differ only in what
no operation reads: the leftovers in an unused slot, and the last value of an
empty port.

Fairness. `sound_tick` and `irq0_handler` are weakly fair: the PIT runs at
1000 Hz and no code of the mainline disables interrupts. `Walk` and `Wait` of
`Scheduler`, `Pass` of `Desktop` and of `KeyInput` and the reader of `Rtc` are
weakly fair: the mainline is the only thread, every handler returns to it and
`sleep` returns (run `mainline`); the same is said of `Compositor`'s loop in the
form that some step of a pass is always taken again. A mainline that is inside
`hlt` is woken by the tick. The clock's `end_update` is weakly fair, and a second
lasts at least three passes over the registers (`Gap`): a pass is six port reads
of about a microsecond. No fairness is assumed of calls the user triggers.

## 4. Proofs

Every safety property of the passing runs is proved, each of them for all values
of the constants that satisfy the named assumptions; TLC keeps the liveness
properties.

| theorem | states | argument |
|---|---|---|
| `SoundProofs!TypeCorrect` | `TypeOK`, any ring size, notes and store orders | inductive as it stands |
| `SoundProofs!ReadableStaysWhole`, `WholeNotes` | `PublishedWhole`, `VoicesOnlyWholeNotes`, source order | `RingInv`: the slot being filled is the one at tail and is not readable yet, what is readable is whole; a tick moves only head, so it cannot disturb the filling |
| `SoundProofs!RingImplementsFifo` | `RingIsFifo`, source order | the readable slots, head to tail, are `waiting`: the store of tail is `Append`, `TickStart` takes the head, every other step is a stutter |
| `SoundProofs!SpeakerPlaysVoice`, `StrandedOnlyByStop` | `SpeakerFollowsVoice`, `OnlyStopStrandsSpeaker`, any store order | only ticks and `sound_stop` write the port or the flag, and a tick writes both |
| `WindowManagerProofs!TypeCorrect`, `WindowsPreserved`, `FocusConsistent`, `FocusOnlyOnOpen`, `DragStaysInUse` | `TypeOK`, `NoWindowLost`, `FocusInv`, `FocusGoesToOpen`, `DragInUse`, any `MAX_WINDOWS` | the shift of `ToFront` is a permutation of the slots in use; a search from the top ends at an open window or, with none, at NULL; slots in use stay in use |
| `WindowManagerProofs!AltTabAlwaysReaches` | `AltTabReachesAll` | a cycle puts the active window into the lowest slot and takes the highest open one: while an open window has not had its turn it climbs by one slot with every cycle (`Climbed`), which cannot go on for `window_count` cycles |
| `MainlineProofs!TypeCorrect`, `ListAlwaysSound` | `TypeOK`, `ListInv`, any number of tasks, any pids and sleeps | `Inv == TypeOK /\ ListInv`: pids grow, so the next task of the list is the next younger one; `WalkInv` says that the task being appended is younger than all and that the pid looked for was not passed by, which makes the cursor at the null pointer the youngest task and the cursor before a pid its predecessor |
| `MainlineProofs!CountAlwaysExact` | `CountIsExact` | `ListInv` makes the list a numbering of the live tasks by age: by induction along it the walk meets each of them once |
| `MainlineProofs!KeysTakenOnceInOrder` | `TakenOnceInOrder` | `KeyOrder`: the keys taken are older than the one loaded, and that is older than the one in the mailbox; before the store that clears it, the mailbox may still hold the loaded one |
| `MainlineProofs!FiguresStayNear` | `FiguresAreNear`, any length of a second | `UsageInv` follows the two counters from read to read: `idle` is read last, so a tick in between can only lower the usage; `LineInv` bounds the seconds by the ticks at the first and at the latest read |
| `MainlineProofs!DateAlwaysShown` | `ReadIsShown`, any times, modes and updates | `PassInv`: a pass over the registers that saw an update stands within six reads of it, and since a second is longer than three passes the pass after it is clean; two equal passes of which one is clean are both a time shown |
| `DesktopProofs!TypeCorrect`, `MenusCurrent`, `NoDoubleClicks` | `TypeOK`, `MenusAreShown`, `OneActPerPress` | `PressInv`: a button that is down while the loop's copy is up has a press the loop has not acted on; `RedrawInv`: menus that differ from the drawn ones have `full_redraw` set, until `draw` |
| `DesktopProofs!ImagesAlwaysFrames` | `ImagesAreFrames`, any size, pictures and cursor, if `Stride = Width` and the boot screen is black | `ScreenInv`: the front copy is the screen, the desktop buffer the frame, and the back buffer the frame except for the saved rectangle, whose pixels are in the backup (`Beneath`); the cursor lies inside the rectangle saved with the same loaded coordinates; a frame not yet shown cannot be skipped by the pass (`Drawn`) |
| `FileAppsProofs!TypeCorrect`, `NamesStayUnique` | `TypeOK`, `PlainNamesUnique`, any disk, buffer and names | `Inv == TypeOK /\ PlainNamesUnique`; a plain name is stored as it is, so the search of `vfs_create` finds it |
| `FileAppsProofs!DiskImplementsStore` | `DiskIsStore` | with unique plain names, each of create, write and remove changes the contents of one plain name or of none; a name that is cut is invisible to the store |
| `FileAppsProofs!SavesAreReadable` | `SavedIsReadable` | `current_filename` is always a name that fits (`NameFits`), so the slot `vfs_create` fills is the one `vfs_open` finds |
| `Ps2Proofs!TypeCorrect`, `EveryByteHasReader` | `TypeOK`, `PortHasReader`, any queue lengths and keys | `Inv` adds which bytes can be in the port and in the queues; a handler or a poll that empties the port leaves it to the controller to fill it again together with a request |
| `Ps2Proofs!ModifiersAreKeys` | `ModifiersFollowKeys` | `KbdInv`: a modifier is down exactly if the last event of its key among the pending bytes is a press or, without one, if its flag is set; a prefix E0 and its key may be split between port and queue |
| `Ps2Proofs!SyncStays` | `SyncIsKept` | `MouseInv`: what the mouse has on its way is answers and then whole packets, of which a reader may have taken a beginning (`Framed`); in the loop only `handle_mouse` takes bytes, so its count is the place in the packet |
| `TerminalProofs!TypeCorrect`, `InputStaysString`, `HistoryStaysTail` | `TypeOK`, `InputIsString`, `HistoryIsTail`, any buffer, history and window | `Inv == TypeOK /\ InputIsString /\ HistoryIsTail` is inductive: the cells from `cmd_len` on are zero, a full history drops its oldest line and gains the newest; with `cmd_len` and `dir_len` below their sizes an echo is never longer than `EchoRoom` (`EchoInFrame`) |
| `TerminalProofs!WindowStaysOnHistory` | `WindowOnHistory` | the offset is clamped in the step that draws, so it does not matter what the wheel and the history did before |
| `TerminalProofs!FilesAlwaysRead` | `FilesAreRead`, any file and limits | `CatInv`: the lines printed, each with its end, and the line buffer are the file up to `i`; `WcInv`: the counters are the numbers of word beginnings and line ends up to `i`, and `in_word` tells whether `i` is inside a word |
| `TerminalProofs!ArgumentsAlwaysArrive` | `ArgumentsArrive`, any line, alphabet and buffer sizes | `Taken`, in `CallInv`: between two calls of `strtok` for one line, the words that begin before `last_strtok` are those already handed out and the buffer from there on is as typed, or `last_strtok` is null and no word is left; a later call writes only behind the words handed out (`TextKept`). `FieldInv`: `strncpy` leaves the last byte of `current_dir` and of `current_filename` alone, and that byte is zero. A word or a rest is never longer than its line (`WordShort`, `SliceShort`), so no message is longer than `MsgRoom` (`SaysInRoom`) |
| `KernelProofs!TypeCorrect`, `BlocksNeverOverlap`, `BlocksStayAligned`, `CountersStayExact`, `ContentsStay` | `TypeOK`, `BlocksApart`, `BlocksAligned`, `CountersExact`, `ContentsKept`, any memory map, alignment, page and word size | `Inv` adds that the pointer is aligned if its start is (`HeapAligned`), never below it (`HeapGrew`), and that an owner knows only cells of its block (`KnownInside`): the copy of `krealloc` then takes all of them along and writes only into the new block |
| `KernelProofs!OverreadStaysInHeap` | `OverreadInHeap` | the new block lies behind the old one and is `new_size` long, so the read of `new_size` cells from the old block ends before the new `heap_ptr` |
| `KernelProofs!BlocksStayInRam` | `BlocksInRam` | the segment `mm_init` takes is at least as long as any usable one, by induction over the map |
| `KernelProofs!InventoryAlwaysListed` | `ListsInventory`, any machine and array | `ScanInv`: what is listed lies before the place of the scan and in its order, and a function that is before that place is listed or the array is full |
| `KernelProofs!AppsAlwaysReached` | `AppsAreReached`, any names and titles of which none begins another | `AppsInv`: the registry is a beginning of the boot order and complete before the first window, and the editor's title starts with the registered one (`TitleInv`), so the comparison of the first characters finds the editor and nobody else |
| `KernelProofs!ColumnsAlwaysWritten` | `WritesColumns`, any number below 2^31 and any string | `FormatInv`: after d items the output is what C writes for the first d and the arguments left are those of the others; digits, padding and signs by induction over the recursive functions that define them |

The assumptions are the named ones on the constants: sizes are positive naturals
(the ring has two slots or more), a page is a multiple of the alignment, no
request is within 16 bytes of 2^32, cutting a name twice is cutting it once, the
files created at boot have different names that fit, the editor's welcome text
fits its buffer, the terminal's window is at least as high as its frame; the
longest echo is at most `EchoRoom` bytes and the longest message at most `MsgRoom`
(204 of 280 and 162 of 328 with the real sizes; the distances are those of the
object file in the repository, another build may choose others); the
characters of a line are none of them zero and a blank is no letter; the cursor
fits the rectangle that is saved; the fields of the clock are below 100 and the
hour below 24; a second lasts at least 21 register reads (`SecondIsLong`); the
names of the applications differ and no title begins another, as in the table of
`app.c`'s callers. TLC evaluates each of them on its instance. The theorems about
the ring's contents assume that the build keeps the stores in source order; run
`sound_build_order` shows what happens otherwise. `ImagesAlwaysFrames` has its two
hypotheses in its statement; section 5 says what happens without them.

Induction. The library's induction theorems have an operator as parameter and
cannot be used with the provers at hand, but its theorem that the strict subsets
of a finite set are a well-founded relation has none: `LeastNat` gives every set
of naturals a least element and `SetInduction` says that a *set* with 0 that is
closed under successor is Nat. A property is proved by induction as such a set.
The defining equation of a recursive function over an interval (`Digits` and
`Written` of `Format`, `AfterCycles` of `MCWindowManager`, `FlattenSeq` of the
community modules) is proved the same way: a function that satisfies the
equation up to n exists for every n, so the CHOOSE behind it finds one.

Only model-checked: the liveness properties `QueueDrains`, `CallsReturn`,
`ReadEnds`, `KeyReachesLoop`, `DragsEnd`, `PressAtPassIsSeen` and
`MovedCursorIsDrawn`, since the provers have no rule for fairness; and the two
violations.

## 5. Properties the code does not have

The two findings of `PROJECT.json` have a run of their own. The definitions below
are stated in the modules and violated; each can be seen by checking it with the
instance of the run named with it. The counterexamples, in a sentence:

- `WindowManager!DragFollowsGrabbed` (`window_manager`): the drag goes on by slot
  index, and Alt+Tab or a taskbar click reorders the slots meanwhile, so the
  pointer drags another window (`gui/window.c:194`).
- `Ps2!WheelDetected` (`ps2`): `irq12_handler` takes the mouse's answer before
  `mouse_read` polls for it, which times out and returns 0; the wheel stays
  undetected while the mouse sends packets of four bytes (`drivers/ps2.c:92`).
- `KeyInput!ClearsWhatItRead` (`keys`): a key whose interrupt falls between the
  load and the store of `ps2_get_last_key` is cleared unread (`ps2.c:210`).
- `KeyInput!AltTabSwitches` (`keys`): a Tab that arrives between the two reads of
  the mailbox in a pass goes to the application although Alt is held and the
  switcher is shown (`shell/shell.c:574`).
- `KeyInput!CtrlAsTyped` (`keys`): yano asks for Ctrl when it handles the key;
  released in between, Ctrl+S types an s (`yano.c:109`).
- `KeyInput!OnlyReadersEmpty` (`keys`): a key without a character stores 0 in the
  mailbox, so an x that was not read yet is lost by pressing F1 (`ps2.c:194`).
- `Terminal!EchoFits` (`terminal`): the echo of a long line in a directory with a
  long name is up to 204 bytes, in an array of 128 (`terminal.c:483`, `:543`).
- `CommandLine!MessagesFit` (`terminal`, as `Line!MessagesFit`): `touch` with a name
  of 56 characters or more prints it through an array of 64 bytes
  (`terminal.c:273`); the arguments of a launch and an unknown word can exceed their
  128 (`:178`, `:436`). In this build these texts and the echo end in bytes of the
  frame that are not in use.
- `Terminal!EveryNotchCounts` (`terminal`): a packet overwrites the wheel movement
  of the one before it, and one that arrives between the addition and the reset
  in `terminal_draw` is wiped out (`ps2.c:138`, `terminal.c:449`).
- `FileCommands!CatShowsContents` (`terminal`): the character that finds the line
  buffer full is taken as the end of the line: of a longer line every 121st
  character is missing (`terminal.c:252`).
- `Format!WritesAsC` (`kernel`): `xsprintf` copies conversions it does not know:
  the PCI list and `hexdump` print the text `%x`, htop prints two percent signs
  (`string.c:163`).
- `Rtc!HoursConverted` (`mainline`): in 12-hour mode noon is returned as hour 0 and
  midnight as 12 (`rtc.c:66`); `ReadIsShown` leaves out these two hours.
- `Monitor!UptimeIsAMoment` (`mainline`): seconds and milliseconds are two reads; a
  tick at a full second between them shows 2.999 for 1.999 (`htop.c:92`).
- `Apps!ExitEndsOwnTask` (`kernel`): `exit` destroys the task with pid 43, the
  task of another launch or none, and leaves its own on the list
  (`terminal.c:433`).
- `Apps!LaunchedHasWindow` (`kernel`): slots of closed windows stay used; once
  all are, a launch creates a task, reports "Launched" and opens nothing
  (`window.c:79`, `terminal.c:180`).

Three more follow from what the models show but are not stated as formulas:

- A tick between the two stores of `sound_stop` may start a note whose playing
  flag is then cleared: nobody ends it and the speaker stays on
  (`sound.c:42`). `OnlyStopStrandsSpeaker` shows that nothing else does this.
- `last_mbl` is read from the button after the drawing (`shell.c:678`): a press
  that arrives while a pass draws counts as seen, and nothing reacts however
  long it is held. `PressAtPassIsSeen` is about presses a pass finds at its click
  test. In the same way `last_mx` and `last_my` are read after the cursor was
  drawn (`shell.c:676`), and the cursor stays behind until the next packet;
  `MovedCursorIsDrawn` is about movements a pass finds.
- `fb_alloc_buffers` sizes the buffers by the width and addresses them by the
  pitch (`fb.c:43`): with a longer pitch they overlap and `ScreenIsFrame` fails.
  Its clearing of the front copy does not "ensure first frame is drawn entirely"
  (`fb.c:49`): black pixels equal the copy and are not written, so a boot screen
  that is not black shows through. The instance therefore has `Stride = Width` and
  a black boot screen.

Observed while modelling:

- `sound_stop` leaves the queue: notes that wait sound after "Mute Speaker / Stop
  Sound" (`sound.c:39`, `apps/player/player.c:46`).
- `wm_cycle_depth` clears the active flag through a pointer after the array was
  shifted, so two windows may carry it (`window.c:177`); the taskbar then draws
  both as active. A click in the body of the active window is looked up among the
  *other* windows (`window.c:209`), and the close box is level-triggered
  (`window.c:213`): held over a stack of windows it closes one per pass.
- A click on the context menu reaches the window manager first (`shell.c:363`,
  `:374`), so it also acts on the window under the menu. A press and release that
  both fall into one pass after line 317 may change the windows without a redraw.
- No task but init ever becomes current, so the scheduler is not the "Preemptive
  Scheduler" of `fs.c:115`, and every tick counts as idle (`scheduler.c:95`), so
  htop's usage is zero. Tasks of closed windows stay on the list.
- A name of 32 characters or more is stored cut and compared whole: it is created
  again at every use (`fs.c:180`). "Written." and "Copied." are printed whether or
  not the write succeeded (`terminal.c:369`, `:404`). A file of 4096 bytes or more
  is cut when yano loads it and saved cut (`yano.c:42`); all yano windows share
  one buffer.
- The allocator compares no request with the end of its segment, while the free
  memory it reports is the sum over all segments (`mm.c:26`); `size + 15` would
  wrap for a request close to 2^32, which no caller makes (`mm.c:48`); the first
  block is aligned only if the end of the kernel is. The image viewer decodes its
  image at every redraw and nothing is ever freed.

## 6. Order of the work

What interrupt handlers share with the mainline came first (`Sound`, `Scheduler`,
`Ps2`), then the long-lived state of the desktop (`WindowManager`, `Desktop`), the
disk and its users (`Vfs`, `FileApps`), then the allocator, the compositor, the
terminal and the clock, and last the small parts with an algorithm of their own
(`CommandLine`, `FileCommands`, `Format`, `Pci`, `Apps`) and the readers of shared
counters and mailboxes (`Monitor`, `KeyInput`). The abstract specifications are
`NoteFifo` and `NameStore`. The proofs followed the same order; the last were those
that need induction. What could follow: one composition of `Desktop` with
`WindowManager` in place of the two facts `Desktop` keeps of the windows, and with
it the step from a click of the desktop to the window manager's pass.

## 7. Not modelled

Of the system's own code, about 4000 lines of C and assembly, the definitions
stand for some 60 %. The rest draws or does one thing once:

- drawing: letters, gradients, icons, window frames, menus and the contents of
  every window (`gui/fb.c`, `gui/window.c`, `shell/shell.c`, `apps/*`). The
  compositor takes what is drawn as given;
- the settings window, browser, image viewer and System Info apart from their
  launches and counters: each writes a few independent variables and draws;
- entry code, register saving, the programming of the PIT and PIC, the serial log
  and the boot protocol (`boot/`, `kernel/kernel.c`, `kernel/interrupts/`): one
  sequence without alternatives. What is kept of it is its order, which decides
  what interrupts can meet;
- `drivers/cpuid.c`, which formats what one instruction returns, and functions
  that nothing calls (`fb_init`, `fb_wallpaper`, `fb_get_pixel`,
  `fb_restore_desktop_rect`, the PCI writes).

Most files of the repository are not the system's own: `gui/stb_image.h` is a
third-party decoder, `kernel/limine.h` and `limine/` the boot loader, `gui/font.h`
data, and `reference/BoredOS-26.6.0-RC1`, by far the largest part, another
system's source that no build file of this repository compiles and none of its
code calls. None of that is modelled.
