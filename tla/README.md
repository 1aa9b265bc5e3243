# A TLA+ verification project for the HomeMicro 1000

The repository holds a home-made 6502 computer: its ROM (`rom/rom.s`), an
emulator of it (`emulator/`), the firmware of its keyboard and video
controllers (`keyboard/`, `video/`), and the tools that program its memory
chips and cartridges (`tools/`).  This directory models what of it changes
state, checks the models with TLC on small instances, and proves what can be
proved for all instances with TLAPS.

Modelled are the whole ROM (boot, cartridge, screen, numbers, keyboard), the
emulator (processor, clock, main loop, display, keyboard matrix, serial port),
the PS/2 keyboard controller, and the programmers, down to the stores that move
their pins.  The video generators, the applications and the documents are not
(section 5).

## 1. Inventory

| component | state | operations | talks to |
|---|---|---|---|
| emulator: serial port and cartridge (`hm1000.c`) | `sercr`, `serir`, `twi_addr`, `twi_status`, `cartridge*`, the static `data` | a store to SERCR (`handle_new_sercr`), a load of SERIR | the CPU (stores), the image file |
| ROM: two-wire routines (`rom.s:1153-1274`) | registers, `$60` | `twistart twiresta twistop twisendb twigetb twiack twinak` | SERCR, SERIR |
| ROM: cartridge load and save (`rom.s:282-361, 697-845`) | `$a0..$ab`, `x`, `CARTBSZ` | `loadcart savecart saveblk cartnext cart_set_location` | the two-wire routines, RAM |
| the cartridge: a 24-series serial EEPROM | memory array, address counter, busy | START, STOP, bytes, write cycle | the bus |
| ROM: boot and cartridge header (`rom.s:40-264`) | `$c0`, the header at `$2a00` | memory check, `try_cart`, the jump into the program | `loadcart` |
| ROM: keyboard (`rom.s:485-571`) | `KBDSTATE` | `pollkey pollchr waitkey waitchr qkbrow` | KBDROW, KBDCOL |
| ROM: screen (`rom.s:266-280, 363-483, 860-1150`) | `CURPOS`, character memory | `cls showchr newline scrollup setcur adjcur show` | character memory |
| ROM: numbers and memory (`rom.s:573-690, 847-1147`) | `$a0..` | `putuint putint sub16 cmp16 rotate readint` ... | none |
| emulator: processor (`hm1000.c:352-820`, `ops.inc`) | a, p, s, x, y, pc, RAM | one function per opcode | memory, I/O tables |
| emulator: clock, main loop, key matrix (`main.c`, `hm1000.c:119-163, 273-282`) | `last_sync`, `ticks`, `next_redraw`, `keyboard[8]`, `kbdrow` | `sync_time`, one turn of the loop, key events | the host's clock and window |
| emulator: display (`xcb.c`) | the picture last drawn | `update_display`, `resize` | RAM, the window |
| PS/2 keyboard controller (`ps2kbd-m328.s`) | frame shift register, prefixes, key matrix | the loop that reads frames, the row interrupt | the keyboard, KBDROW/KBDCOL |
| video generators (`video/*.s`) | line and row counters | one loop per scan line | character memory |
| flash and memory programmer (`tools/memory`, `gpio.c`) | shift registers, address | write, erase, verify, retry | a memory chip by GPIO |
| cartridge programmer (`tools/cartridge`) | file position | page writes, acknowledge polling | an EEPROM by `/dev/i2c` |
| applications, font, documents, build | - | - | - |

What is hard in each, and what makes it correct:

* **Serial port.**  The port sees nothing but stores to one register; START,
  STOP, data and acknowledge are told apart by counting clocks in an 8-bit
  counter that wraps.  Correct: after any sequence of stores the counter is
  somewhere in a frame; under the ROM's routines, slave and program agree on
  where.
* **Two-wire routines.**  A data line that moves at the wrong moment is a START
  or STOP.  Correct: only the framing routines make one, and whole bytes arrive.
* **Load and save.**  Two-byte counts borrowed by hand, at different places in
  different loops; pages the device wraps in; a device that is deaf for a while
  after each page; a cartridge that may be pulled out.  Correct: a call that
  reports success has moved exactly the bytes asked for; one that fails has
  written a prefix; the bus is stopped on every way out; a call returns.
* **Boot.**  Broken memory, retries, and a header in RAM that may be an old one.
  Correct: RAMTOP is the end of the memory that works; what runs is what a
  cartridge holds.
* **Screen.**  A cursor that may stand behind the screen, a scroll in whole
  pages, numbers converted by subtraction.  Correct: a console of lines.
* **Processor.**  C's promotions and widths behind flags, addresses and a stack
  pointer that wrap.  Correct: the flags tell, a return finds its call.
* **Keyboard (ROM, emulator, controller).**  Polling a matrix that changes
  meanwhile; in the controller, an interrupt that shares outputs, a register
  and the matrix with the main loop, and a serial line without
  resynchronisation.  Correct: each press is seen once, and ends.
* **Main loop and display.**  Time carried by hand, deadlines behind real time,
  a cache of the picture that resizes and exposures can make stale.  Correct: no
  time is lost; what is shown becomes what is in memory.
* **Programmers.**  Erase before write, verify, retry; and below that, strobes
  and two wires moved one store at a time by a program that may be killed
  between any two.  Correct: what is not being written survives, success means
  verified, a cell gets the byte meant for it, nothing drives against another
  output.

`PROJECT.json` lists every one of these hazards at its line, with the
properties that cover it, or why none does.

## 2. Modules

```
TwiSlave    the port: one action per case of handle_new_sercr
   |  EXTENDS
TwiBus      + the ROM's routines as sequences of stores
   |  implements (INSTANCE ... WITH)
TwiEeprom   the device, a byte at a time
   |  EXTENDS
CartXfer    + loadcart and savecart, one routine call a step
   |
   |     Screen   the ROM's screen routines and numbers
   |  EXTENDS |
Boot        memory check, header, the way into the program
   |  EXTENDS
Rom         + the program that calls it all   -- implements --> Console
   |  EXTENDS
MCRom       sessions for TLC

Ops6502     the emulator's table of instructions
Cpu         the processor, its memory and its clock
   |  EXTENDS
Emulator    + the main loop and the display, with an X server
   |  EXTENDS
MCEmulator  programs and users for TLC

Keyboard    host key events, the emulator's matrix, pollkey and pollchr
   |  EXTENDS
MCKeyboard  a 2 x 2 matrix for TLC

Ps2Kbd      the PS/2 controller: main loop, row interrupt, keyboard, computer
   |  implements (INSTANCE ... WITH)          |  EXTENDS
Ps2Link     every code taken once         MCPs2Kbd  four codes for TLC

FlashChip   the flash memory: commands, programming, erasing, failures
   |  EXTENDS
WriteRom    the programmer: compare, erase, write, verify, retry
   |  EXTENDS
MCWriteRom  a chip of three sectors for TLC

Gpio        the Raspberry Pi's pins, and programs that can be killed
   |  EXTENDS                |  EXTENDS
MemTools                  CartTools
   writemem, readmem, the    writecart, readcart on two wires
   cycles of writerom        |
   |  EXTENDS                |  EXTENDS
GpioTools   one of the two programmers
   |  EXTENDS
MCGpioTools a few lines and bytes for TLC

TwiSlaveProofs, RomProofs, EmulatorProofs, KeyboardProofs, Ps2KbdProofs,
WriteRomProofs, GpioToolsProofs, CartToolsProofs    theorems
```

The two halves of the keyboard meet in the matrix: what Ps2Kbd keeps in
`matrix` and shows on PORTD is, in the real machine, what Keyboard has in
`keyboard` and reads a row at a time in the emulated one.  The emulator and the
ROM meet in the two registers of the serial port: TwiBus runs the ROM's stores
against the emulator's handler and shows that together they are the device that
Rom runs on.  MemTools and WriteRom meet in the write cycle, a step of WriteRom
and a sequence of stores in MemTools.

**TwiSlave** is `handle_new_sercr` and `write_sercr`.  A store is one atomic
step because the emulated processor stands still while the handler runs.  Of
SERCR only SDA (bit 7) and SCL (bit 6) are kept, as a record; the registers
behind it keep their 8 bits and their wrap-around.  The handler's nested
conditions are five actions with disjoint guards: `SclLow` (172), `AckClock`
(201-217), `ReadClock` (219-231), `ShiftClock` (232-251), `SclHigh` (253-269).
`Spec` lets a program store anything at any time.  `Init` is what `init_6502`
leaves: random bytes in every register but `twi_status`.  Where the code would
divide by the size of a missing image there is no step.

**TwiBus** runs the ROM's routines against that port.  A routine is the
sequence of its stores to SERCR (`StartPins`, `SendPins(b)`, ...), each store a
step of TwiSlave, with other state of the CPU left out: nothing between two
stores can be seen on the bus.  `Call...` enters a routine, in the orders that
`loadcart`, `savecart` and `cartnext` use; `CallStop` may come at any point, as
their error paths do.  `at` is the place in the transaction the program
believes in; nothing in it reads the slave's registers except the acknowledge
bit a routine returns, as in the code.  `was` is a history variable for the
refinement.

**TwiEeprom** is the device behind the routines, with an action for each
routine: the abstract specification that TwiBus implements, and the environment
of CartXfer.  It is *external*: it has no source here, and models the 24-series
part the documents name as the code uses it.  Two parameters widen it beyond
the emulator's image: `PageSize` (a real part wraps a write inside its page)
and `SlowWrites` (it is deaf while it programs).  With 0 and FALSE it is the
emulator's cartridge.

**CartXfer** is `loadcart`, `cart_set_location`, `savecart`, `saveblk` and
`cartnext`.  A step is one call of a two-wire routine and the instructions up
to the next, so the device may act between any two calls: finish programming
(`Ready`), or be pulled out (`Remove`).  The labels in `pc` are the calls of the
code.  Counts are kept as two bytes because the code borrows between them by
hand; bytes have `B` values, so that TLC can carry with `B = 8`.  `x` is
modelled because `cartnext` counts in it while `twisendb` overwrites it.

The cells that the ROM itself works in, `$80` to `$2ff`, are variables of the
modules, and those from `$c000` on are its I/O and itself: `ram` follows neither.
A load over them would change the routine that loads, and is left out, as
`docs/programming.txt:113-121` asks of programs (`Reserved`, `Spares`).

Preconditions, named in `XferAssumption`: blocks and counts fit two bytes, a
location fits the three address bits and two bytes of a transaction, and every
call spares the cells reserved.

**Screen** is `cls clshome setcur col0 newline scrollup adjcur showchr showspc
show showuint showint` and `putuint`, on video memory taken eight bytes (a
character) at a time; the screen has its real size.  A routine is one step,
except `show`, which draws a character a step: nothing else runs on the machine
meanwhile, but each turn calls `adjcur`.  `scrollup` is modelled by the cells it
really copies, page by page.  `putuint` is the table of parts it subtracts.
`showhex`, which nothing calls, is left out; `showdigit`, which the memory map
lists, does not exist.  A `show` of 0 characters (256 in the code) and a
`scrollup` of 179 lines or more, whose address leaves its page counter, are not
called.

**Boot** is `_start` to the jump into the program.  The memory check is a step
per cell, on memory in which the cells of `dead` do not keep what the check
stores; it writes from the top downwards and leaves a page only at its end, so
it runs below `$0220` by up to a page (the comment says `$01ff`).  Then a step
per call: clearing the screen, showing the size, `loadcart` of the header up to
256 times, the comparison of the four magic bytes, `loadcart` of the program
with the header's words, and the jump.  Before the jump the boot stores its mark
at `$2007`: the character is in Screen's cells, the byte in `ram`, and a program
loaded there has the mark in place of its own byte.  Every other character drawn
is in Screen only, before the program is loaded.  A reset finds memory as the
last run left it.  `HeadersAssumption` keeps a header within the limits of the
boot: its program ends within memory and is not loaded over the cells the ROM
works in (`$a0..$a7`, `$c0`, `$c1` among them), which the code does not survive
either.  Simplified: the bytes of the header that are on the screen for a moment
are not followed in Screen; a dead cell keeps what loads put into it (only the
check is about broken memory); memory that mirrors other memory is not modelled;
nor is a reset during a transfer.

**Rom** composes them: `boot` says where the boot is, `pc` where a transfer is,
`text` where `show` is.  A session is a reset, or a program with the calls it may
make and their number.

**Console** is the abstract screen: 25 lines of 40 characters, a cursor that may
stand on the line below the last until the next character makes the lines
scroll, texts shown one character after another, numbers in decimal.

**Ops6502** is the table of `ops.inc`, without the column of addressing modes,
which no code reads.  **Cpu** is the processor: one action per
family of instructions (loads, stores, arithmetic, shifts, branches, stack,
jumps), with the addressing modes of `modes_a` and `modes_b`, and the widths C
gives the values on the way: an address kept in a `uint8_t` is a byte in the
model.  The status register is a set of weights.  Memory is sparse: a cell
nobody gave a value holds `Fill`.  An I/O address may read as anything (two
reads in the same instruction at addresses of the same parity agree); a store to
one changes nothing the processor sees.  As in the code, `brk` pushes nothing,
pointers of `(zp,x)` and `(zp),y` at `$ff` take their high byte from `$100`, and
an opcode that is not in the table stops the emulator.  `sync_time` comes with
the loads and stores of an instruction.  `calls` and `cycles` are history variables: where the bytes that a
`jsr` left on the stack are still unchanged, and how many cycles have run.

**Emulator** is the loop of `main.c` and `xcb.c`: an instruction, the deadline,
one poll.  The X server is the environment; it keeps what each cell of the
window shows, blanks what is uncovered or resized, and sends events in order.
`update_display` skips the cells whose byte the cache remembers; `resize` asks for
a pixmap of the same name, which the server refuses, so a picture larger than
the first is cut, and computes the offsets with the scale of the height alone.
Losing the focus and `init_xcb`'s table of keys are left out.

**Keyboard** joins the event loop of `main.c`, `read_kbdcol`/`write_kbdrow` and
the ROM.  The event loop takes at most one event after an instruction, and one
instruction of each turn of `pollkey` (`lda KBDCOL`) looks at the matrix: so a
turn for one row is one step (`PollRow`), and `KeyPress`, `KeyRelease` come
between any two.  The last turn includes what follows it in `pollkey` and
`pollchr` up to the return.  The bit loop that picks one new key of a row is
`Highest`; `POLLKEYX` is `found`.  A program may call whenever it likes;
`waitchr` and `waitkey` are the call repeated.  Rows and columns are written as
sets of keys whose bit is 0 (down).  `KBDSTATE` starts with any contents, since
no line of the ROM initialises it after the memory check wrote over it.
`wasDown`, `wasUp`, `fresh` and `before` are history variables: what happened
since the call, or since a key was found last.  `MaxEvents` bounds the events of
a run; the theorems hold for every value of it.

**Ps2Kbd** is `ps2kbd-m328.s`.  The row interrupt (`Rowchange`) is one step,
because nothing interrupts it.  It shares PORTD, r25, X and the matrix with the
main loop, so a step of the loop runs up to its next access to one of these or
its next wait; in particular `ld r25, X` and `out PORTD, r25` are two steps,
with the interrupt in between (comment at 229-230).  The register pair r17:r16
keeps its ten bits and its shifts as arithmetic, the carry is a variable because
`brcs` tests it after the wait for the high clock.  The keyboard changes its
clock only while the loop waits for it: the comment at 33-36 gives 200 cycles
between two changes, and no turn of the loop with the interrupt takes as many.
A lost or added edge is therefore not modelled.  r19 and X start as the source
leaves them, unset; `Garbage` is what an unset X may point at.

**Ps2Link** is what the controller promises: one code at a time, taken once, a
release prefix acting on the next key.  In the mapping a code is on the link
from the start of its frame until the prefix is noted, the code ignored or the
matrix written.

**FlashChip** is the memory chip as `writerom.c` uses it: *external*.  It sees
write cycles (an address and a byte) and recognises the commands in them by
`NextCmd`; programming clears bits, erasing sets all bits of a sector.  A byte
is the set of its 1 bits.  The chip may fail: any bits that a cycle should
change may stay as they were (`Outcomes`).

**WriteRom** is `main` of `writerom.c` with `erase_sector`, `write_bytes`,
`write_byte` and `need_erase`.  A step is one write cycle (`write_byte_aux`) and
the program's loop around it; reading a sector is part of the step that compares
it, because only the program changes the chip.  An invariant therefore also
says what is left when the program is killed between two cycles.  A run
begins with a chip that waits for a command (`Init`); one that follows a program
killed inside a command is not modelled.  Without a file the program writes 00..ff over and over: a job
whose file is just that.  `WriteRomAssumption` keeps the range inside the chip
and not empty: `set_address` drops the bits above the 17 pins, and `end_address`
wraps for a length of 0 at address 0.  The order of the pins inside a cycle is
that of MemTools.

**Gpio** is `gpio.c`: function selects, latches and levels.  A routine of a tool
is a sequence of stores and samples, and each is a step, so a program may be
killed between any two (`Killed`) and another started on the pins as they are.
The function selects go back in three stores, ten pins each.  The pins start
with the Pi's default pulls or as `gpios_low` leaves them.

**MemTools** is `writemem.c`, `readmem.c` and the routines of `writerom.c`, with
the memory and the '245 as the design document wires them: *external*.  The
memory takes what is on the data lines all the time that ce# and we# are low,
which is stricter than the part.  After an error, `writerom` returns without
giving the pins back; that is a `Killed`.

**CartTools** is `writecart.c` and `readcart.c` against a serial EEPROM on two
wires: *external*.  It takes its power from a pin, counts bits, collects the
bytes of a page, programs them after a STOP and is deaf meanwhile; it may be
absent, or lose its power half way.  SDA is low when either side pulls.  A STOP
that lets both lines fall at once is taken as either edge.  `writecart.c` says
`gpio27: sda` in a comment while its `SDA_PIN` is 4; the model has 4.
`CartAssumption` keeps ranges inside the chip and asks for pages of a multiple of
`page_size`, as the comment there does.

**GpioTools** is the Pi with one of the two.

## 3. Runs

| run | what is asked | bounds |
|---|---|---|
| `twi_bus` | Do port and routines stay in step, from any register contents, and implement the EEPROM? | 2-byte image, 3 control bytes (the cartridge in block 3 for writing, for reading, another device), 2 address bytes, 1 data byte, 2 bytes a transaction, transactions without end |
| `rom` | Does the boot tell a cartridge, and how much memory works? Are loads and saves exact, is a failed save a prefix, does every call return? Is the screen a console? | memory of 64 bytes of 3 bits, 6 sets of dead cells, 4 images (a program, one loaded over its header, an older version, no header) and an empty socket; 2 transfers on a 24-byte device with pages of 4, blocks of 2 or 4, busy and removed at any step; 3 screen calls from 6 places of the cursor on the whole screen; numbers around every power of ten and of the words |
| `boot_header` | Does the boot do what a header says: violated | a program of `B` bytes, pages larger than CARTBSZ |
| `cart_save` | Is a save with a block of `B` exact: violated | blocks of 8, on pages of 8 |
| `cart_pulled` | Does a save return when the cartridge is pulled out: violated | one save, 6 tries |
| `screen_calls` | Do `scrollup` and `showint` do what the memory map says: violated | `scrollup` of 2, a number |
| `emulator` | Do the flags tell, do returns find their calls, is time exact, does the window show memory? | every listed instruction over operands 0, 1, 127, 128, 255 and three kinds of registers; calls and thrown-away returns with the stack at 6 places; programs that draw, with 2 acts of the user and 4 window sizes; an input port; 60 idle instructions |
| `keyboard` | Is every press found once, none lost or stuck, and shifted as it should be? | 2 rows of 2 keys, 5 host keys (two on one position, one unmapped), 4 events at any place of any scan, any first KBDSTATE |
| `ps2_kbd` | Are codes taken once, as sent, and shown, whatever row is selected? | 5 codes: two keys of a row, one without a key, both prefixes; 2 rows; frames and row changes without end |
| `ps2_columns` | Do the outputs show the selected row between two frames: violated | as `ps2_kbd` |
| `write_rom` | Is success exact, does everything else survive at every cycle, is a good chip never given up, does the program end? | 3 sectors of 2 bytes of 3 bits, a chip that may fail at every cycle, 5 jobs (whole chip, clipped in a sector, a short file, a clipped single byte, a start off the boundary), 5 contents, 3 attempts |
| `gpio_tools` | Does each cell get its byte, is a dump what is stored, do two outputs never fight, whenever a program is killed? | 2 address and 2 data lines, 2 calls of `writerom`'s routines; a cartridge of 2 pages of 4 bytes of 4 bits, files that end inside and at the edge of a page, 2 polls; one program after the first |

Why the bounds suffice.  *twi_bus*: the slave's state between transactions is
its idle state (that is `InStep`), so longer runs add only contents of the
image; two bytes a transaction reach the second byte of a read and of a write,
where a leftover of the first would show; the control bytes cover the three
answers the slave distinguishes; the register contents `$50` become `$a0` or
`$a1` by the one bit the boot may clock in, the only start from which the port
could believe itself addressed.  *rom*: bytes of three bits make every count
carry; the counts take every branch of the borrows, the locations start and end
inside a page, at its edges and one byte across it; a second call meets every
state the first can leave.  The dead cells are the first checked, the edges of
a page, two in one run, and none; `$0220` happens to hold the pattern before the
check in one image.  On the screen, the cursor starts where a line, the screen
and the cell behind it begin and end; three calls let one leave it behind the
screen, one scroll and one draw.  *emulator*: the operands are where a byte's
sign, carry and zero change; an instruction is a step, so a program adds only
what instructions leave to one another: the stack, the flags (both settings of
all of them) and the clock.  The clock counts in units in which a second takes
seven steps of time and a redraw more than two, neither divides the other, so
every carry occurs; two acts of the user with events not yet polled interleave
an exposure with a resize in both orders.  The window sizes have the same
scale, a smaller one, one whose width is too narrow for its height and a larger
one; the four cells are in the first and the last column of the first two rows
of characters.  *keyboard*: the rows of
a scan are alike but for the first and the last, and a key of each is there, the
shift key in the same row as a letter and in another row than the quit key; two
keys of a row make `pollkey` choose; four events press and release a key twice,
or two keys once.  *ps2_kbd*: what the loop keeps between frames is r19, the
matrix and its outputs, so a run without end reaches every order of prefixes,
keys and row changes; the bytes of the five codes are those of the source.
*write_rom*: a sector is treated alike wherever it is, but for being before, at
or after the one being written, so three are enough; the unlock addresses are in
two of them, as in the real chip; three bits distinguish the keys and let a byte
need clearing, setting or both; the jobs end inside a sector, at its end and at
the end of the file.  *gpio_tools*: lines are moved all at once or one by one,
so two of a kind are enough to be in disorder; a page write is half of a
device's page, so that a second one must not disturb the first; two programs
suffice because a killed one leaves only pins and the device's state.

What they show.  `InStep` says that no clock is ever miscounted;
`ImplementsEeprom` that one routine is one step of the device, so the device of
Rom is the emulator's.  `LoadExact`, `SaveExact`, `SavesPrefix`, `InProtocol` and
`CallsReturn` are the correctness of the calls as a program sees them.
`RamTopExact` relates the RAMTOP a program reads to what is broken;
`BootTells` what runs to what is on the cartridge, with every byte of it but the
one under the boot's mark, although memory may hold an old header (until the
program calls the routines itself: what it loads then may be over its own
bytes); `BootDecides` that the
boot ends.
`ImplementsConsole` is the promise of the screen routines to programs: every step
of the machine is a step the console may make, or none (which call made it is
not part of the mapping).

In the emulator, `ClockExact` is an equation between the host's clock and the
cycles executed; `ScreenFresh` bounds how old the picture is; `PictureKept` says
that the cache never remembers what the window does not show, and
`RedrawShowsMemory` that a redraw leaves nothing old.  `FlagsTell` compares
each result with signed and unsigned arithmetic; `ReturnsToCaller` each `rts`
with the `jsr` that left its bytes.

In the keyboard, `OnePressOneReport` and `ScanComplete` say together that the
scan is neither too eager nor too forgetful, for keys that move while it runs;
`ShiftFollows` relates a character to the shift key at the time of the scan;
`NoStuckKey` the matrix to the keys held.  `ImplementsLink` is the controller's
promise; `KeyShown` its claim that it can safely be interrupted.

In the programmers, `SuccessExact` is what `writerom`'s return code promises;
`VerifiedStays` and `OthersKept` hold after every cycle and so also for a run
that is interrupted.  `OthersKept` is as weak as the code makes it: the rest of
a sector that must be erased for the bytes to be written is lost, since only
those bytes are read and written back.  But it must be: one of the bytes to be
written has a 1 where the chip held a 0 before the program began.  `GivesUpOnBadChip` compares the decision
to erase with what the chip can do: on a good chip the first attempt succeeds
from any contents.  `StoreAsAsked` says that whatever the strobes let through is
a byte that was meant for that cell; `NoFight` that no line is driven from two
sides; `DumpTrue` and `DumpExact` that what is printed is what is stored;
`Programmed` that a `writecart` that reports success has written the whole file,
although it cuts the cartridge's power at once, that the pages acknowledged
before a failure or a kill are right, and that no other cell has changed.

The violation runs are disagreements between the sources and their own comments
or documents; they are recorded under `findings`:

1. `loadcart` with a count whose low byte is 0 loads 256 bytes too many
   (`rom.s:302`): its first decrement has no borrow.  The boot's own load of
   `$1400` bytes is such a count, and so may a program's length be.
2. The boot never reads the header's page size nor keeps it in CARTBSZ
   (`rom.s:234`), which `savecart` divides by.
3. `saveblk` with a block whose low byte is 0, as a `CARTBSZ` of 256, sends
   256 bytes too many (`rom.s:809`) and so wraps over the page it just wrote.
   In *cart_save* the page is as large as the block.
4. `cartnext` never gives up (`rom.s:842`): its counter is in `x`, which
   `twisendb` overwrites.  A save whose cartridge is pulled out before it has
   returned does not return.
5. The controller writes each frame bit by bit to the column outputs
   (`ps2kbd-m328.s:172`, marked as to be removed) and puts the columns back only
   after a code that has a key, so after a prefix the computer reads frame bits.
6. `scrollup` of n lines with n mod 4 in {2, 3} copies from behind the screen
   (`rom.s:898`); the ROM itself only scrolls by one line.
7. `showint` jumps past the call of `show` and displays nothing (`rom.s:1128`).

Met without a run of their own: the comment at `ps2kbd-m328.s:248-251` has
extended codes looked up 0x80 further on, the code notes the prefix and never
uses it; no line sets r19 before its first use.  `lsr` keeps its operand's
address in a byte (`hm1000.c:679`), so that `lsr abs` and `lsr abs,x` shift a cell
of the zero page, where `ops.inc:83` lists `abs`; `ldx abs,y` ($be) works on
another address than `ops.inc:202` lists (`hm1000.c:507`).  Both are modelled as
the code has them.

`CHECK_DEADLOCK FALSE`: in Rom a program stops after its calls, in Keyboard and
Emulator the user may leave, in WriteRom and GpioTools the programs return.
TwiBus and Ps2Kbd never stop.

**Fairness.**  TwiBus, Emulator and GpioTools have none; they are checked for
safety only (the emulator's loop has nothing to wait for, and what it promises
is when it shows, not that it does; a killed programmer may never be started
again).  `RomSpec` has weak fairness of the processor's steps (`BootStep`,
`Showing`, `Routine`: nothing in these routines waits, the machine executes the
next instruction) and of `Ready` (a write cycle ends, at most 5 to 10 ms in the
data sheet); so has `XferSpec`.  Calls and `Remove` are not fair: a program need
not call, nobody need pull the cartridge.  `KbSpec` has weak fairness of
`CallPoll` (a program that waits for a character calls again and again) and of
`PollRow`; key events are not fair.  `Ps2Spec` has weak fairness of the
controller and of the keyboard's clock inside a frame; it need never begin one,
and no row change need come.  `CodesTaken` holds although row changes may come
without end, because each is served in one step that leaves the loop where it
was.  `Spec` of WriteRom has weak fairness of its steps: the program waits for
nothing but time.

## 4. Proofs

* `TwiSlaveProofs!FrameCounterCorrect`: `Spec => [](TypeOK /\ FrameCounter)`,
  for an image of any size and arbitrary stores.  `FrameCounter` alone is not
  inductive: it needs the types, and with them the argument is a case
  split over the five actions, on `twi_status` as a pair of nibbles: the low one
  runs 15 down to 7 and back to 15 by `+ 8`; the high one is 0 or 1
  (`TWI_ADDR_SET`), or 15 after the counter wrapped below 0 from idle.
* `TwiSlaveProofs`: `BusInStep`, `BusFrameCounter`, `BusImplementsEeprom` for the
  ROM's routines on the serial port (TwiBus): no clock is miscounted, and one
  routine is one step of the device of Rom.  The invariant `BusInv` is the place
  in each routine: by the store that comes next, what the two lines are, what
  the slave's counter says and how much of the byte it has.  Each store is then
  a step of TwiEeprom, the one that ends the routine's effect, or a stutter.
* `RomProofs!ProtocolFollowed`: `XferSpec => []InProtocol`, by induction
  with one step per action.  `InProtocol` is inductive: the label determines the
  mode of the device, and neither `Ready` nor `Remove` changes the mode.
* `RomProofs!TypeCorrect`: `XferSpec => []XferTypeOK`, from lemmas on the
  byte operators (`Dec`, `Split`, the address bytes).

* `KeyboardProofs`: `KeyboardCorrect` (`NoStuckKey` and the types), `OneReport`,
  `NothingLost`, `ShiftCorrect`, for every size of the matrix.  The invariant
  `KbInv` adds to the types four parts: a key not fresh is down and recorded;
  the history brackets the matrix; the rows above `y` have been scanned, so what
  is recorded there was down and what stayed down is recorded unless a key was
  found; what was recorded before the call and stayed down still is.  None of
  the four is visible in one step, which is why the properties, about the last
  step of a scan, need them.  That a nonempty set of keys has a highest one is
  proved from the well-foundedness of the naturals.
* `Ps2KbdProofs`: `Ps2Implements` (the refinement of Ps2Link), `Ps2KeyShown`,
  `Ps2Types`, for every set of codes and every key table.  The heart of the
  invariant is `Holds`: after n bits the register is those bits above 10 - n
  ones, an equation for each n; `ShiftHolds` carries it over one shift.  From it
  the carry is 0 after the eleventh bit and no earlier, and r16 is the code.
  `RowInv` is the argument of the comment at 229-230.
* `WriteRomProofs`: `RomTypes`, `RomCommands`, `RomSuccess`, `RomKeeps`
  (`VerifiedStays` and `OthersKept`), for every chip, sector size, file, range
  and number of attempts.  The invariant `RomInv` adds to them where the program
  is: `CmdInv` ties the chip's command state to `cycle`, so that the only cycles
  that change contents are the last of a command; `BufferInv` says that the
  buffer is the file from `address` on; `PlaceInv` that `address` is on a sector
  boundary while there is something to write, so that an erase stays clear of
  what was verified; `NeedInv` that where the chip lacks a 1 the file wants,
  the sector had to be erased from the start, because programming a byte never
  clears a bit the file wants: so an erase chosen at any attempt was needed for
  what the chip held at first; `IndexInv` that the byte being written is one of
  the buffer.
* `RomProofs`: `MachineTypes`, `MachineInProtocol` (`XferTypeOK` and
  `InProtocol` from the reset on: the header's words are arguments the loader can
  take) and `RamTopCorrect`, for every byte width, memory layout and set of
  broken cells.  `BootInv` adds to `RamTopExact`: what
  is above the cell being filled has the pattern, and `$0220` has it only when
  it is reached (unless it is broken); what has been checked works, and what has
  not still has the pattern; and that nothing else runs before the check is
  over.  The middle one needs the store of 0 before the fill, and that the
  pattern is not 0.
* `RomProofs`, on the same lemmas: `LoadCorrect`, `SaveCorrect`,
  `SavePrefixCorrect` (`LoadExact`, `SaveExact`, `SavesPrefix`), for every width
  of a byte, device, page size, block size and program within `CallsFit`.  The
  invariant follows a call from byte to byte.  `LoadInv`: while the byte at k is
  under way, the two count bytes stand for n - k - 1, the device's pointer is k
  past the location, and memory is what it was with the first k bytes loaded.
  `SaveInv`: a block starts where the last one ended and, but for the last, ends
  on a block boundary, so that inside it the pointer never leaves a page; in the
  block, the count is what is left of it.  Both rest on what the bytes do to the
  numbers they stand for: the location sent in three bytes is the location
  (`LocationSent`), `dec` with its borrow is a subtraction (`CountDown`).
  `CallsInv` says that a program's calls come only after the boot's.
* `RomProofs!BootCorrect`: `RomSpec => []BootTells`, under `HeadersAssumption`.
  `BootLoadInv` follows the two loads of the boot byte by byte over the numbers
  as the code has them, a borrow left out and an address that wraps included,
  because a header may say anything: a count whose low byte is 0 loads `B` bytes
  more than it says (`Total`), and a cell holds the last of the bytes loaded
  over it (`Cell`).  `CartInv` is what the boot knows at each of its labels of
  the cartridge and of the header in memory.  `HeadersFit` is what the theorem
  asks of a machine: 16 bytes of header are on the cartridge and are loaded, and
  the program a header names ends within memory and spares the ROM's own cells,
  as does the header's load.  Boot assumes it by name (`HeadersAssumption`), so
  TLC checks it of the machine of every run of Rom.  The store of the mark is the
  last step: the byte under it is the only one it may change.
* `EmulatorProofs` (the processor, then the machine): `PictureCorrect`, `RedrawCorrect`,
  `ClockCorrect`, `FlagsCorrect`, `ReturnsCorrect`, `FreshCorrect`, for every
  program, table of instructions, screen, length of a step of time, of a second
  and of a period, and every user.  The invariants are:
  `PictureInv`, that unless an exposure is on its way every cell shows what the
  cache says, at the geometry kept; that unless a resize is on its way this
  geometry is the window's; and that the last of the resizes on their way tells
  the size of the window, so that after any number of them the picture is right.
  `ProcessorInv`, that registers and memory keep their types under every family
  of instructions, that the clock's equation holds, and that the stack still
  holds the address of each call remembered.  A call is forgotten when one of
  its two bytes changes, so only `jsr` has to establish anything.
  `DeadlineInv`, that the next deadline is at most a period after the last
  redraw, or after now if the screen is due.  `FlagsCorrect` needs no invariant
  but the types; it splits each result by its sign and carry.

* `GpioToolsProofs`: `MemoryTypes`, `MemoryAsAsked` (`StoreAsAsked`),
  `MemoryNoFight` (`NoFight`), `MemoryDump` (`DumpTrue`), for every number of
  address and data lines, image, range and order of writerom's calls, and for
  programs killed between any two stores.  `MemInv` is the place: in each
  routine, by the number of its stores done, what the pins are.  Two facts hold
  at every place and so survive a kill.  `Guarded`: while we# may be low, ce#
  keeps its latch high or the cell selected is the one being written or one cut
  off.  `Turned`: nothing drives the data lines unless something drives oe#, of
  the functions now and of the ones that will be restored.  What each of the
  routines of `MemTools` does, as a sequence of stores, is a lemma of its own.
* `CartToolsProofs`, on top of it: `CartridgeProgrammed` (`Programmed`) and
  `CartridgeDump` (`DumpExact`), for every width of a byte, size of the device
  and of its pages, page size, file, range and number of polls, with the
  cartridge pulled out and a program killed between any two stores and started
  again.  Neither property says anything of a wire, and the argument is almost
  all wires.  `CartPlace` is the place: for each label, in which routine and
  after how many of its stores the program is, where the two lines are there,
  and which bits of which byte the device has by then (`Sending`, `Showing`:
  the first j bits of a byte v are `v \div 2 ^ (Width - j)`, and `FirstBits`
  adds one).  From the lines follow the edges the next store makes, hence what
  the device does (`Reaction`); there is a lemma for each routine and one for
  each label.  The rest is what is known of the cells.  `PageRight`: a byte the
  device has collected is one the file wants there, or is left from a run that
  was killed, in which case its programming is not over before anything else is
  sent.  `RomRight`: the cells below `safe` hold the file, those above it the
  file or what they held.  `CartCounts` is what makes `safe` move only after an
  answered poll, and the page collected end where the device's page ends, so
  that its pointer never wraps.  `PrintRight` needs that while bytes are
  printed nothing is left to program.  `Gone`: a cartridge without power is at
  rest.  TLC checked `CartInv` on the instance of *gpio_tools* before the proof.

`CallsFit` is the limits of the routines: the low byte of a load's count is not
0 (`loadcart` does not look for a borrow in its first `dec`), nothing wraps past
the end of memory or of the device, a save is not empty, and blocks are below
256 bytes (`saveblk` decrements `$a9` when `$a8` reaches 0) and divide a page.
*cart_save* is about a block outside them; `MCRom!MCJobsFit` has TLC check that the calls of the others are
within.

Beside this they assume only the named ASSUMEs of the modules (for the emulator
`CpuAssumption`, `EmulatorAssumption` and `JobsAssumption`: what a job starts
with are bytes; for the boot `BootAssumption` and `HeadersAssumption`).  `XferTypeOK` as proved holds for every size of device, page,
block and byte.

Model-checked only: `ImplementsConsole` (planned below); `GivesUpOnBadChip`,
`CallsReturn`, `BootDecides`, `PressFound`, `CodesTaken` and `Ends`, because
liveness under fairness is beyond the prover.

## 5. Not modelled

* The video generators: cycle-counted loops, where what matters is the number of
  cycles between two port writes, not the order of states.
* The applications, the font, the documents and the build.
* In the serial port: the other bits of SERCR, and timing within a routine (the
  nops).  The `msync` of a STOP: it saves what the model already has.
  `cartridge_addr` starts at 0 rather than at random: every path that uses it
  sets it first.  A cartridge that is put in again during a call.
* In the emulator: devices behind I/O addresses as the processor sees them
  (Keyboard and TwiSlave have them), losing the focus, the table of keys that
  `init_xcb` builds, the files it reads.
* In the tools: the parsing of arguments and the opening of files, which come
  before any store; a chip left in the middle of a command by a killed run;
  ranges that wrap past the chip, which the programs leave to their user.

## 6. Plan

What is left, by what it would add:

1. *Proofs*: `ImplementsConsole`, where the `scrollup` by one line is arithmetic
   on pages.
2. *Composition*: Keyboard's matrix and Emulator's events as one module; a
   reset during a transfer.
