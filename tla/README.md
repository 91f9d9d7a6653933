# A verification development for os99 / Cornel

TLA+ models of the parts of this repository that carry its logic, TLC runs that
check them on small instances, and TLAPS proofs of what matters most. Paths
below are relative to the repository; `L` stands for `src/.legacy/core/library`
and `N` for `src/.legacy/core/netboot32/source`.

Contents: [the system](#the-system), [the components](#the-components),
[the block list](#the-block-list), [the heaps](#the-heaps), [text](#text),
[the archive](#the-archive),
[the download and the command host](#the-download-and-the-command-host),
[interrupts](#interrupts), [the boot program of os99](#the-boot-program-of-os99),
[the serial port](#the-serial-port), [the serial link](#the-serial-link),
[the runs](#the-runs), [fairness](#fairness), [the proofs](#the-proofs),
[findings](#findings),
[what each property is sensitive to](#what-each-property-is-sensitive-to),
[the plan](#the-plan), [what is not modelled](#what-is-not-modelled).

## The system

Three programs over common libraries.

* **netboot** (`.legacy/core`): a PXE boot program in two stages. The 16 bit
  stage (`netboot16`) only has a serial driver left. The 32 bit stage
  (`netboot32`) takes over the machine, builds two heaps out of the BIOS memory
  map, downloads a script over TFTP into a ram disk, and executes it; the script
  downloads further files, which are stored in the ram disk, and prints,
  executes other scripts or shows what is there. While it runs, the machine is
  dropped to real mode for every BIOS and PXE call.
* **serbootd** (`.legacy/serbootd`): the server at the other end of a serial
  line, which sends and receives packets framed with a zero byte and encoded
  with COBS.
* **os99** (`src/os99`): the newer boot program (`boot-pxe`), which acquires
  the memory map, chooses memory for an image, downloads it and enters it; a
  loader of DOS executables (`bootwat`); a kernel stub and tools.

How they interact, with what each passes on:

```
 script text ----> interpreter ---> executor ---> commands (netboot.cpp)
                                                    |  fetch / download / execute
        TFTP packets (PXE ROM, real mode) <---------+-----> archive ---> heapfile
             ^      call16: mask, vectors, keys                            |
             |                                                     block_list (two of them)
        interrupts, pic8259, keyboard                                      |
                                                            malloc, new, pmr resources
 serbootd: packet_io <- COBS <- serial line -> (serial.c, interrupt handler and buffer)
```

There is one processor and no threads in the boot programs. What runs
concurrently with the program is interrupts, the hardware and the other end of
a line; what makes it hard otherwise is order: links rewritten one at a time,
offsets computed in several places that must agree, calls that fail half way.
serbootd runs a second thread that echoes the line in one of its modes.

## The components

For each: the state it keeps, what changes it, and what makes it correct.

| component | state | operations | correct when | module |
|---|---|---|---|---|
| `L/memory` block_list | head, tail, headers inside the memory managed | insert_range, allocate, deallocate, reallocate | the list is well formed in every loop, a client's block is kept until it gives it back, no byte is lost or handed out twice, every call returns | `BlockList` |
| `L/memory` buffer | one span and its allocator | resize, move, destruction | the span is deallocated once with its size | - |
| `L/vfsio` archive, archive_view, heapfile | block file and its offset, stack of open entries, offset | open, write, seek, resize, close; find, load | the readers find exactly what was written | `Archive`, `HeapFile` |
| `N/netboot/memory.cpp` heap interface | two block lists | start-up from the memory map; malloc, realloc, free, new, delete, pmr | the list is only asked for what it was built for; nobody is left with a block the list has lost; a program that dies says of what | `Memory` |
| `N/netboot/netboot.cpp` command host | archive, executor, depth of nested scripts | fetch, download, execute, commands | what a script names is what was downloaded; a failed download leaves nothing behind; scripts nest | `NetBoot` |
| `N/pxenv` PXE ROM, DHCP, TFTP | entry point, DHCP reply, connection in the ROM | start; open, read, close, size, download | exactly the file is delivered, packets in order, the connection closed; a reply once got is kept | `PxeStart`, `TftpDownload` |
| `L/script` interpreter, executor | current command, arguments, line, status | line, token, begin, end, execute | each command is run with its own arguments; a value can be written so that it is read as it was; an error ends the script | `ScriptText`, `NetBoot` |
| interrupts, pic8259, keyboard, call16, atwenty | mask, vectors, keys held | IRQ, real-mode call, mask changes | no request at the wrong table; the mask given back; nothing left in service; keys as they are held; the halted machine can be rebooted | `Interrupts` |
| `L/textio` fmt, logger | none but a logger's level | format strings, conversions, the log's line | what is printed can be read back, as wide as asked and on the side asked | `TextFormat` |
| `.legacy/serbootd` packet I/O | line, buffers, timeouts | send, receive | a packet received is a packet sent, once and in order; a fault costs no more than it hits | `SerialLink`, `Cobs` |
| netboot16 `serial.c` | receive buffer and index, UART FIFO | bring-up, interrupt handler, read, wait, send | no byte taken is lost, order kept, a port does not stay unread, a waiting program wakes | `SerialPort` |
| `src/os99/boot-pxe` | memory map, memory chosen, PXE status | acquire, locate, download, hand over | the image lies in free memory and is whole when main returns | `BootPxe` |
| `src/os99/bootwat`, tools, kernel stub, `L/meta`, `L/utils`, `L/cimpl`, `L/hardware` console and clock | none that outlives a call, or none that matters | | | see the last section |

`PROJECT.json` lists the sources of each component and, under `hazards`, what
can go wrong in it that a test would hardly reach.

## The block list

`BlockList` models `L/memory/source/block_list.cpp`. netboot32 keeps two of
these lists (`N/netboot/memory.cpp`), one for memory below and one for memory
above the first megabyte; they share nothing, so one is modelled. By itself it
has any client; the functions that are its clients in the program are in
[`Memory`](#the-heaps).

| code | model |
|---|---|
| `m_head`, `m_tail` | `head`, `tail` |
| `block_type` in memory at address a | `size[a]`, `meta[a]`, `next[a]`, `prev[a]` |
| the null pointer | `Null`, address 0: a range whose first block would be at address 0 gets no block, as in the program when the list is empty |
| `sizeof(block_type)`, 32-bit `size_t` | `Q`, `WordSize` |
| the local variables and position of the running call | `call`, `curr`, `ahead`, `pc` |
| a pass of a `for` or `while` loop | one step |

A header that has been merged away keeps its bytes, as in memory: that is what
decides whether a pointer freed twice is refused (`StalePointer`). Auxiliary
variables record what the code does not keep: `listed`, the blocks reachable
from the head (that they are is `ListIntegrity`, checked and proved, never
assumed); `pool`, the bytes inserted; `live`, `span` and `asked`, what clients
hold and asked for. No guard of a code action reads them but two, which are the
callers' part:

* `RangeIsNew`: a range inserted does not start inside memory already listed,
  and one whose first block is at address zero comes when the list is empty or
  reaches into its first block, which is refused. `insert_range` writes the new
  block's header before it compares anything, and address zero is the null
  pointer. The caller is the loop over the BIOS memory map; what it makes sure of
  is in [`Memory`](#the-heaps).
* `GrowsAlone`: a client grows a block only while no free block lies just in
  front of it. Without it the allocator goes wrong (the run `heap_grow`), so
  everything else is stated for the clients it works for, and `SpecAnyClient`
  has them all.

`HeapSpec` is the abstract specification: bytes donated to a pool and extents
granted, given back, resized and moved, no block or list. `BlockListRefinement`
maps a client's extent to the block it holds; steps of a call before the one
that changes what clients hold are stuttering steps.

## The heaps

`Memory` extends the list with `N/netboot/memory.cpp`: what the program does at
the start with the BIOS's memory map, and every function it allocates with. A
heap is an instance of it: base memory with one range for a map, and `malloc`,
`realloc`, `free`, `new`, `delete` and a memory resource; extended memory with
the map of the BIOS, and `ext_allocate`, `ext_deallocate` and a resource.

| code | model |
|---|---|
| what is left of the memory map | `todo` |
| the function being executed, its pointer and size | `user` |
| the blocks the functions have handed out (auxiliary) | `held` |
| the last line of the log, before `abort` | `said`: its format string and value, how far it has got, and the block its digits are in |
| a pass of a loop of the list | one step of `BlockList`, in `Take`, `Fail`, `GrowInPlace`, `Move` or `Loop`, which add what the function does with the answer |

`MemoryAssumption` asks nothing of the map but that it is one. An entry's base and
size have 64 bits, and `initialize_extended_heap` casts them to a pointer and a
size of 32 (`Extent`): memory above 4 GB becomes a range below, which may lie over
memory the list has. `insert_range` refuses a range that overlaps, as far as it
looks; a range for which `RangeIsNew` does not hold, or that does not end on a
block boundary, is still given to it, and then the model stops (`RangeAstray`,
`user.fn = "astray"`): a header has been written into memory in use, or off the
boundaries. So everything checked and proved of the heaps is for every map up to
such a range. `ApartMapsStayOnCourse` proves that a map has none if its usable
entries, cut to 32 bits, end on block boundaries, none starts inside another and
none but the first is at address zero. As a rule a map of a machine with less
than 4 GB is of that kind. Of one with more, the entry that begins at exactly 4 GB
is cut to begin at zero: its header is written over the real-mode vectors; when it
reaches up to the first block the list has, it is refused, and otherwise its
block, the null pointer, becomes the head of the list. The instance has the first
of these, and an entry that is cut to begin inside a block.
`GrowsAlone` stays as a guard of `Realloc` (finding `heap_grow`).

A function that gives up logs a line and calls `abort`. What the line says of a
size or a pointer is digits, and `put_numeric` puts them together in a string of
129 characters, which is allocated in base memory: so a dying program calls the
list again, and `said` follows it (`"line"`, `"digits"`, `"put"`, `"erase"`, then
`"halted"`).

* Is there no room for the digits, `operator new` gives up, with a line that asks
  for the same room: the lines begin inside each other until the stack is gone
  (`"endless"`, which stands for the recursion). That is how every request for
  base memory ends that cannot be met and is no larger than the digits are, about
  130 bytes; nothing is said of it.
* A pointer of seven or eight digits has no place in `{:#08p}`: `put_numeric`
  asks for a negative number of zeros, `std::string` for more than it can hold,
  and `__throw_length_error` says that instead (`TooWide`, `LengthError`). Every
  block of extended memory from 16 MB on has such a pointer.
* `AbortSaysWhy` says what is left: a program that halts has said the size that it
  could not get, to the byte, or the pointer it could not free, to the last of
  its places, or, of a pointer of more places, `Length error`; it is in
  `"endless"` only if no free block has room for the digits; and a size that was
  said is larger than the digits were.

A size of 1024 or more is printed in several units, and each takes and gives
back the same room; the model takes it once. The lines about the size of both
heaps at the start do too, in a heap that is as yet one block, and leave it as it
was; they are left out. Of a heap in extended memory the digits are taken from the
other heap, so its line either halts or ends `"elsewhere"`.

What the model made plain:

* Since `reallocate` may lose the block before it fails (finding `heap_lost`),
  `realloc` goes on with a pointer to free memory. It does no harm, and why is a
  fact about two scans: `reallocate` fails only after one that found no block
  large enough, the lost block among those it looked at; so the allocation that
  comes next fails as well and stops the program. The copying that follows in
  the code is reached by nobody but a caller with a pointer the list does not
  know: the call gives it a fresh block (and copies into it whatever the pointer
  points to) or, if there is none, stops.
* `realloc` of the null pointer is the one function that returns null for want
  of memory; all others stop the program.
* A shrinking `realloc` leaves two free neighbours apart (hazard
  `block_list.cpp:320`); `calloc` does not look whether its product overflows.

## Text

`TextFormat` models `L/textio`: the parser of format strings with its two
optimisations, the options of an insertion, the conversions of numbers, truth
values, pointers, strings and sizes, `repeat_value`, `format_to`, `format_as`
and ranges with an end, and the line of the log. It has no state; `Memory`
composes it with the line a program dies with, `ScriptText` with numbers that
are read.

| code | model |
|---|---|
| a string | a sequence of characters; words of a message that are never taken apart stand as one |
| `error_type` and what has been put so far | `[text, error]` |
| `format_static`, `format_insert` and the nodes they make | `Nodes`, from each place on |
| `put_numeric`, `put_string` | `Numeric`, `Aligned` |

With `0` among the options, a number already wider than its width asks
`std::string` for a count that has wrapped around, and the program dies of a
`length_error` in the middle of its line (hazard `vconvert.hpp:136`). One such
insertion is the `{:#08p}` of `free`'s last line, with a pointer of seven digits
([the heaps](#the-heaps)). `format_as` makes an empty text of one that cannot be made.

## The archive

`Archive` models the ram disk: `vfsio::archive` over `vfsio::heapfile`, and the
two readers, `archive_view::find`, which the program uses, and `archive::load`.

| code | model |
|---|---|
| `heapfile::m_data_s` | `block`, a sequence of bytes; a byte is a header's first byte (with what the header says), the rest of a header, data, or memory nobody has written |
| the block file's offset (`helper::IFile::m_offset`) | `boffset` |
| `archive::m_stack` | `stack` |
| the archive's own `m_offset` | `offset` |
| `align`, 16 bytes | `AlignUp`, `Align` bytes |
| an exception to the guards: writes on a directory | left out (`InFile`): they overwrite the entries inside, and no caller makes them |

A header occupies a whole number of alignment units, by the padding of
`name_len` in `archive::open`; `HeaderSize` gives each name its own. The
auxiliary `data` and `kids` record what was written, as a tree: what the
readers must find. The model assumes that the heap can grow the block file
(`MaxBlock` bounds it): `heapfile::resize` reports a failure to grow as a
success (hazard `heapfile.cpp:42`).

## The download and the command host

`TftpDownload` models `pxenv::tftp::download`; `NetBoot` extends it with
`netboot.cpp` and the interpreter, so that a script's commands, the downloads
they cause and the ram disk they fill are steps of one behaviour. `HeapFile` has
what writing and resizing do to bytes, for both of them and `Archive`.
`ScriptText` has what a line of a script says, as functions. `PxeStart` puts the
start of the program in front of the host and the DHCP reply under its
downloads: that is the program the runs check.

| code | model |
|---|---|
| `file_size`, `bytes_read`, `last_packet` | `fileSize`, `bytesRead`, `lastPacket` |
| the call the program makes next | `pc` |
| the PXE ROM's connection | `rom`: the version it reads, how much of it and which packet it has handed over |
| the file written to, and its offset | `out`, `offset` |
| the TFTP server | `version`: it may replace a file at any time (`Publish`); an open connection goes on with the version it has |
| scripts being executed and the executor | `frames`: text, line, next argument and last status of each script |
| the call of `fetch` or `download` in progress | `fetching`, with `retry_v` |
| the ram disk | `disk`, its complete entries in order, and `entry`, the open one: what `Archive` shows of it |
| a script's bytes | lines, each a sequence of characters, that `Command` takes apart |
| `trim_comments`, `trim_white_space`, `tokenize`; `emit`, `end`, `done` | `TrimComments`, `TrimWhite`, `Words`; `Emitted`, `NoCommand`, `Done` |
| `bounce_string`, `convert_arg` | `Bounced`, `ConvertArg` |
| `G_PXENV_context`; `s_cached_info`; the server a download asks | `context`; `reply`; `options` |

Any call to the ROM may be refused at any time. A read is answered with the next
packet, with the last one once more or with the one after the next. The
auxiliary `log` is what `echo` and `disp` have printed, `failed` that something
has failed, `steady` that the server left the file alone since its size was
asked for. Left out: memory that runs out, a ROM whose return code and status
word disagree in a call of the download itself, and scripts that contain
themselves (hazard `netboot.cpp:145`), which make the program, and the model,
recurse without end.

A failed download leaves its archive entry open, and the ROM's connection if it
came that far. `NothingLeftOpen` says that this does no harm, and why is a fact
about the whole program: every failure ends its command with a status that is
not zero, the interpreter halts there, `exec` passes the failure on, and so up
to `main`, which aborts.

What the models of text and start made plain:

* A `#` begins a comment inside quotes too, and a quote behind a backslash never
  closes, even where that backslash stands behind one itself: a value with a
  `#` in it or a backslash at its end cannot be written (`Writable`).
* A quote that is never closed and a word that is refused are reported, and the
  command is executed with the rest. A fixed argument that is missing is empty;
  a number may have anything behind it.
* A DHCP reply that does not come, or is cut short, is called fatal
  (`core.cpp:146`), and the program goes on: the server's address is read from
  address zero or from behind the packet. A call that fails by its return code
  alone is taken for a success.

## Interrupts

`Interrupts` models what can happen between any two steps of netboot32's main
program: the two interrupt controllers (`L/hardware/source/ibm/pic8259.cpp`),
the vector table and its handler (`N/netboot/interrupts.cpp`, `.s`), the keyboard
(`N/netboot/keyboard.cpp`, `ibm/kbdctrl.cpp`), the opening of address line 20
(`ibm/atwenty.cpp`) and the real-mode call (`x86/call16.cpp` and its thunk).

| code | model |
|---|---|
| where the main program is: start, A20 sequence, running, in a call, halted | `at` |
| the processor's interrupt flag; the vector table loaded | `flag`, `table` |
| `state.which` of the interrupt being handled | `vector` |
| a controller's offset, mask, requests, in-service register | `offset`, `imr`, `irr`, `isr`, for both controllers at once |
| `G_save_mask`; `save_mask` of `call16_invoke` and of the A20 sequence | `G_save_mask`, `save_mask` |
| `G_keyboard_state` | `keyboard_state`, the scancodes marked as down |
| the keyboard controller's output buffer, its answer still to come | `out`, `reply` |
| bytes the keyboard has not yet handed over; keys the user holds | `typed`, `held` |
| `status` of the A20 sequence | `status` |

Steps taken with the flag clear are one action unless the vector table, the
offsets or the flag change within: so a call is five actions (`CallBegin`,
`ThunkEnter`, `RomStep` and `BiosHandler` any number of times, `ThunkReturn`,
`CallEnd`), and the A20 sequence, which leaves interrupts on, is one action per
access. The mask a call asks for is any mask: `pxenv::call` asks for zero,
`bios.cpp` never sets it. The ROM may change the bits of `RomLines`, and the
flag. The auxiliary `missed` has the keys of which a reader other than
`keyboard::irq` has taken a byte.

External, modelled from how the code uses them: the 8259A (initialising it
clears mask, requests and service; a request that is dropped comes back only
when its line goes down and up), the keyboard controller (one byte at a time,
the line up until it is read), the BIOS's handlers, the devices, the user.

What the model made plain:

* `write_mask` writes no half that is zero. `configure` leaves such a half zero
  all the same, because initialising the controller clears its mask; but a half
  that was zero at the start is not put back after a call has set bits in it
  (in the A20 sequence: after the first controller has been masked whole).
  `MaskKept` says what does hold, for the halves that were not zero, and
  `CtrlAltDelReboots` has to ask that the keyboard's line is not masked.
* Every `configure` drops the requests. A byte that was in the keyboard
  controller's buffer at that moment is never announced again, and, as nothing
  but `keyboard::irq` reads it, no later one is either (`Stuck`).
* In the A20 sequence a byte already in the buffer is read for the output port
  (`ReadOutputPort`). It is then written back, and if it is even, that resets
  the machine (`SendOutputPort`).

* The thunk loads the flags of the context before the stack it calls the ROM on
  (`call16_thunk.asm:78`): an interrupt in between has its frame put over the
  context, from the saved flags down. `ThunkEnter` makes one step of the two: that
  interrupt comes with the ROM's first step, and what its frame overwrites is not
  modelled.

These are consequences of hardware behaviour that the repository says nothing
about, so none of them is a finding; the properties state what holds around
them. `interrupts::finalize` stands behind `std::abort` in `main` and
`keyboard::initialize` is called by nobody: neither is modelled.
`G_keyboard_state` is zero at the start all the same, as static storage.

## The boot program of os99

`BootPxe` models `src/os99/boot-pxe`: `main` and all it calls, from the search
for the ROM's interface to the return to the assembly stub that would enter the
image. Memory is counted in blocks of a packet.

| code | model |
|---|---|
| `s_PXEbang` | `rom`: whether there is an interface |
| `system_info`, its memory map | `info`, `map` |
| the base and size passed to the download, in 32 bits | `target`, modulo `Wrap` |
| the size hint, `total_received_bytes` | `hint`, `total` |
| `status`, and the value a halt shows | `error`, `said` |
| the words between the port table and the signature | `word`, up to `Signature` |

BIOS, ROM and server answer every call in any way their interface allows. The
auxiliary `mem` has the blocks of the image in memory.

* An error value is a category times 2^16 and a code; `main` keeps it in 16
  bits. "Not enough extended memory", "image not found" and a map that does not
  fit have no code: `main` returns as if the image were there. `HandOver` says
  what its caller can rely on all the same: no error *with a code*, and as much
  of the image as `system_info` says there is, which is none after such an error.
* `PXE_download` of a ROM that knows no cached packet answers with the status
  of the call that looked for it, success, with nothing downloaded.
* When the BIOS ends its map by setting the carry flag, `BIOS_query_memmap`
  (`bios.cpp:25`) returns with two words still on the stack: the program is
  `lost`.
* A region's base and size are passed on in 32 bits: above 4 GB the image is
  stored somewhere else. `ImageInRam` says where.

## The serial port

`SerialPort` models `netboot16/source/serial.c` as it is built with
`USE_SERIAL_IRQS`: bringing the ports up, the interrupt handler, reading and
sending. Handler, UARTs, interrupt controller and program interleave; a handler
is not interrupted itself.

| code | model |
|---|---|
| `G_port_buffer`, `G_port_buffer_index` | `buffer`, as long as the index says |
| a UART's receive FIFO, interrupt enable, line control, loop-back | `fifo`, `enabled`, `line`, `looped` |
| what a UART has to report | `events`, `timedOut`, and a FIFO at `Trigger` |
| the controller's edge-triggered requests | `latched`: set when a line goes up, gone when it goes down |
| the handler's loops over ports, reports and bytes | `handler`, one pass a step |
| the program's place; its interrupt flag | `pc`; `intr` |

A byte is the number it arrives with, which makes order and loss visible.
External: UART and controller, as the code uses them, and `cli`, `sti` and
`hlt`, whose header is not in the repository.

* Interrupt 3 polls COM1 and COM3, as interrupt 4 does: COM2 and COM4 are never
  read. `BytesAreTaken` is about ports that are `Served`.
* A port whose buffer was full keeps its request line up and gets no further
  edge; two ports on a line can do the same to each other. `refused` and
  `Served` leave them out.
* A read of everything leaves the index as it is: bytes are read twice, and a
  full buffer stays full. `NothingTakenIsLost` allows a byte to be read again.
* A failed self-test leaves the port in loop-back mode. Characters of fewer
  than 8 bits pass `check_params` and always fail the self-test. `PARITY_SPACE`
  is defined and refused.
* Waiting to send reads the line status, and takes line errors from the handler.
* `SER_set_params` writes the divisor to `base + 0x100` and `base + 0x101`, which
  are no registers of the port: its rate stays what it was. With the bases a BIOS
  gives (`Base`, external) COM2's are COM1's data and interrupt enable registers,
  and COM4's are COM3's (`Struck`): bringing up COM2 at 9600 sends a byte on COM1
  and disables its interrupts; at 300 it leaves the interrupt for received bytes
  on, at 225 the one for a byte sent, and nothing else. So `BytesAreTaken` and
  `WaitEnds` speak of a UART while its interrupt for bytes is enabled. The
  program that brings the ports up is not in the repository; the model does it
  in the order of their numbers, in which this harms the port before.

## The serial link

`SerialLink` models one direction of `.legacy/serbootd/packet_io_win32.cpp`:
`send` with its splitting, timeouts and retries, the line, and a receiver that
calls `recv` again after every error, as `server_main.cpp` does. `Cobs` has the
encoder and the decoder as functions.

| code | model |
|---|---|
| `send_bytes` in progress, how much it has written | `sending`, `written` |
| the pieces of a large packet | `pieces` |
| `recv`'s bytes up to the zero | `temp` |
| signature, 16-bit size, checksum | one byte each; the size modulo `SizeLimit`; a checksum that no other content has |

Bytes on the line carry the number of the packet they belong to, and packets
received that of the zero that ended them (auxiliary), as `hurt` has the packets
that a fault has touched. The two need not agree: if the zero of a packet is lost
and all of the next one but its zero, this ends the frame of the first. So
`InOrderOnce` asks of what was received only that it be, in order, some of what
was sent; `UnhurtArrive`, of packets nothing was done to, that they be received
under their own number.

* A packet's bytes are any numbers, and may be what a frame begins with: a
  signature, a size, the checksum of what follows. A `recv` that times out throws
  away the bytes it has and takes the next one for the beginning of a frame, a
  group's code byte; so the rest of a frame that was cut can be a frame in itself,
  and `recv` returns a packet that nobody sent. The instance has such a packet
  (`<<2, 1, 50, 1>>`), and TLC reaches it. `InOrderOnce` leaves out what is
  `Forged`: a packet received at the end of a frame some fault was done to, whose
  checksum is one of the bytes of a packet given to send up to then. Without a
  fault, or without such a byte, nothing is received that was not sent.

* A write that times out half way is begun again inside its own frame: the
  receiver gets both as one and refuses it. Such a retry loses what it was to
  save.
* A packet of 0x10000 bytes is announced with the size zero and refused, and so
  is every piece of a larger one. A rest that does not fill a piece is cut from
  beyond the packet's end, and the sender is taken to end there (`ended`).
* Pieces are sent without a timeout: with the line full they wait for ever.

## The runs

| run | instance | shows |
|---|---|---|
| `heap` | `Memory` with blocks of 2 bytes in 17 addresses; four memory maps of five ranges: two usable ones that start off a boundary with a hole between them, one that overlaps, one too small, one at address zero, one that is inside another; an entry in three of the maps that is cut to 32 bits (11 here), into a range apart, one over the first block and one inside a block; requests of 0, 3 and 1030 bytes, digits of 3 bytes, pointers of up to 3 places. Insertions with 360 sets of options of four numbers, texts of up to 4 characters, up to 3 repetitions, up to 6 characters of room | every loop leaves a well formed list, clients' blocks are kept, old pointers refused, memcpy stays inside, blocks tile the pool, no header is written into a client's data, frees merge completely, calls return, `HeapSpec` is implemented; nobody is left with a block the list has lost; the line the program dies with says of what; what is printed can be read back |
| `heap_grow` | the list alone in the same memory, with every client | a finding: growing a block behind a free neighbour |
| `heap_lost` | the same, with clients that grow a block alone | a finding: a failed growth loses the block |
| `archive` | 14 bytes, alignment 2, two names with headers of 2 and 4 bytes, one directory level, writes of 1 and 3 bytes, resizes and seeks to 0, 1 and 3, the archive destroyed at any time | both readers find what was written, `close` measures the right entry, no entry disturbs an earlier one |
| `tftp` | packets of 2 bytes with numbers modulo 4; five files: one that grows and then shrinks, one of a whole number of packets, an empty one, one with more packets than numbers, one that is missing | what is written is a prefix of one version; success means all of it and a closed connection; downloads end |
| `netboot` | `PxeStart` with every structure of the ROM and every answer about the DHCP reply; packets of 2 lines modulo 8; a script that executes two others, one of which executes the other; they and the file they show are replaced on the server, also by scripts that fail in each way there is | nothing is searched or stored after a failed download, the ram disk holds what was served, output is that of the scripts in order up to the first failure, the program ends, a whole DHCP reply is kept; values of up to 3 characters of 7, and numbers from -20 to 20, are read as they were written |
| `interrupts` | the keyboard, the cascade and one line behind it (12); both control keys, one alt key, the delete key; nothing, the line or the cascade masked at the start; three presses or releases, one real-mode call | vectors and table agree whenever an interrupt can be taken, the mask is kept, nothing stays in service, keys are marked as held unless bytes went elsewhere, and the halted program reboots on the three keys |
| `bootpxe` | maps of 2 entries out of 5 regions, one of them above what 32 bits hold (3 bits here); files of 1, 2, 3 and 5 blocks; two status words; a signature 5 words on | the image lies in usable extended memory only, main returns with the whole image or none and without an error code, the program ends |
| `serial_port` | COM1 and COM2, buffers and FIFOs of 2 bytes, reads of 1 and 2; three signals at COM1 and one at COM2; three settings: one that comes up, whose divisor at COM2 leaves COM1's interrupt for bytes enabled, one that cannot be tested, whose divisor disables it, and one that is refused | bytes taken are not lost or overtaken, a served port with its interrupt enabled is read, a waiting program wakes, waiting to send ends |
| `serial_link` | three packets, or pieces, of eight contents, one with the frame of another in it; groups of up to 3 bytes, a limit of 5 bytes a packet, 2 bytes on the line; two faults | what is received was sent, in order and once, but for a frame inside a packet; every packet no fault was done to arrives, unchanged and in its place |
| `netboot_start` | the shipped script | a finding: `start` is no command |
| `netboot_path` | a script that shows the file the shipped one starts | a finding: a name with a slash is not found again |

**Why these bounds are enough.** In `heap` the ranges hold up to seven minimal
blocks in two runs that are not adjacent: split and merge happen at the head, in
the middle and at the tail, merges take several blocks at once, the scan passes
the hole, the probe sums blocks across it, reallocate shrinks, grows in place,
moves and fails, each with and without a remainder to split. Two request sizes
give blocks of two sizes, which is what fragmentation needs. In `archive` 14
bytes hold two files, or a directory with a file and a sibling behind it, or an
empty one; lengths 1 and 3 leave a unit of alignment incomplete, 0 is the
boundary of `resize`, and the two header sizes make wrong offsets visible. In
`tftp` the file `long` has more packets than there are numbers in both its
versions, `exact` ends with a full packet and `changing` has a version longer
and one shorter than the size asked for. In `netboot` three levels of scripts
are the least at which a script is in the middle, with one to return to and one
to return from; a script comes out of the ram disk (the second `leaf`) as well
as off the server; failures by an unknown command, a missing file, a path, an
empty script and a refused call happen at every level. In `interrupts` three
presses are what the reset takes; both control keys are there because they share
a scancode, the one with a prefix byte; line 12 needs an end of interrupt on
both controllers; one call and one A20 sequence are all there is between two
states of the same kind, and the events may fall anywhere in them. The timer
(line 0) is left out of the instance: its handler does nothing that line 12's
does not do. In `heap` the four maps insert ranges in address order, from above,
with one that is refused and one that joins two, and each may end early; an entry
is cut to a range that is taken, refused or led astray by; the functions come
after the map, with the list in every state it can be in then. Pointers of one and
two digits are on both sides of the two places that `PointerPlaces` leaves once
the prefix has its own, the digits' 3 bytes are the larger of the requests that
can be served, and 1030 bytes take two units to print. In `bootpxe` two entries
are what "the first that fits" takes, with a third query to overflow; sizes lie
on both sides of every region, so the file fits, does not, or has become larger
or smaller between two questions. In `serial_port` three bytes fill a buffer of
two and leave one in the UART; the trigger is the FIFO's size, so one byte waits
for the timeout and two do not. In `serial_link` one fault can cut a frame and
the next one its neighbour, and a third packet follows them; the eight contents
end a full group, put a zero behind one, have the size that is sent as zero, are
split with and without a rest, and have a frame among their bytes that a receiver
meets after a timeout.

## Fairness

`FairSpec` of `BlockList` has `WF_vars(CallInProgress)`: a call, once made, is
executed by its caller until it returns. There is one processor; an interrupt
handler returns before the call continues, and none of them allocates. Nothing
is assumed about clients: they need not make another call. `CallReturns` says
that then every call does return, whatever loops it goes through. `Archive` has
no loop that waits for anything, and states no liveness. `FairMemSpec` has
`WF(Serve)`, the same for the functions of `Memory`: a function that has been
called goes on; nothing is assumed of its callers, of the memory map's reading,
or of a program that has aborted.

`TftpSpec` has `WF(DownloadStep)`, `Spec` of `NetBoot` `WF(ProgramStep)`,
`StartSpec` `WF(StartProgram)` and `Spec` of `BootPxe` `WF(Next)`: the one
program runs, and every call to the ROM returns, with an answer or a refusal
(the ROM has timeouts of its own). Nothing is assumed about the server, nor that
any call is ever answered: `DownloadEnds` and `ProgramEnds` hold because every
pass of the loop reads something or gives up, and because scripts are finite.
The runs of these modules do not check for deadlock: the program ends in `main`.
`Ends` of `BootPxe` rests on the signature that the program stores behind the
ports' table and on packets that are not empty.

`Spec` of `Interrupts` has `WF` of `HandOver` (the keyboard's controller hands a
byte over once its buffer is empty), of `Accept` (the processor takes a request
while its flag is set) and of `Isr` (a handler returns): hardware, and code
without a loop. Nothing is assumed about the main program: `CtrlAltDelReboots`
is about the program that has halted, in `abort`'s loop.

`SerialPort` has `WF` of the UARTs' own clocks (`CharacterTimeout`, `Shift`), of
the handler and the main program, which share the processor, and of the timer
(`Tick`); and `SF` of `Accept`: the program clears and sets the interrupt flag in
turn as it waits, so that a request is not enabled all the time, but it is each
time round, and the processor takes it then. Nothing is assumed about bytes
arriving or the program asking. `SerialLink` states no fairness: either end may
stop for good, and its properties are about what has been received.

## The proofs

`BlockListProofs` proves, for every `Q`, `Top`, `Ranges` and `Requests` that
`BlockListAssumption` admits, that the inductive invariant `IInv` holds in every
reachable state (`Safety`), and from it `TypeCorrect`,
`WellFormed` (`ListIntegrity`), `ClientsKept` (`LiveBlocksKept`),
`StaleRefused` (`OnlyLiveIsAllocated`) and `CopyStaysInside` (`CopyFits`).

The assumption says that sizes are below the word size with room for rounding
up (so that `RoundUp` does not wrap) and that ranges end on a block boundary,
as the BIOS's base memory does; `align_range` moves a range's start only.

The invariants that the runs check are not inductive by themselves. `IInv` adds
what each loop relies on:

* `InsertInv`: the block being inserted is not in the list, does not start
  inside it, and lies behind every block the scan has passed. This is why the
  one overlap test at the end of the scan is enough on the left; on the right
  it is the test itself that matters.
* `MergeInv`: the block being merged around is in the list.
* `ScanInv`: a request in progress is a whole number of blocks with room for
  the header, and no client call can be made before it ends.
* `GrowInv`: the block being reallocated is marked free exactly from the
  headroom check to the recheck, stays the first block of the free run it is
  merged with, and is smaller than what is needed wherever another is sought.

One lemma per action shows that it preserves `IInv`; before them stand the
facts about the operators: what `RoundUp` and `AlignRange` return, that a split
and a merge keep a well formed list well formed, and what neighbours in address
order are.

Its second half proves from `IInv` what the list does with the bytes:

* `NoByteIsLost` (`PoolTiled`). A split covers what the block covered
  (`SplitCovers`); so does a merge, because blocks that can be merged touch
  (`MergeCovers`); every other action leaves the sizes of listed blocks alone.
* `HeadersSparePayloads` (`NoStomp`). A header is written where a block is
  listed, at the start of a new range, which is inside no block, or at the rest
  of a split; the last is inside a block, but past what its client is left with
  (`SplitSpares`).
* `ReturnsMerged` (`MergedOnReturn`) needs one fact more, `MergedInv`: looking
  back, the block that grows has no free neighbour ahead. Merging it into the
  one before keeps that (`MergedIsLast`), and its new place is found through the
  links (`BehindIsBack`).
* `ListImplementsHeap` (`ImplementsHeap`) and `NobodyShares`
  (`ClientsNeverShare`): one lemma per abstract step (`GrantedIs`, `ReleasedIs`,
  `ResizedExtentIs`, `MovedIs`, `DonatedIs`). What makes the bytes of a block
  free ones of the pool is that the blocks tile it and own their bytes alone
  (`TileIsFree`).

`NetBootProofs` proves the same of the download and the command host, for every set of files, packet size, limit of packet numbers and set of
scripts that `TftpAssumption` and `NetBootAssumption` admit (files are sequences
of bytes, packets and packet numbers are not degenerate, lines are text, scripts
name files):
`TftpTypeCorrect`, `PrefixDelivered` (`DeliversPrefix`), `SuccessIsWhole`
(`WholeOnSuccess`), `NetTypeCorrect`, `NothingIsLeftOpen` (`NothingLeftOpen`),
`RamDiskIsServed` (`RamDiskServed`), `FailureStops` (`StopsAtFailure`),
`ScriptsRun` (`RunsTheScripts`) and `WhatIsWrittenIsRead` (`ReadsWhatIsWritten`).
It begins with what resizing and writing return.

* `TftpInv` says that program and ROM agree on how far they are (`Position`) and
  what is known of the file at each point: `Measured` before the open, `Opened`
  after it, `Finished` at the end of the loop. The lemma it turns on is
  `OnlyNextIsTaken`: a packet numbered one more than the last is the next one
  (it needs a limit of at least two), so that `WrittenGrows` applies.
* `NetInv` adds to it what the interpreter guarantees. `Left` allows something
  open only while the program is `Stopping`, in a script whose last status is
  not zero or in `main` after the first script; `Halted` says the same of a
  failure. `ReturnKeeps` is where it is passed on: the status of a script that
  failed makes the command that executed it fail, and so the script that
  command is in. `InText` and `Depth` are what makes this well defined: every
  script but the innermost is in the middle of a line.

* `ScriptsRun` is about what the scripts print. Its hypotheses are that the
  scripts of some set, the first script in it, execute only each other and do
  not change on the server while they run (`ScriptsStay`; files that are only
  shown or loaded may change), and that there is no circle of scripts executing
  each other (`NoCircle`, by a rank that goes down at every `exec`). The second
  is needed for there to be an output at all. The first is narrower than the run
  `netboot`, in which scripts change too, each into one that fails.
  `RunInv` adds to `NetInv` where the output is (`OnTheWay`): what has been
  printed is what each open script has printed up to the line and argument it is
  at, outermost first (`Below`), then what the innermost has (`AtLines` between
  commands, `InCommand` inside one). `Steady` says why a script that is found is
  the one the output is defined by: what the ram disk holds of it was stored while
  the server left it alone. There is one lemma per action; `EchoRuns`,
  `NextFileRuns` and `ReturnRuns` are those in which the output grows, a script
  is entered and a script is left. What the scripts give is a recursive function
  over names, and that it is one is proved from the rank (`OutIs`); the words of a
  line are proved to be a sequence of text, so that what `echo` prints is one.

* `EchoesAsWritten` is the half of `ReadsWhatIsWritten` that is about strings
  (`ReadAsWritten`), for every set of values of any characters: two values in
  quotes behind `echo`, each quote, backslash and control character in them
  behind a backslash, reach it as they were. It says that four pieces of code
  agree: the search for the comment, the trimming, the splitter, which judges a
  quote by the one character before it, and `bounce_string`. What is written of
  a value is `Sealed`: it has no hash, every quote in it is behind a backslash,
  and its last character is no backslash (`WrittenSealed`); this is why it is one
  word (`QuotedWord`), and where the two values that are not `Writable` fail.
  `BouncedBack` goes through the word from its end: from the place where the
  escape of a character begins, what is read is that character and the rest
  of the value.

* `PrintedReadsBack` is the other half (`ReadAsPrinted`), for every set of
  numbers and every type with ends that an `int` holds: what the log prints of a
  number is read as that number by a command that asks for one, and as whether it
  is zero by one that asks for a truth value. The proof follows the text through
  both libraries: the format string has one insertion (`AskedIs`,
  `AskedOptimized`, `OptionsPlain`), which puts what the argument is converted to
  (`AskedFor`); the digits that repeated division gives are a numeral with that
  value (`InDecimal`, `NumbersAdd`); the longest numeral in front of a word is the
  number printed, whatever follows that is no digit (`NumeralIs`,
  `ReadsPositive`, `ReadsNegative`); and no printed number is mistaken for a word
  like `true` (`TruthRead`). Digits, value and nodes are recursive functions and
  folds; that they exist and unfold is shown from the least argument at which
  they could fail. With `EchoesAsWritten` it gives `WhatIsWrittenIsRead`, the
  invariant `ReadsWhatIsWritten` of the run `netboot`.

The lemmas about single steps of the download are stated once and used for both
specifications. `StartedHost` carries the host's theorems over
to the program with its start: a step of `PxeStart` is one of `NetBoot`, or of a
download that does not learn its file's size, or none. `ReplyKept` is
`WholeReplyKept`.

`MemoryProofs` proves of `Memory`, for every sequence of entries, that every step
is a step of `BlockList`'s `Spec` or leaves the list as it is (`UsesTheList`,
`ListUsed`), so that everything proved of the list holds of both heaps
(`HeapsWellFormed` and `HeapsKeepBytes` are instances), and `NothingIsLost`
(`NothingLostSilently`). That is up to a range which the list is not made for, at
which the model stops. That there is none in a map whose usable entries lie apart
is `ApartMapsStayOnCourse`; its invariant `OnCourse` says that the part of every
entry still to come starts outside the pool and the block being inserted.

The invariant `MemInv` adds to `IInv`:

* `MapInv` and `UserInv`: what is left of the map, and which call of the list is
  made for which function with which size.
* `AbortInv`: once a line is begun the list is called for its digits and nothing
  else, and no function goes on.
* `ScanPassed`: a scan has passed no block that is large enough. At its end that
  is `NoRoom`, and `HeldInv` says that a block which a caller has and the list
  has not exists only while a `realloc` has seen that there is no room. The
  allocation that follows scans a list in which, by `NoRoom`, nothing fits: so
  it does not end with a block, and in particular not with the caller's own.

`BootPxeProofs` proves of `BootPxe`, for every set of regions, sizes and status
words that `BootAssumption` admits, its type invariant and `ImageInRam`
(`ImageStaysInRam`) and `HandOver` (`HandedOverWhole`), from `BootInv`, which
adds `Stored`: while packets come the target is a usable entry of the map, and
what has been counted is in memory, inside it.

`InterruptsProofs` proves of `Interrupts`, for every set of lines, keys, masks
found at the start and lines the ROM touches that `InterruptsAssumption` admits,
`IntTypeCorrect`, `VectorsAlwaysAgree` (`VectorsAgree`), `MaskIsKept`
(`MaskKept`), `EveryServiceEnds` (`ServiceEnds`) and `KeysMarkedAsHeld`
(`KeysAsHeld`). The first four follow from `IntInv`: `Where` says
what the main program's place says of flag, table and offsets; `MaskSomewhere`
that each half of the mask that was not zero is in the controllers or in
`save_mask`, whichever the place says; `StatusRead` that there is something to
write back when it is written. `ServiceEnds` is inductive given `Where`: the
flag is clear while an interrupt is handled, so at most one is in service, and
it is the one whose number `ISR_dispatch` gets.

`KeysMarkedAsHeld` is about the handler and the bytes it has not read yet: the
keys marked, with what waits in the keyboard's and the controller's buffers
(`Pending`), are the keys held. `DownBy` says it without a fold: of each key the
last byte counts. Pressing a key puts one byte at the end of `Pending`
(`DownLast`), the handler takes one from its front and marks it (`DownFirst`,
`MarkMeans`), so that both sides of the equation change alike. It needs
`NoPort`: the byte the handler reads when it looks at the output port (which is
never data of a key) is no code that a key has sent.

`SerialPortProofs` proves of `SerialPort`, for every set of ports, baud rates,
FIFO and buffer sizes that `SerialAssumption` admits, its type invariant
(`TypeCorrect`) and `NothingTakenIsLost` (`Safety`). Bytes are numbered as they
come. `Ordered` is what makes the property inductive: what is in the UART is
younger than everything taken from it, what was taken was read or is in the
buffer, and the buffer is in order; a handler that puts its byte anywhere but at
the end, or drops one, breaks one of these at once and the property only when
the program reads. `Registers`, `Serving` and `Place` say that the handler and
the program only look at ports there are, and the program only at such as came
up.

`ArchiveProofs` proves of `Archive`, for every set of names and header sizes,
alignment and bound that `ArchiveAssumption` admits, `TypeCorrect`,
`FileIsLast` (`OpenFileIsLast`), `NothingEarlierChanges` (`EarlierBytesKept`),
`FindIsRight` (`FindsWhatWasWritten`) and `LoadIsRight` (`LoadsWhatWasWritten`).
Its invariant `IInv` describes the layout that the readers rely on:

* `Row`: entries lie one behind the other, each at an aligned place, its header
  saying how far it goes; `Entry` says which bytes make an entry. `TreeInv` has
  a row of the closed entries of the block file, one of those of the open
  directory, and a row inside every closed directory, down to where a path of
  two names can lead.
* `StackInv` and `FileInv`: open entries lie behind each other with a directory
  around each, and the innermost file's bytes are the last of the block file.
  This is why nothing in front of the innermost header is touched, so that a
  row stays one (`EntryKept`, `PlacesKept`).
* `HeadersInv`: no header claims more than the block file may be. `load` walks
  the block file itself and stops where an entry does not fit in it.

The readers are loops, in the model recursive functions over offsets. That such
a function exists (`JumpWalk`: each turn stops or goes to a later offset) and what
it returns on a row are proved without an induction rule, which the installed
provers cannot use: from the least place where it would be otherwise
(`LeastNat`).

`SerialLinkProofs` proves of `Cobs`, for every packet and every size of a group,
that the encoding has one mark, at its end, and that what is in front of it
decodes to the packet (`RoundTrip`). The encoder goes forward, the decoder is
recursive from the back: what it has read from the place of byte i on is shown
for every i from the last to the first (`ReadsFrom`), and both recursions are
unfolded from the least or greatest place that they could fail at (`Upward`,
`Downward`). From this it proves of `SerialLink`, for every set of packets,
limits and number of faults that `LinkAssumption` admits, `UnhurtAllArrive`
(`UnhurtArrive`). Its invariant `LinkInv`, which TLC checked on the instance of
`serial_link` first, looks at what `recv` has and what is on the line as one
stream:

* `Arrives`: a packet that nothing was done to has come, or as much of its frame
  as has been written stands in the stream without a gap, at its beginning or
  behind a mark (`OnTheWay`).
* `Clear`: where the next packet is not hurt the stream ends with a mark; so
  the first byte of a frame follows a mark, and a send that gives up after
  having written something must hurt the next one.
* `Order` and `Unended`: marks divide packets, and one that is not written to
  its end has none; `NoMarkYet`: `recv` has none either; `LastWritten`: the last
  byte on the line is the one written last. A lost mark then stands in front of
  the packet that `Behind` names.

Four theorems give the ranking arguments behind the liveness properties, for
every value of the constants: a natural number that every step of a call, a
download or the program lowers until it is over.

* `CallsRunDown` (`BlockListProofs`): every step of a call of the list leaves
  fewer that it can take, at most nine times the memory's size; so neither the
  scans and merges nor the way of `reallocate` from loop to loop go round. The
  invariant `IInv` is needed for it: the links of a well formed list go one way.
* `FunctionsRunDown` (`MemoryProofs`): the same of the C and C++ functions, in
  which a `realloc` makes several calls of the list, and of the memory map.
* `DownloadRunsDown` (`NetBootProofs`): of a download, because packet numbers
  come to an end, whatever the ROM hands over and the server publishes.
* `ProgramRunsDown` (`BootPxeProofs`): the boot program's parts come one behind
  the other, and in each loop something is counted.

That the number does reach its end needs fairness, and stays with the runs.

Model-checked only: `InOrderOnce`, as a frame put together from parts of others
is told from a packet by its checksum alone, and a checksum over any bytes has
collisions (that of the model has none on the instance; a frame inside a packet is
no collision, and is left out of the property); `PrintsAsAsked` and
`AbortSaysWhy`, which are about text put together and taken apart with widths,
prefixes, padding and other bases, by folds and by `SelectSeq`, which the prover
cannot unfold; and, as liveness under
fairness is beyond the prover, `CallReturns`, `DownloadEnds`, `ProgramEnds`,
`Ends`, `BytesAreTaken`, `WaitEnds` and `CtrlAltDelReboots`.

## Findings

* **Growing a block behind a free neighbour** (`heap_grow`,
  `GrownBlockKeepsItsHeader`). `reallocate` deallocates the block in place to
  collect the free blocks ahead, relying on "that should merge nodes ahead
  while not stomping on this node" (`block_list.cpp:330`). `deallocate` also
  merges backwards. If the block in front is free and adjacent, the block
  becomes part of it, and `reallocate` goes on with a header that is no longer
  in the list: it marks it allocated and returns a pointer into memory the list
  holds as free.
* **A failed growth loses the block** (`heap_lost`, `FailedGrowthKeepsBlock`).
  `probe_available` sums free blocks that follow in the list whether or not
  they are adjacent. The block is deallocated, turns out not to have grown
  enough, no other block is found, and `reallocate` returns the null pointer:
  to the caller (`N/netboot/memory.cpp:149`), which goes on to copy from the
  old block and to free it, that means that the block is still its own.
* **The shipped script uses a command there is not** (`netboot_start`,
  `CommandsKnown`). `start` is defined (`N/netboot/netboot/netboot.hpp:36`) and
  has a handler, but is not among the commands the executor is instantiated for
  (line 46). `.legacy/core/config/netboot32.cmd` ends with
  `start "os99/os99core.exe"`, which is answered with "Invalid command." and
  aborts the program.
* **A downloaded path is not found** (`netboot_path`, `DownloadIsFound`).
  `download` stores a file in one entry under its whole name;
  `archive_view::find` looks for its first part as a directory. A file named by
  a path, as in the shipped script, is downloaded and then reported missing.

## What each property is sensitive to

For each property checked, a definition with one plausible mistake in it
stands in the module before the correct one, under the same name with `_Slip`.
With the mistake in place of the definition, TLC finds the property violated
under the run's own bounds. No specification uses these definitions.

| property | mistake | what goes wrong |
|---|---|---|
| heap `TypeOK` | `AlignRange_Slip` | alignment moves the start of a range and not its size: the last block ends outside memory |
| `ListIntegrity` | `MergeBlocks_Slip` | the block after a merged pair points back at the block that is gone |
| `LiveBlocksKept` | `RoundUp_Slip` | rounding up forgets the header |
| `OnlyLiveIsAllocated` | `Copy_Slip` | the moved block's old place stays allocated |
| `CopyFits` | `Fits_Slip` | payload compared with a size that has the header in it |
| `PoolTiled` | `TrySplitBlock_Slip` | the remainder of a split is not linked |
| `NoStomp`, `ImplementsHeap` | `Mergeable_Slip` | the status of one of the two blocks is not looked at |
| `MergedOnReturn` | `MergeAhead_Slip` | one block ahead is merged instead of all |
| `CallReturns` | `AllocNext_Slip` | the scan stops at a taken block |
| `NothingLostSilently` | `Fail_Slip` (in `Memory`) | the program goes on without memory |
| `AbortSaysWhy` | `Zeros_Slip` (in `TextFormat`) | the prefix is not counted among the places to fill |
| `PrintsAsAsked` | `Aligned_Slip` | padding on the wrong side |
| `FindsWhatWasWritten` | `Close_Slip` | the size in the header leaves the header out |
| `LoadsWhatWasWritten` | `WriteAt_Slip` (in `HeapFile`) | writing cuts off what lies behind |
| `OpenFileIsLast` | `Write_Slip` | a write forgets where its entry's data begin |
| `EarlierBytesKept` | `AlignUp_Slip` | alignment rounds down |
| `DeliversPrefix`, `RamDiskServed` | `ReadPacket_Slip` | packet numbers are not looked at |
| `WholeOnSuccess` | `TftpClose_Slip` | the connection is left open |
| `DownloadEnds`, `ProgramEnds` | `ReadRefused_Slip` | a refused read starts the download again |
| `NothingLeftOpen`, `StopsAtFailure` | `EndCommand_Slip` | a script goes on after a failed command |
| `RunsTheScripts` | `Return_Slip` | `exec` ignores the status of the script |
| `ReadsWhatIsWritten` | `Closing_Slip` (in `ScriptText`) | a quote behind a backslash closes |
| `WholeReplyKept` | `Cached_Slip` (in `PxeStart`) | the ROM is asked again, and what was kept is overwritten |
| `VectorsAgree` | `ThunkReturn_Slip` | the thunk returns without `cli` |
| `MaskKept` | `CallBegin_Slip` | the mask is saved after it has been changed |
| `ServiceEnds` | `EndOfInterrupt_Slip` | the second controller's interrupt is ended on it alone |
| `KeysAsHeld` | `Mark_Slip` | the release of a key is looked up under its own code |
| `CtrlAltDelReboots` | `Crash_Slip` | a crash halts with interrupts off |
| `ImageInRam` | `Fits_Slip` (in `BootPxe`) | the type of an entry is not looked at |
| `HandOver` | `Judge_Slip` | an error does not halt the program |
| bootpxe `Ends` | `ProbeSerial_Slip` | the search starts before the signature is stored |
| `NothingTakenIsLost` | `ReadBytes_Slip` (in `SerialPort`) | the byte is read before there is room for it |
| `BytesAreTaken` | `Poll_Slip` | one report is served in an interrupt |
| `WaitEnds` | `Sti_Slip` | the program halts with interrupts off |
| `InOrderOnce` | `Accepted_Slip` (in `SerialLink`) | the checksum is not looked at |
| `UnhurtArrive` | `Write_Slip` (in `Cobs`) | a full group gets the code of a shorter one |

## The plan

Done, in this order: `BlockList` with `HeapSpec`, its refinement and its proofs;
`Archive`; `TftpDownload`; `NetBoot` and its proofs; `Interrupts` and its proofs;
`BootPxe` and its proofs; `SerialPort`; `Cobs` and `SerialLink`; `ScriptText`;
`Memory` over the list and its proofs; `TextFormat`; `PxeStart`; the second half
of `BlockListProofs`; `SerialPortProofs`; `ArchiveProofs`; the keyboard's part of
`InterruptsProofs`; `SerialLinkProofs`; the words of a script's line in
`NetBootProofs`; the ranking arguments; printed numbers read again.

Left: what is printed with options, for every number, width and base
(`NumbersReadBack` in `MC_Memory`); a heap that refuses growth under `Archive` and `NetBoot`;
`heapfile::resize` would have to be modelled with a write past its end.

## What is not modelled

* Compile-time lists and strings, C library stand-ins and generic helpers
  (`L/meta`, `L/cimpl`, `N/netboot_libc`, `L/utils`): no state and no control.
* Of `L/textio`: output to files, characters of more than a byte, the null
  string, and floating point, which is not implemented.
* `L/memory/source/memory/buffer.hpp`: one span with an owner, released in its
  destructor.
* `L/vfsio` cstdfile (C stdio), ELF loader (one pass over segments, called by
  nobody) and FAT structures (declarations).
* `L/hardware` console and real-time clock: a cursor, and reads of ports.
* The command line and error types of serbootd, and its echo mode;
  `src/os99/bootwat`, `src/os99/tools` and the kernel stub: sequential
  conversions.
* The build of `serial.c` without interrupts.
* Build files, emulator images and configuration (bochs, qemu), and assembly
  stubs, except where a model needs what they do (then it says so).
