# displayif in TLA+

TLA+ models of displayif, the MicroPython display bus and framebuffer modules,
with the TLC configurations that check them and TLAPS proofs about them.
Source paths below are relative to the repository (`src/ports/...`,
`docs/...`); `PROJECT.json` gives the lines each definition models.

## 1. Inventory

displayif is a set of MicroPython C modules. Each owns one piece of hardware,
or an SDL window, and is driven by the VM thread; interrupts, DMA engines, a
second core or SDL's timer thread run beside it. One dispatcher ties them
together at soft reset.

| Component | State | Operations | What makes it correct | Module |
|---|---|---|---|---|
| `dotclockframebuffer`, ESP32 | two panel buffers, `draw_index`, the dirty box, the frame counter, `s_host` | constructor, `fill_rect`, `blit`, `refresh`, `framebuffers`, `deinit`, frame-complete ISR | nothing writes the buffer on the glass; the two buffers hold one picture; `refresh` returns | `DotClockPresent`, `FrameDisplay` |
| `fb_fill.h` | none | bounds check, 16-bit and packed fills | only the rectangle's pixels change | `DotClockPresent` (16-bit) |
| `usdl2` timers (desktop) | entry list, slot table, `pending` flags, the scheduler queue | `SDL_AddTimer`, `SDL_RemoveTimer`, dispatch, trampoline, teardown | table and list agree; SDL never ticks a freed entry; no timer falls silent | `UsdlTimers` |
| `usdl2` bindings | SDL handles | one call each | wrappers | - |
| `qspibus`, ESP32 | two DMA buffers, in-flight count, semaphore, staged command, transaction flag | `send`, `write_command`, `write_data`, `reset`, `deinit`, transfer-done ISR | the count is exact; no buffer is refilled or freed under its transfer; methods return | `QspiTransfer` |
| soft-reset dispatcher | the function table | register, unregister, walk, wrapped `gc_sweep_all` and `mp_deinit` | all hardware is quiet when the heap is swept | `SoftReset` |
| GPIO i80 bus (SAMD51) | pin masks, lookup tables, `last` | constructor, `send`, `reset`, `deinit` | the panel latches the bytes sent; other pins of the ports are left alone | `GpioI80` |
| i80 bus, ESP32 | a bus and an IO handle, `s_host` | constructor, `send`, `reset`, `deinit` | each handle is deleted once, after its last use | `EspI80` |
| i80 bus, RP2 | a PIO machine and a DMA channel | the same | what is claimed is given back, and only that | `PioI80` |
| i80 bus, i.MX RT | FlexIO, the object its CS and D/C callbacks act for | the same | the panel addressed gets the bytes, the other none | `FlexioI80` |
| `spibus` | the SPI object, a one-byte buffer, CS and D/C pins | `send` with a D/C pin or 9-bit, `reset`, `deinit` | the panel gets nine bits per byte, in order | `SpiBus` |
| `i2cbus` | the I2C object, a vstr | `send`, `reset`, `deinit` | one transaction per call, behind one control byte | `I2cBus` |
| `mipidsi`, ESP32 | bus, LDO, panel, IO and frame buffer in one `s_host` | `Bus`, `Display`, `fill_rect`, `blit`, `refresh`, `deinit` | no handle outlives what it points at; what was refreshed is in memory | `EspMipidsi` |
| `mipidsi`, i.MX RT1176 | one DSI host, one LCDIFv2, a frame buffer | as above | scanout stops before its buffer goes | `Rt1176Dsi` |
| `dotclockframebuffer`, i.MX RT | eLCDIF, a frame buffer | as on ESP32, single-buffered | scanout stops before its buffer goes | `Elcdif` |
| `rgbmatrix` | draw buffer, `pm_started`, one core shared through `s_pm_host` | constructor, `fill_rect`, `refresh`, `deinit`, soft reset | only the live object touches the core; `refresh` returns | `RgbMatrix` |
| Protomatter core | screen buffers, row and plane counters, `swapBuffers`, the converters and blast functions | init, begin, convert, swap, stop, resume, row handler ISR | rows and planes light in place for their time; the swap falls between frames; the panel shifts in the pixels | `Protomatter`, `Hub75` |
| `picodvi`, RP2040 | four queues, two cores, DMA channels, a framebuffer | constructor, `deinit`, scan-line callback, core 1 | a line is sent in its place; no buffer is lost; no core waits for ever | `PicoDvi` |
| libdvi | timing state machine, DMA control blocks | line interrupt, encoder loop | the three lanes stay in step | `DviTiming`, `PicoDvi` |
| `picodvi`, RP2350 | HSTX command list, DMA channels | constructor, `deinit`, restart ISR | the list paints its frame; channels are given back | `PicoDviHstx` |
| pins, helpers, stubs, build files | none | | | - |

How they interact:

* **Calls.** Every module registers its teardown with
  `displayif_register_soft_reset()` and runs the same teardown from `deinit()`,
  from the next constructor, and from soft reset.
* **Shared state.** Handles are mirrored in static storage (`s_host`, `s_hw`,
  `s_pm_host`, `s_active`) because the object that holds them may have been
  collected when they are released. A second constructor makes the first object
  *stale*: it still exists and its methods still run.
* **Callbacks.** The frame-complete ISR counts frames for `refresh()`; the
  transfer-done ISR gives the semaphore `qspibus` takes; Protomatter's row
  handler takes the swap `refresh()` requested; libdvi's line interrupt fills the
  queue its encoder empties; SDL's timer thread queues dispatches the VM drains.
* **Programs.** LVGL takes the two panel buffers through `framebuffers()` and
  swaps its own copy of "the buffer to paint" once per flush.

What is hard: interrupts between two statements of a method; timeouts followed
by the late answer; state that names a thing by index (a timer slot, a buffer
index) after the thing has changed; driver calls that fail half way; resets at
any moment; objects made stale by a second constructor. `PROJECT.json` lists
these as hazards at the lines where they bite, each with the properties that
watch it or the reason none does.

## 2. Plan

Done, in this order:

1. `FrameDisplay` and `DotClockPresent`, the abstract display and the present
   path that implements it; `UsdlTimers`, `QspiTransfer`, `SoftReset`, `GpioI80`.
2. `Protomatter`, extended by `RgbMatrix`; `DviTiming`, extended by `PicoDvi`.
3. The ports that differ in what a stale object does: `EspMipidsi`, `EspI80`,
   `PioI80`, `Elcdif`, `Rt1176Dsi`, `PicoDviHstx`, composed by `MCHosts` under one
   statement, `ReleasedOnce`.
4. The drivers whose CPU moves the wires: `SpiBus`, `I2cBus`, `FlexioI80`,
   `Hub75`, composed with `GpioI80` by `MCWires` under one statement, `Delivered`.
5. Proofs about the present path, the timers, the soft reset, the QSPI pipeline,
   `rgbmatrix` with its core, `picodvi` on the RP2040 with libdvi, the six ports
   that `MCHosts` composes, the command list of one of them, and the five drivers
   of `MCWires`.

Left:

* the asynchronous transfers of the ESP32 i80 bus (the SDK queues the caller's
  buffer) and the PIO transfers of the RP2 bus;
* the packed fills that only `picodvi` uses, and the init-sequence parsers.

## 3. Modules

### FrameDisplay

What a double-buffered display promises: one canvas, one picture on the glass.
The glass changes only when a present takes effect, to exactly the canvas, and a
program back from a present finds the canvas as it left it, which is what the
copy after the flip is for. `DotClockPresent` implements it.

### DotClockPresent (`src/ports/esp32/mod_dotclockframebuffer.c`, `src/include/displayif/fb_fill.h`)

| TLA+ | code |
|---|---|
| `fbs`, `draw_index`, `dirty`, `box` | the fields of those names (`box` is `dirty_x0` ... `dirty_y1`) |
| `frame_seen` | `s_dcfb_frame_count != start_frames`: the counter matters only through this comparison |
| `Blit`, `FillRect` | the whole methods, bounds check to `mark_dirty()` |
| `RefreshBegin`, `DrawBitmap` / `DrawRefused`, `Timeout` / `Advance` | `refresh()`, cut where an interrupt makes a difference: reading the counter, the driver call, the wait |
| `BounceWrap` | the driver adopts the buffer it was handed, then the frame-complete ISR |
| `Framebuffers`, `GuiSwapped`, `GuiPaint` | `framebuffers()`, and LVGL, which paints the buffer it believes is next |

`Faults` says what the driver may do that `refresh()` hopes it does not.
The frame boundary is free to fall anywhere else. The copy in `refresh()` is one
step with the flip: nothing else of the program runs in between, and the
scanout's part is whether the copy's target is on the glass, which
`NeverPaintsLive` looks at.

### UsdlTimers (`src/ports/desktop/usdl2/usdl2_mp.c`, timers)

The timer thread's trampoline is cut at its critical sections (`Enter`,
`TestAndSet`, `Schedule`, `GiveUp`); the VM thread's operations are one action
each, except that an entry is linked (`Link`) after `SDL_AddTimer()` has armed it,
with ticks in between. Entries are addresses that `malloc()` hands out again, so an
address may be freed and reused while a trampoline still holds it; what the
trampoline then reads is arbitrary. A queued dispatch is a slot number, as in the
code. A timer of interval 0 ticks once (`once`, `Return`): its trampoline returns 0,
SDL ends it, `SDL_RemoveTimer()` then returns false, and `RemoveTimer` is not
possible any more: the entry and its slot stay taken until the teardown.

The field's comment (lines 756-757) says `pending` is set "while a dispatch is
queued/running"; `usdl2_timer_dispatch()` clears it before it calls the Python
callback (line 817), and the model does as the code does.

### QspiTransfer (`src/ports/esp32/mod_qspibus.c`)

The position inside a method is `pc`, with one action per statement that
another actor can come between. `TxParam` and `TxColor` may fail; a wait ends by
taking the semaphore or by the one-second timeout. `TransDone` is the DMA
finishing and its interrupt. The DMA buffers hold chunk numbers, so that a
buffer refilled too early shows on `panel` as a wrong number. `desynced`
remembers that the code has forgotten transfers that were still in flight:
after that its count is known to be wrong, and the properties say what holds
until then.

### SoftReset (`src/ports/common/soft_reset.c`, `src/ports/esp32/soft_reset_gc_sweep.c`)

The table with its gap-free array semantics, and the walk over a snapshot one
entry at a time. A module is its teardown function, with the constructor's order
taken from the ESP32 `dotclockframebuffer`: tear down, register, allocate, set
up, fill the mirror. `Transient` modules unregister themselves from their own
teardown, which the dispatcher's comment provides for and no module in the tree
does yet.

### Protomatter (`src/ports/common/rgbmatrix/protomatter/core.c`)

| TLA+ | code |
|---|---|
| `pm` | `Protomatter_core`: `row`, `plane`, `activeBuffer`, `swapBuffers`, the period, and which of its pointers are null, held or freed |
| `screen` | `screenData`, a picture per buffer and row pair |
| `panel` | outside the code: the shift registers, the latches, the address pins, whether the LEDs are lit |
| `Begin`, `Stopped`, `Deallocated`, `Resumed` | `_PM_begin()`, `_PM_stop()`, `_PM_deallocate()`, `_PM_resume()` |
| `RowHandler` | the whole of `_PM_row_handler()`: latch, address, counters, swap, timer period, burst |

The handler first latches the plane it shifted in last time and moves the
address lines with the counters it advanced last time; `RowsInPlace` relates the
row the panel *shows* to the pins and to the time the LEDs stay lit. Address
lines are toggled (`TOGGLE` ports) or written line by line.

### RgbMatrix and MCRgbMatrix (`src/ports/common/rgbmatrix/mod_rgbmatrix.c`, `rgbmatrix_pm.c` of the ports)

`matrix` holds each object's `pm_started` and what it has drawn; `started` is
`s_pm_host`; `pc` is what the VM thread is in, with a conversion cut at every row
pair (`ConvertRow`) and the two spins of the core (`SpinDone` for
`_PM_swapbuffer_maybe()`, `StopWaits` for `_PM_stop()`) as waits. `MakeRaises`
lists the four ways the constructor can raise and leaves in the core what each
leaves. `owner`, `frame` and `faults` are history, read by no action.

### Hub75 (`core.c` converters and blast functions, `arch/samd51.h`, `arch/esp32-s3.h`, the scan of `mod_rgbmatrix.c`)

The other half of Protomatter: what one burst puts into the panel. `Element` is
what `convert_byte()`, `convert_word()` and `convert_long()` leave in the screen
buffer for one pixel - the colour bits, or the *difference* to the pixel before
where the port has a toggle register. `PutData`, `RaiseClock`, `LowerClock` and
`EndBurst` are the stores of the blast functions; `chain` is the shift register
of the panels, fed at every rising clock edge. `LatchesPicture` compares it, at
the latch, with the brightness bits of the picture (`Wanted`, which turns
upside-down tiles and orders the chain on its own, independently of the loops).

### DviTiming and PicoDvi (`src/ports/rp2/picodvi/libdvi/dvi_timing.c`, `dvi.c`, `src/ports/rp2/picodvi_rp2040.c`)

`DviTiming` is `timing_state` and the DMA control blocks of a line on the three
lanes; `LanesInStep` adds up the words each lane sends. In `PicoDvi`

| TLA+ | code |
|---|---|
| `colourValid`, `colourFree`, `tmdsValid`, `tmdsFree` | the four queues of `dvi_inst` |
| `releaseNext`, `release`, `late` | `tmds_buf_release_next`, `tmds_buf_release`, `late_scanline_ctr` |
| `DmaIrq` | `dvi_dma_irq_handler()` with the scan-line callback it makes |
| `TakeRow`, `TakeBuffer`, `Encode`, `GiveRow` | core 1's main loop |
| `Construct`, `QueueFirst`, `QueueSecond`, `Ready`, `Deinit`, `HwStop`, `SoftReset` | core 0 |
| `loaded`, `sent` | the list the DMA takes next, and the line that is on the wire |

`dvi_init()` makes buffers of its own beside those the constructor tags; the
word behind them, which the encoder reads as a tag, is one of `TrailingWords`.

### EspMipidsi, EspI80, PioI80, Elcdif, Rt1176Dsi, PicoDviHstx, composed by MCHosts

One module per port (`src/ports/esp32/mod_mipidsi.c`, `mod_i80bus.c`;
`src/ports/rp2/mod_i80bus.c`, `picodvi_rp2350.c`;
`src/ports/mimxrt/mod_dotclockframebuffer_elcdif.c`, `mod_mipidsi.c` with
`mimxrt1176_dsi_display.c`), all of one shape:

| TLA+ | code |
|---|---|
| `host` | the static mirror: handles, or a live flag |
| `live` | external: what the SDK, the heap or the chip has handed out and not got back |
| `objs` | the program's objects, each with the fields that `deinit()` and the methods look at |
| `call` | the steps the current call still has to do, in the code's order |
| `scan` | external: what the panel's DMA reads |

A constructor, `deinit()` or the soft-reset hook is a list of steps, so that the
DMA, and a failing SDK call, can come between any two of them. `Touched`,
`RowLines` and `MsyncRows` are the cache-line arithmetic of `refresh()`.
`PicoDviHstx` builds the DMA command list of a frame and `FrameListRight` reads it
back, line by line.

`ReleasedOnce` is an account of what is acquired, per port:

* ESP32-P4: the handles allocated are exactly those of the mirror, what was made on
  a bus never outlives it, and a usable `Bus` names the mirror's.
* both i80 buses: what is acquired is what the mirror (or a running constructor)
  names, and what has been *lost* by a constructor that raised in between; a usable
  object names what the mirror does; no lost bus, and no claim of other code, is
  ever released.
* RP2350: the channels claimed are the mirror's two, other code's, and the one that
  a failing constructor loses, no two the same; the blocks are the objects', one each.
* both RT ports: the frame buffer of an object that is not deinited is allocated and
  is no other's.

`lost` marks what the code has leaked (section 7), so that the rest of the account
stays exact. `ReleasedOnce` says nothing of the handles a *stale* object still has:
they are gone, and nothing in the code tells the object.

`ScanRight` says that what the DMA reads is allocated and, on the ESP32-P4, that
memory has what was drawn. The methods of a Display look at the object's own fields
only, and so does `Drawable`: a stale one draws into a freed buffer. `scan.stray`
remembers that the program has used a handle that was gone, and `ScanRight` promises
nothing after that. On the RP2350 it excepts one line, `scan.px.again`: in a scaled
mode the command channel, stopped second, may enable the pixel channel again after
that one's own stop. What a constructor does over a pixel transfer left running so
is followed only by this flag.

### SpiBus, I2cBus, FlexioI80, composed with GpioI80 and Hub75 by MCWires

`sending` is the call, `bus` the object and its pins, `panel` what the panel has
taken (external): over SPI, `reg` is the number its shift register holds and
`count` how many bits that is. `Messages` are the arguments tried. `SpiBus` packs nine-bit units through one carry byte as
`write_9bit()` does and lets other code reconfigure a shared SPI (`OtherInit`);
`I2cBus` collects a transaction argument by argument; `FlexioI80` drives a panel
per object, with or without a chip select, and runs the callbacks for the object
`s_callback_bus` names.
`Raise` is an exception in the middle of a call.

### GpioI80 and MCGpioI80 (`src/ports/common/i80bus/gpio_bitbang.c`, `src/ports/samd/mod_i80bus.c`)

A byte is the set of its one bits and a port is a set of pins. Each store to an
OUTSET or OUTCLR register is a step, with other code free to drive the ports'
other pins in between (`OtherPin`). The panel latches the data pins at the
rising edge of WR.

## 4. Runs

| Run | What it asks | Bounds |
|---|---|---|
| `dotclock_prompt` | With boundaries where `refresh()` expects them: types, no write to the buffer on the glass, and the implementation of `FrameDisplay` with its liveness | 2 x 2 pixels, two colours, no GUI |
| `dotclock_faults` | With every fault and a GUI: `BuffersAgree`, and `refresh()` returns | as above |
| `dotclock_early_wrap` | **violated**: `NeverPaintsLive` when a boundary comes before `draw_bitmap()` | as above |
| `usdl_timers` | table and list agree, armed entries are allocated, pending means queued, no timer falls silent | 3 addresses, 2 slots, queue of 2 |
| `usdl_slot_reuse` | **violated**: at most one queued dispatch per timer | as above |
| `qspi_transfer` | exact count, chunks in order, buffers outlive transfers, methods return | 2 buffers, payloads up to 3 chunks, 5 chunks per object |
| `soft_reset` | table well formed, everything mirrored is registered, quiet at the sweep | 3 modules, table of 3, two self-unregistering |
| `soft_reset_orphan` | **violated**: no allocated panel without a mirror, when set-up fails | as above |
| `rgbmatrix` | rows in place, binary weights, whole frames, the host flag, the owner's `refresh()` returns | 2 objects, one picture and the dark one, 4 row pairs, 2 planes, periods of 1 to 6 ticks |
| `rgbmatrix_deinit` | **violated**: `deinit()` releases no block twice | as above |
| `wires` | types, other pins kept, and for each of five drivers the panel gets what was sent | below |
| `hosts` | for each of seven ports: what is acquired is accounted for and released once, scanned memory allocated (both as section 3 words them); on the RP2040 the queues, on the RP2350 the command list | below |

`wires` chooses one driver at the start. GPIO: 2 data bits, 3-pin ports, 4
layouts, a command and up to 2 data bytes. SPI: data of 0, 1, 8 or 9 bytes, with
and without D/C and CS pins. I2C and FlexIO: 0 to 3 bytes, the FlexIO's
bulk threshold lowered to 3. HUB75: five boards, three access widths, 2 to 4
pixels by 1 to 3 tiles, straight and serpentine, 1, 3, 5 and 6 planes, 2 row
pairs.

`hosts` likewise. Two objects each (two buses and two displays on the mipidsi
ports), two handles, heap blocks or channels. Objects, buses and handles are
interchangeable (symmetry): no action orders or names them, and the run has no
liveness property. RP2040: 1+2+2 blanking and 6 active lines
of 16 pixels, 3 rows shown twice, 2 tagged and 2 other buffers, queues of 5, an
encoder up to 3 rows late. RP2350: 1+1+1+4 lines, depths of 1 and 16 bits, other
code holding no channel or all but one. ESP32-P4: rows of 3 bytes on cache lines
of 4.

`rgbmatrix` and `rgbmatrix_deinit` do not check deadlock: `refresh()` of an
object whose core another one stopped spins for ever in the code too
(core.c:877), and the model's thread stops there. All other runs do.

Why these bounds are enough. A box of two corners on a 2 x 2 panel already has
rectangles that touch, overlap, enclose and miss each other, and pixels inside
the union box that no rectangle covered. Three addresses over two slots let a
slot be reused by a timer at the same address and at another, with a dispatch of
the old one still queued and the queue full. Payloads of three chunks over two
buffers make every buffer be reused inside a payload, and five chunks let a
second payload start behind an unfinished one. Three modules in a table of three
give the first, a middle and the last place. Two data bits give a sequential, a
reversed, and two split layouts, and bytes that repeat and bytes that do not.
Four row pairs make an address change of one line and of two, and a wrap to 0;
periods up to 6 reach the lower and the upper clamp. Nine bytes of nine bits pass
the point where the carry byte is full and one more. Widths of 2 to 4 by 1 to 3
tiles give chains that are and are not a multiple of the unrolled chunk. Two
objects are the live one and a stale one, and a third adds only a second stale
one. Queues of 5 are the smallest that hold the four buffers plus one row, and
three rows of lateness is what they tolerate: with `MaxLate` 4 `IrqServes` is
violated, so the assumption is tight (the code's queues of 8 tolerate 6).

Findings. The four violated runs each quote what the repository says and show
what the code does:

* `refresh()` reads the frame counter before it calls `draw_bitmap()` (line 641);
  a boundary in between ends the wait early and the program paints the visible
  buffer.
* a dispatch of a removed timer runs the callback of the timer that got its slot
  (`usdl2_mp.c`:847).
* a failure between allocating the panel and filling the mirror
  (`mod_dotclockframebuffer.c`:410) orphans the panel.
* a constructor that finds its pins on two ports leaves freed pointers in the
  shared core, and the `deinit()` of the object before it frees them again
  (core.c:485).

## 5. Fairness

* `DotClockPresent`: `refresh()`, once called, runs on, and its wait ends by the
  frame or by the deadline (`esp_timer_get_time()` always passes it). Frame
  boundaries are owed only when `"late_wrap"` is not among the faults. Painting
  and presenting are never owed.
* `UsdlTimers`: a trampoline that has been entered finishes, `usdl2_add_timer()`
  returns, and so does `SDL_Quit()` once the timer thread is out. The program pumps
  events time and again between its other calls (strong fairness of `Dispatch`, which
  is not possible within a call): without that no callback would ever run. Ticks are
  not owed.
* `QspiTransfer`: a method that is not waiting runs on, and a wait ends within
  its timeout. Completions are **not** owed, so the liveness properties hold even
  for a peripheral that has died.
* `SoftReset`, like the runs `wires` and `hosts`, states safety only.
* `RgbMatrix`: the refresh timer keeps interrupting while it runs, and a
  conversion, the request for a swap and the end of a spin happen once they can.
  Only weak fairness is needed: nothing the program does disables the interrupt
  while it spins.

## 6. Proofs

`DotClockPresent_proofs` (TLAPS), for every panel size and colour set:

* `Typing`: `TypeOK`, so the dirty box never leaves the panel. Inductive as it
  stands; the case that needs work is painting (`Marked` of a rectangle that
  passed `RectOk` stays within the panel).
* `Agreement`: `BuffersAgree`, for every value of `Faults` and `UseGui`. It is
  inductive together with the type invariant: a paint grows the box over all it
  changed (`MarkedCovers`), a flip copies exactly the box and then clears it, and
  a timeout or a refused buffer touches neither.
* `GuiStaysInStep`: if `"late_wrap"` is not among the faults, `GuiInStep`. The
  strengthening `InStep` says that inside `refresh()` the GUI is on the
  buffer being presented.
* `NoTearing`: `NeverPaintsLive`, when `Faults` is empty, with or without a GUI.
  The strengthening `Phase` ties the driver's two indices to the position
  in `refresh()`: outside it the buffer on the glass is never the paint target;
  between `draw_bitmap()` and the boundary the driver holds `presented` and the
  scanout the other buffer.
* `Refinement`: the safety part of the implementation of `FrameDisplay`, when
  `Faults` is empty and no GUI paints, from `Phase` and `BuffersAgree`.

`Wires_proofs` (TLAPS). About `GpioI80`, for every number of data pins, every
layout over ports of any size, and every length of a write:

* `Typing`: `TypeOK`, together with `LayoutInv` (the layout the constructor
  accepted never changes, and its table gives each bit its own pin) and `InByte`
  (inside the loop there is a byte, so nothing is read past the end).
* `OtherPinsUntouched`: `OtherPinsKept`. A store through OUTSET or OUTCLR changes
  only pins of the bus.
* `BytesLatched`: `PanelGetsBytes`. It is far from inductive: that a byte equal to
  `last` may be strobed without touching the pins is right only because the pins
  still show `last`. The strengthening `BytesInv` has nine parts: how many bytes
  are latched at each point of the loop (`Progress`), that those are the right ones
  (`Prefix`), the levels of CS, WR and D/C (`Control`, `CommandFirst`), that a
  write ends only where D/C changes (`NextDiffers`), and, port by port, what the
  pins show: `LastShown`, `Placed` (ports already done), `Raised` (the port
  between its two stores) and `Shown` (at the strobe).

About `WiresSpec`, the composition, for every number of objects and every set of
calls, of any length and any bytes:

* `BusesDeliver`: `Delivered`. `WiresInv` has `BytesInv` and an invariant for each of
  the other four drivers.
* SPI, `SpiKept`. `SpiBusKept`: an object that is open is the one whose bytes the
  SPI clocks out, or its send() sets the SPI up again. `SpiStream` says what is
  under way between two units: `bits` bits of the last unit are still to go out,
  the panel's shift register holds the `9 - bits` others, and the carry byte is
  the unit's value. That a packed byte continues such a unit and begins the next
  is integer arithmetic: `Carry` (the bits left over and those in the register
  make the unit) and `Leading` (the D/C bit and the high bits of a byte are its
  leading bits as a nine-bit number), over the nine powers of two (`PowerFacts`).
  `SpiPacks` puts them together, a packed byte at a time, and `SpiPads` shows that
  the padding of a write is dropped at the rise of CS.
* I2C, `I2cKept`: the transmit buffer holds the control byte and the arguments
  collected, and goes out as a whole.
* FlexIO, `FxKept`: during a call the callbacks are for the object whose call it
  is, its panel is the one selected, and has what was sent before this step;
  another panel has nothing unless it has no chip select or a call that raised left
  it selected.
* HUB75, `HubKept`, for every width, chain, depth and picture that
  `SettingAssumption` allows. `HubShown` is what the panel is to be shown with an
  element of the burst: nothing with the padding, the converter's colours of one
  LED after that. The chain holds that of every element before this one
  (`HubChain`), and the pins that of this one or, where the port toggles, of the
  last one with the clock (`HubPins`): toggling the difference then gives the next
  (`HubToggled`, for elements of one byte and of more). The burst has an element for
  every LED and the padding, no less and no more (`HubElements`, by `RoundedUp`).
  What remains is about one pixel. `HubResult`: the index arithmetic of tiles and
  upside-down rows leads to the pixel whose LED it is (`TileRows`, `DivMod`).
  `HubColours`: the bit of the 565 word tested for a plane is that bit of the
  brightness, the copied highest bit included (`RedBits`, `GreenBits`, `BlueBits`);
  the provers know no powers, so these go by `Twos` and `Shifts`, that shifting by
  `a` and then `b` is shifting by `a + b`. `HubRight` puts the three together.

`UsdlTimers_proofs` (TLAPS), for every number of entries and slots and every
depth of the scheduler queue:

* `Typing`: `TypeOK`; `TableAndList`: `SlotsMatchList`, inductive because a slot is
  handed out only when no entry has it; `NoFreedEntryTicks`: `ArmedAllocated`.
* `NoTimerSwallowed`: `PendingMeansQueued`, from `SlotsMatchList`: an entry that is
  marked has its slot in the queue, or the trampoline still has to put it there or
  to take the mark back, and the slot of a queued dispatch leads to that entry.

`SoftReset_proofs` (TLAPS), for every set of modules that fits the table:

* `Typing`: `TypeOK`, and `TableWellFormed`: `RegistryOK`, also while a teardown
  unregisters itself from the walk.
* `MirroredFound`: `MirroredIsRegistered`. The strengthening is a chain: a module
  that owns hardware has its flag set (`MirrorTold`), and one with its flag set is
  in the table (`FlagTold`). That registration is never turned away is a pigeonhole
  argument (`RoomLeft`) on the table, which holds each module once.
* `Quiet`: `QuietAtSweep` when `Faults` is empty: a set-up that fails half way may
  orphan a panel, as the run `soft_reset_orphan` shows. The strengthening
  `TornDown` follows the walk: what still owns hardware lies ahead of it in the
  snapshot.

`QspiTransfer_proofs` (TLAPS), for every number of DMA buffers and every length of
a payload:

* `Typing`: `TypeOK`, with `Room` for the cap on the chunks of a life.
* `Counted` and `FreedBuffersAreIdle`: `InflightExact` and
  `BuffersOutliveTransfers`, one supporting the other: the buffers are freed only
  when the count is 0 and the semaphore is empty.
* `InOrder`: `PanelInOrder`. The strengthening `Ring` says which buffers are queued:
  those just behind the active one, oldest first, holding the chunks the panel is
  due. `InflightExact` bounds their number, so the active one is never among them.

`RgbMatrix_proofs` (TLAPS), for every number of objects, address lines and planes
and every time a burst takes:

* `Typing`: `TypeOK`, with the record types of the core, the panel and the thread.
* `FlagTells`: `HostKnows`, from `HostRuns`, which says the same in the middle of
  calls: who may have the timer running without the flag, and that a swap is
  pending only while a call waits for it.
* `Placed`: `RowsInPlace`. `Follows` relates the three counters of different age:
  the burst is of the current row and plane, the address lines show `prevRow`, and
  `prevRow` has caught up once plane 0 is past, but for the dark burst after a start.
  That toggling the differing lines gives the next row is set algebra (`Addressed`).
* `Weighed`: `BinaryWeights`, as the plane 0 time changes only into plane 0.
* `FramesWhole`: `WholeFrames`. `Whole`: the buffer on show is of one picture, and
  the other one too unless a conversion is filling it, which takes no swap.

`PicoDvi_proofs` (TLAPS), for every timing, every number of TMDS buffers, every
depth of the queues and every bound on lateness:

* `Typing`: `TypeOK`. The strengthening `Kept` has what every other proof needs:
  what one core does tells what the other can be doing (`Phases`), as many buffers
  are about as were made (`Tally`), and two rows are queued ahead of the beam, the
  late ones not counted (`Paced`). That no queue overflows follows from the tally.
* `LanesStayInStep`: `LanesInStep`, by adding up the words of the control blocks of
  every list the DMA may be given (`TwoBlocks`, `FourBlocks`, `Shapes`).
* `ScansWhatIsAllocated`: `ScansAllocated`. The hardware is stopped before any
  framebuffer is given up.
* `InterruptServes`: `IrqServes`, if `MaxLate + 2 <= QCap`: by `Paced` a queue then
  has room for the row the callback adds.
* `ConservesBuffers`: `BuffersConserved`, by counting how often each buffer is in
  each queue (`CountAppend`, `CountTail`, `CountConcat`, `CountSplit`).
* `LinesInPlace`: `LineInPlace`, if every row is on two lines (`Doubled`). The
  strengthening lists the rows on their way, from those encoded to those not begun
  (`FlowAt`): each is the one after the row before it, and the one behind the
  late ones is the row the beam will need next. That no buffer is written under
  the beam comes from `ConservesBuffers`.

`Hosts_proofs` (TLAPS), for every number of objects, buses, heap blocks, driver
handles and DMA channels, about the specification `HostsSpec` of `MCHosts`:

* `PortsReleaseOnce`: `ReleasedOnce`; `PortsScanRight`: `ScanRight`. `HostsKept` is
  the conjunction of an inductive invariant for each port: `PioKept`, `ElcdifKept`,
  `DsiKept`, `I80Kept`, `MipiKept`, `HxKept`. None of the properties is inductive,
  since they say nothing of what happens in the middle of a call. The
  strengthenings say, for each list of steps that may be left to do, what has been
  stopped, what is held by the call alone, and what the mirror still names; and
  who owns what, so that a release through the mirror of an object that is stale
  by now takes nothing from another one. The exceptions of the two properties are
  those named in section 3.
* The lists of steps are finite, so each port's step lemma is one case for each
  stage of each call. For the RP2350 the lemmas `LowestOf` and `LowestTwo` show
  that the two channels claimed are free and different; for the ESP32-P4 the
  cache-line arithmetic is part of the proof that memory holds what was refreshed.
* `PortsListRight`: `FrameListRight`, for every timing, output width and set of
  depths. `HxPainted`: what the DMA is given is the whole list of the mode, also
  while other steps of a constructor run. That this list is right is about a
  recursive function, the entries of the lines laid so far, and so an induction:
  the lemma `Least` (a set of numbers that has a member has a least one, from the
  well-foundedness of the order) gives, for a list that is wrong, the first line at
  which it is, and `HxLineCommands` that this line appends what it should.
  `HxRows` is the rest: lines of a row that is shown several times, and words
  enough for its pixels.
* The display sizes that `MCHosts` gives `EspMipidsi` stay fixed; the proofs are for
  every value of its own constants.

The assumptions are those the modules name: `SizeAssumption`, `ColorAssumption`,
`FaultsAssumption` and `GuiAssumption` of the present path, the layout and length
assumptions of `GpioI80`, of `MCWires` that calls are pairs of byte strings
(`MessagesAssumption`) that NULL is no object, call or state (`NullAssumption`), and that panels are
of some size, settings are `Handled` and pixels are words of 16 bits
(`SettingAssumption`), `NullAssumption` and `SizeAssumption` of `UsdlTimers`,
`ModuleAssumption`, `MaxAssumption` and `CapacityAssumption` of `SoftReset`,
`CountAssumption` and `BoundAssumption` of `QspiTransfer`, and `PanelAssumption`,
`TimeAssumption` and `RowPairsAssumption` of `Protomatter`. The last one, that the
number of row pairs is a natural number above 1, follows from the first; it is
stated because the provers know no powers. `PicoDvi` and `DviTiming` assume their
sizes (`SizesAssumption`: a height above 2, since the constructor queues two rows
before the first line) and `NoneAssumption`; `MCHosts` assumes that NULL is no
address (`NullAssumption`) and that different kinds of object have different names
and the channels are a finite set of numbers (`NamesAssumption`), and that the
RP2350 shows at least one line of whole bytes (`HstxAssumption`). TLC checks all of
them on every run.

Only model-checked is all liveness (`RefreshReturns`, `TimersKeepTicking`,
`MethodsReturn`, `OwnerReturns`, the fairness of `FrameDisplay`), which is out of the provers' reach. Every invariant that a passing
run checks is a theorem.

## 7. Remarks on the code

What the models had to leave out or exclude, and what their properties have to
except, because the code does something unexpected there. None is a finding of a
run: `soft_reset_orphan` shows one leak of the kind, and stands for the others.

Leaks and stale objects, against docs/idempotent-lifecycle.md, which promises
"complete, idempotent teardown" (line 14) and that "After teardown, a subsequent
constructor must behave like first boot" (line 149). The models do as the code does,
and `ReleasedOnce` and `ScanRight` except exactly this:

* ESP32 i80 bus: when the panel IO cannot be made, the bus made before it
  (esp32/mod_i80bus.c:190-206) is in no mirror and never deleted (`Lost`).
* RP2 i80 bus: when there is no memory for the object (rp2/mod_i80bus.c:314), the
  state machine and the channel claimed before stay claimed (`"lost"`).
* RP2350: when the second DMA channel cannot be claimed, the first one is kept
  (picodvi_rp2350.c:290-293): `picodvi_hw_stop()` returns at once while `hw_live` is
  unset.
* A `Bus`, `Display` or `I80Bus` made stale names handles that are gone. On the
  ESP32-P4 `Display()` accepts such a `Bus` (mod_mipidsi.c:345), and a stale
  `Display` draws into and syncs a freed buffer, or hands it to a deleted panel
  (lines 467, 494, 519, 554) (`scan.stray`).
* RP2350, scaled modes: `picodvi_hw_stop()` stops the pixel channel before the
  command channel, which may enable it again in between (`scan.px.again`).

Present path and buses:

* `docs/ports/esp32.md` (line 51) calls `refresh()` "Cache writeback only", which
  is true of the single-buffer fallback only.
* A `refresh()` that times out (line 650) returns without flipping `draw_index`
  although the driver adopts the buffer later; a GUI that swaps once per flush is
  then on the other buffer for good, against the comment at lines 775-777.
  `GuiStaysInStep` proves the rest of the claim.
* A `qspibus.send()` that fails inside its transaction leaves `in_transaction`
  set, so that the next `send()` polls until it is interrupted; `MethodsReturn`
  names that case as one of its two exceptions.
* GPIO i80: the 0xFF bytes a write begins with are strobed with whatever the pins
  show (gpio_bitbang.c:129). `PanelGetsBytes` exempts exactly those.
* `spibus` without D/C and CS pins cannot be framed: the padding of a call shifts
  the next one (excluded). A data argument that is no buffer is dropped silently.
  A call that raises leaves CS active and the nine-bit stream misaligned until CS
  next rises.
* FlexIO: a stale object's `deinit()` shuts the unit down under the live one, whose
  bytes then go nowhere; a call that raises leaves CS low.
* `usdl2`: a timer of interval 0 keeps its entry and slot after its one tick, as
  `SDL_RemoveTimer()` does not find it (usdl2_mp.c:954-957); eight of them use up the
  table.
* The soft-reset registry's `unregister` has no caller in the tree.
* RP2 i80 bus: `pio_claim_unused_sm()` with "required" panics, so the fallback to
  pio0 is dead code; the deinit of a stale object gives back the live one's machine.
* ESP32 i80 bus: a stale object sends through a deleted handle; the transfer reads
  the caller's buffer after `send()` has returned. The byte array made last
  (line 209) is taken to find memory.

Displays and matrices:

* Types are allocated without a finaliser, so `__del__` never runs from the
  collector (docs/idempotent-lifecycle.md:119 expects it to); a dropped object's
  buffer is swept while DMA reads it. The models of the eLCDIF, the RT1176, the
  RP2350 and `spibus` take it that the program keeps what it has not deinited.
* `mipidsi`, ESP32: the `deinit()` of a stale `Display` deletes the newer one's
  panel.
* RP2350: the model allocates frame buffer and command list in one step.
* RP2040: the state machines are claimed and never given back (dvi_serialiser.c:32,
  picodvi_rp2040.c:141-147), so the third constructor finds none, against
  docs/idempotent-lifecycle.md:126; `dvi_init()`'s buffers leak; the encoder reads a tag one word
  past them (picodvi_rp2040.c:68-72); `DVI_VERTICAL_REPEAT` is 2 while
  `dvi_vertical_repeat` is set and never read, so of a frame of 480 rows every
  refresh of the screen shows one half, in turns; a stale object's `deinit()` stops
  the other's hardware.
* `rgbmatrix`: the `deinit()` of a stale object stops the live one's core
  (mod_rgbmatrix.c:267) and its `refresh()` draws into it (line 455), through a
  null pointer if the core holds no screen; `refresh()` on a stopped core spins
  (core.c:877). `uint8_t chunks` in `_PM_begin()` (core.c:230) wraps on long
  chains; six address pins are clamped to five. The software scan mirrors odd
  rows of serpentine panels and ignores tiles.
* HUB75: with byte-wide stores in 32-bit units (rp2) and a chain that is no
  multiple of 8, the padding never gets its clock bit (core.c:268-274, against the
  comment at 978-980); SAMD51 and ESP32-S3 bursts send whole chunks only. `Handled`
  and `Whole` exclude these settings.

## 8. Not modelled

Peripheral bring-up (register writes in a fixed order), argument parsing, pixel
formats but for HUB75's, TMDS encoding (part of it assembler), the PIO and HSTX
programs, `reset()` of the buses (pulses a pin), and the components marked "-"
in the inventory, which have no state of their own. Memory is modelled only
where its reuse or release matters. `PROJECT.json` gives the reason for each
component left out or modelled in part.
