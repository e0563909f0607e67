# TLA+ verification of the HiFive1 RevB projects

This directory models the programs and libraries of this repository in TLA+. Two
libraries reach the same chip: the *driver collection* (`src/src/include`,
`src/src/src`, with `src/src/main.c`) and *freedom-metal* (`src/freedom-metal`, with
its description of the board in `src/bsp` and its linker scripts' generator in
`src/scripts`), which the two demos `src/src/HCSR04` and `src/src/HCSR501` use. The
models have the code's control flow at the granularity of a register access
wherever something may come between two of them, and the hardware as their
environment. TLC checks small instances; the TLA+ proof system, TLAPS, proves the
central invariants for every instance.

The chip is an FE310-G002 (RV32, one hart); the programs have no operating system.
Their concurrency is the service routine preempting the foreground, the devices
and clocks running on their own, and, in freedom-metal's start-up code and lock,
several harts on other boards. A driver call is a sequence of loads and
stores with an interrupt possible between any two of them, and several calls
share a register.

In what follows `devices/` stands for `src/src/include/devices/` (headers) and
`src/src/src/devices/` (sources), `metal/` and `drivers/` for
`src/freedom-metal/metal/` and `src/freedom-metal/src/drivers/`.

## 1. Inventory

### The driver collection

| Component | State | Operations | Hard behaviour | Correct when |
|---|---|---|---|---|
| CPU, CLINT, PLIC (`cpu.h`, `cpu.c`, `clint.h`, `plic.h`, `plic.c`) | mstatus.MIE, mie, mtvec, PLIC enables and priorities, `irq_functions` | enable calls, service routine, claim, dispatch, complete | a trap between two writes; the order of calls at start-up; level-triggered lines | no call through NULL, no source enabled before its handler, claims completed, the foreground makes progress |
| Interrupt calls of GPIO, UART, SPI, I2C, PWM | their slot, PLIC bit, IE register | `*_interrupt_enable`, `*_interrupt_disable` | the order of table and PLIC writes | as above; one's own source is enabled |
| RTC / CLINT timer (`aon.h`, `main.c`) | mtime, mtimecmp, mie.MTIE, `taken` | `aon_rtc_next_wake_time`, the timer handler, `wait_timer` | 64-bit registers in two halves while the clock runs; request by both actors; handler that never moves mtimecmp | an alarm is never early, never from a half-written compare value; a tick is answered |
| Watchdog (`aon.c`) | WDOGKEY lock, WDOGCMP, WDOGCFG, the counter | `aon_wdt_init`, `_feed`, `_cfg`, `_set_timer` | one key lets one write through, whoever makes it | registers locked at rest, writes hold, feeds take effect |
| Clocks (`prci.h`) | PLLCFG, PLLDIV, `cpu_freq` | five presets | a register one preset leaves for the next; drivers read `cpu_freq` once | the core runs at `cpu_freq` |
| GPIO and pin multiplexing (`gpio.h`, all drivers) | seven GPIO registers | init/close of every driver, `gpio_*` | read-modify-write in two accesses; shared registers | a call changes its own pins only; an open device has its pins |
| SPI (`spi.h`, `spi.c`) | the two FIFOs, `spi_num`, config | `spi_transmit`, `_send`, `_send_multiple`, `_receive`, `_receive_multiple`, init, set_cs, close | answers arrive later than the calls read them | how far behind, what is dropped, which calls return |
| UART (`uart.c`) | FIFOs, `uart_active` | send, receive, init, close | polling; never inactive again; enables that are never set | no byte lost without a race; a send returns |
| I2C (`i2c.c`) | the bus, CR and SR at one address | send, receive, transmit | inverted waits, bytes nobody commands, no stop after a missing acknowledge | what is on the bus, whether a call ends, how long the bus is held |
| PWM, Servo, HCSR04 libraries (`pwm.c`, `src/src/src/Servo`, `src/src/src/HCSR04`) | PWMCFG, compares, `period`, `pulse` | set_period, set_pulsewidth, duty, servo moves, distance measurement | 32-bit wrap, fall-through, three libraries on one unit | fields and registers agree as far as the code keeps them |

### freedom-metal, the demos and the board

| Component | State | Hard behaviour | Correct when |
|---|---|---|---|
| Start-up, barrier, lock (`gloss/crt0.S`, `src/init.c`, `src/synchronize_harts.c`, `metal/lock.h`) | MSIP bits, `init_done`, the lock word | harts in any order; the lock under interrupts | nobody runs before the constructors, one holder, nobody waits for ever |
| Timer (`drivers/riscv_clint0.c`, `drivers/riscv_cpu.c`) and the demos' wait | mtime, mtimecmp, MTIE, `timer_isr_flag` | halves of 64-bit registers; handler and foreground on one compare value | times are whole; a wait ends, never early |
| Demos (`src/src/HCSR04`, `src/src/HCSR501`) | the flag, a sensor's pin, an LED or a pulse | a sensor that answers whenever it likes | each measurement has its own echo, the LED shows the motion, rounds go on |
| Interrupts and traps (`drivers/riscv_cpu.c`, `drivers/riscv_plic0.c`, `src/vector.S`) | tables of handlers, three levels of enables, mtvec, mepc | tables stored in several stores; vector modes; nested traps | the right handler with its data, and back to where it was |
| CLIC (`drivers/sifive_clic0.c`) | a byte of four fields per interrupt, two tables | field widths that change | handlers and levels as asked |
| Clock (`drivers/sifive_fe310-g000_pll.c`, `metal/clock.h`) | PLLCFG, lists of callbacks, dividers | bytes in flight, a list registered into twice | rates follow, the core never runs from an unlocked PLL, changes end |
| I2C, SPI, GPIO, UART, PWM, watchdog, RTC, counters, PMP, privilege | their registers | time-outs, refusals, read-modify-writes against the routine, W1C bits, keys, running counts, locks, traps | see the properties below |
| Image and heap (`scripts/ldscript-generator`, `src/entry.S`, `src/scrub.S`, `gloss/sys_sbrk.c`) | memories, sections, stacks, the break | overlapping regions, harts that scrub in any order | the program finds its image, stacks stay as they are |
| Caches, prefetcher, bus errors (`drivers/sifive_ccache0.c`, `_l2pf0.c`, `_buserror0.c`) | ways, counters, mtvec, accrued events | probing by trapping, interrupts meanwhile | memory and vector are as told |
| Board (`src/bsp/metal.h`, handle calls) | none | hundreds of comparisons | a handle is a device; its lines, pins and registers are the chip's |

They interact through: the tables of handlers (all drivers with the service
routine), the GPIO registers (all drivers with each other), the core clock
(`cpu_freq` in one library, callbacks in the other), mie and mtvec, and the flags
that handlers set for a main loop.

In the collection `spi.h`, `prci.h`, `gpio.h`, `plic.h` and `cpu.h` hold full
definitions of functions that the `.c` files define again. The headers are what
`main.c` compiles, and the models follow them; where the two differ and it matters
(interrupts) both are modelled. `spi.c`'s copies differ in `spi_transmit`'s
buffers only. `cpu.c` does not compile as it stands (`_asm__`, cpu.c:83)
and `main.c` includes a header that is not there (`cpu_freq.h`): the models take
the code as it reads. `main` itself calls none of the drivers; the models let a
program call them in any order their own checks allow. The same holds for
freedom-metal, of which the demos use a part.

## 2. Modules

| Module | Models | Checked in |
|---|---|---|
| `Interrupts` | the collection's interrupt subsystem and every driver's interrupt calls | on its own |
| `Spi` | the SPI transfers over the FIFOs | on its own |
| `PinMux` | the GPIO configuration registers under all drivers | `Drivers` |
| `Uart`, `I2c`, `Pwm` | the transfers of uart.c and i2c.c; pwm.c, Servo and HCSR04 | `Drivers` |
| `Clocks` | the presets, `cpu_freq`, the drivers' dividers | `Drivers` |
| `RtcTimer` | aon's alarm in half-word accesses, the timer interrupt, `wait_timer` | `Drivers` |
| `Alarm` | what a caller of `aon_rtc_next_wake_time` is promised (abstract); `RtcTimer` instantiates it as `Promise` | `Drivers` |
| `Watchdog` | the watchdog calls, the lock, the counter, the reset | `Drivers` |
| `MetalBoot` | harts from reset to main, the barrier, the lock | `MetalWaits` |
| `MetalTimer` | mtime and mtimecmp, the timer's handlers, the demos' wait | `MetalWaits` |
| `MetalDemos` | the two demos and their sensors | `MetalWaits` |
| `MetalClock` | PLL, rate changes, callbacks, and the four drivers that have one | `MetalWaits` |
| `MetalI2c` | transfers with refusals and time-outs | `MetalWaits` |
| `MetalImage` | linker script generator, scrubbing and starting, sbrk | `MetalWaits` |
| `MetalCache` | ways, prefetcher, bus errors | `MetalWaits` |
| `MetalInterrupts`, `MetalTraps`, `MetalClic` | PLIC and vectors; trap tables; CLIC | `MetalDevices` |
| `MetalCalls` | the calls of interrupt.h and cpu.h through the controllers' vtables, and what they answer | `MetalDevices` |
| `MetalSpi`, `MetalPins`, `MetalUart`, `MetalPwm`, `MetalWatchdog`, `MetalRtc` | one driver each | `MetalDevices` |
| `MetalHpm`, `MetalPmp`, `MetalPrivilege` | hpm.c, pmp.c, privilege.c | `MetalDevices` |
| `MetalBoard` | metal.h and the calls for handles | `MetalDevices`, on its own |
| `MetalRegisters` | the offsets of metal-platform.h and those of the collection's headers, for `MetalBoard` | |
| `MetalEdits` | a read-modify-write of a register, shared by `MetalUart`, `MetalPwm` and `MetalPins` | |
| `Powers` | the powers of two that the code shifts by, shared by `Watchdog`, `MetalClock`, `MetalRtc` and `MetalPmp` | |
| `InterruptsProofs`, `WatchdogProofs`, `SpiProofs`, `DriversProofs`, `MetalWaitsProofs`, `MetalDevicesProofs` | theorems (section 5) | |
| `PowersProofs` | induction, recursive functions, division and powers, for the other proofs | |

`Drivers`, `MetalWaits` and `MetalDevices` put parts side by side: a program that
uses one of them, chosen at the start, while the others stand still. What the parts
have in common (pins, the clock, the interrupt controllers) has a module of its
own, `PinMux`, `Clocks`, `Interrupts` in one library, `MetalPins`, `MetalClock`,
`MetalInterrupts` in the other, which is where drivers meet.

Definitions have the names of the functions they translate. Operators whose
comment begins with "Mutant" are deliberately wrong variants of the definition
after them; no specification uses them. They document which mistake each property
rules out: put one in the place of the definition it varies and the property
fails.

### How code becomes actions

A call is a sequence of register accesses (`Program` in `Interrupts` and `Watchdog`,
`Turn` in `Spi`, `InitOf`/`CloseOf` in `PinMux`, lists of `Edit`s in `MetalPins`,
`MetalUart` and `MetalPwm`, step names elsewhere). Entering a call is an
action with the call's early returns as guards; each access is an action, enabled only
while the service routine is not running. The service routine is a second actor:
it begins at any point between two accesses and runs to its end before the foreground
goes on. A read-modify-write of a register that the routine never writes is one step.

* **Interrupts.** `handler` and `active` are the two fields of `irq_functions`,
  `enable`, `prio`, `pending`, `inflight` the PLIC, `MIE`, `mie`, `mtvec` the CSRs,
  `ip`, `ie` the devices' pending and enable registers, `fg` the foreground's call,
  `isr` the service routine. `Decode` is the branch on mcause, which differs between
  cpu.h and cpu.c; `IntNumber` is the `claim - 1` of plic.h:84. The handler is the one
  in main.c: read GPIO_FALL_IP, write it back. `EnableMasks` gives the bit each
  driver really sets.
* **RtcTimer.** mtime is one number; its loads and mtimecmp's stores are halves.
  `due` records the tick the caller may count on. `linked` selects main.c's handler
  as it stands ("return") or with its commented-out request for the next tick
  (main.c:56, "rearm").
* **Watchdog.** `unlocked` is the lock. `ScaleOf` is the halving loop on 32-bit
  arithmetic, `Cfg` the register encoding. `robbed` and `lost` say which of
  main's writes were made after the service routine had used up the key; `since` how
  long ago the last feed began.
* **Spi.** Frames are numbered as they are written; an answer carries the number of
  its frame. `lost` holds frames that found TXFIFO full, `overrun` is set when an
  answer found RXFIFO full. The two loops on buffers count with a uint16_t (`NextIndex`)
  up to an unsigned int, so a size above 65535 is never reached (`Endless`).
* **Uart, I2c, Pwm.** Bytes are counted (UART) or known by their place in the buffer
  (I2C). I2C's command and status are one address, so `CR |= bits` writes the
  status back as commands; that is a load (`LoadCommand`) and a store (`StoreCommand`), and
  the bus moves in between. PWM registers are known by place; the product of a time and the
  clock (`Scaled`) wraps at `PwmWord`.
* **PinMux.** A statement `REG |= mask` is a load into `access.loaded` and a store.
  `claimed` are the pins the open devices count on.
* **Clocks.** PLLCFG's fields, the divisor PLLDIV stands for, and per driver the
  divisor it computed and from what, cut to the register: 12 bits for SPI, 16 for the others
  (`DivValues`). `Core` is the frequency the registers give.
* **MetalBoot.** One program counter per level (foreground, handler) of each hart; the
  barrier's MSIP bits, `init_done`, what memory has been copied, the lock word.
* **MetalTimer.** Times are pairs of words of `W` values; `tcall` holds what each actor has
  read so far. `wait_for_timer` arms through the same halves.
* **MetalDemos.** The wait is its four statements; the compare value is how many ticks it is
  ahead of the clock, since MetalTimer has how it gets there.
* **MetalClock.** The PLL's table of configurations is the code's; callbacks are a list
  with explicit next pointers, so that cutting it off and closing it to a ring are what
  they are; each driver's part is what its callbacks read and write. A PWM unit runs in the
  modes it was triggered in (`running`); stopping takes back the continuous one alone
  (sifive_pwm0.c:274), and a one-shot ends with its cycle (`PwmCycleEnds`). A divider that is too
  large is refused by SPI, one out of range by I2C, and the UART writes it cut to 16 bits.
* **MetalI2c, MetalSpi.** The controller takes a while per command or frame and may never
  come back (a slave stretching the clock); "a second has passed" is one event per wait.
* **MetalInterrupts, MetalTraps, MetalClic.** Two tables and the enables of PLIC, hart and
  mstatus; a trap's mepc and mstatus; a control byte as the set of its bits.
* **MetalPmp, MetalPrivilege, MetalHpm, MetalRtc, MetalWatchdog.** Registers as the code
  encodes them, with locks, keys, probing traps and halves. Shift counts of 32-bit words are taken modulo 32.
* **MetalImage.** Memory is a row of blocks; a section is placed at run time and at load
  time; scrubbing and copying act on blocks.
* **MetalCalls.** A controller is the set of its vtable's slots; a wrapper calls what the slot holds,
  and the program makes its next call when it has the answer of the last. `csrs` holds mie, mtvec's mode
  and mstatus.MIE: line 0 of the CPU's controller is the hart's own enable (riscv_cpu.c:385-391), and
  the CLINT and PLIC refuse it.
* **MetalRegisters.** A unit is its size and a record of offsets, once from each source.
* **MetalBoard.** metal.h's functions as functions from handles, checked against the
  chip's map in platform.h of the collection, read from another file by other people.

## 3. Runs

| Run | Module, configuration | Question | Outcome |
|---|---|---|---|
| `interrupts` | `Interrupts`, `Interrupts.cfg` | call through NULL, handler before enable, claims; does the foreground go on? | holds |
| `interrupts_timer` | `Interrupts`, `InterruptsTimer.cfg` | traps while mstatus, mie and mtvec are reprogrammed; a vector never installed; SPI, PWM, I2C calls | holds |
| `interrupts_unhandled` | `Interrupts`, `InterruptsUnhandled.cfg` | does a registered source reach its handler? | no: finding 1 |
| `interrupts_pwm_enable` | `Interrupts`, `InterruptsPwmEnable.cfg` | does PWM enable its own source? | no: finding 2 |
| `spi` | `Spi`, `Spi.cfg` | backlog, age of answers, lost frames, termination | holds |
| `spi_polarity` | `Spi`, `SpiPolarity.cfg` | does the polarity reach SCKMODE? | no: finding 3 |
| `pins_i2c` | `PinMux`, `PinMuxI2c.cfg` | does an open I2C have its pins? | no: finding 4 |
| `clocks_32` | `Clocks`, `Clocks32.cfg` | does the 32 MHz preset run at 32 MHz? | no: finding 5 |
| `drivers` | `Drivers`, `Drivers.cfg` | pins, UART, I2C, PWM, clocks, alarm, watchdog: one property each, two for the watchdog | holds |
| `metal_waits` | `MetalWaits`, `MetalWaits.cfg` | freedom-metal where it starts or waits: harts, timer, clock, I2C, image, caches, demos | holds |
| `metal_devices` | `MetalDevices`, `MetalDevices.cfg` | freedom-metal's registers: PLIC, traps, CLIC, nine devices and units, the board | holds |
| `board_handles` | `MetalBoard`, `MetalBoardHandles.cfg` | does an index give a device or NULL? | no: finding 6 |

The large runs, `drivers`, `metal_waits` and `metal_devices`, take from one minute to four
with two workers each, the others less.

### Bounds, and why they are enough

* `Interrupts`: `Sources` {4, 10, 11} has two adjacent GPIO sources, because dispatch
  looks at the slot before the claimed one, and a UART source. {6, 43, 52} has SPI, a
  PWM source whose enable bit is by mistake bit 52, and I2C, whose own enable bit is
  undefined. Every call of every driver is in one of the two runs; the priority 9
  exceeds the three bits of the register. No counter is cut off: the state
  space is finite. `CHECK_DEADLOCK FALSE` because a wild trap and a call through NULL
  end the program.
* `Spi`: a `TxDepth` of 1 makes TXFIFO full after every frame, the case its polls are
  for, and a `RxDepth` of 2 lets RXFIFO hold a backlog and overflow. `MaxFrames` = 5 is
  a bound on the total. `IndexValues` = 3 stands for 65536: of the `Sizes` 2 reaches the loop's
  second turn, and the backlog its maximum, and 3 is the least size that the index never reaches.
  A call that goes on for ever meets the bound on the frames, and stands still there
  (`AtTheBound`, which the fairness does not contain).
* `PinMux`: one device of each kind that shares a port, a pin that does not exist
  (20), a chip select, a PWM pin, one pin as input and output, and a service routine
  on a pin of its own.
* `Uart`: FIFOs of `Depth` = 2; `MaxSent` and `MaxArrived` bound the bytes on both sides,
  past the FIFO's depth. `I2c`: `BufferSizes` 0 to 3, the loops not entered, entered once and
  gone round. `Pwm`: two units, two comparators, times 0 and 1, `MaxStored` = 1 store of
  a period from outside; a clock of `Freq` = 3 against words of `PwmWord` = 2 values, so that
  a product wraps.
* `Clocks`: frequencies are the real ones. Of the SPI rates 80000 is near
  `SPI_FREQ_MAX`, and 1000 needs a divisor of 13 bits at 16 MHz already and more after the fast
  presets, which exercises the cut to 12 bits; the sloth preset makes the quotient 0 for the others.
* `RtcTimer`: words of `WordSize` = 4 values and `MaxTime` = 9 let the low word wrap
  twice; `Delays` {1, 6} has one delay shorter and one longer than a word. `MaxTime`
  stops the clock, and nothing else.
* `Watchdog`: `Millis` has the periods on both sides of 65535 ticks, one that needs
  several halvings and the first one whose product wraps 32 bits. `Scales`, `Ens` and
  `Rsts` have one legal value and the first illegal one. `MaxAge` = 2 reaches the least
  compare value, so the watchdog does bite.
* `MetalBoot`: three harts, of which the middle one boots; two constructors.
* `MetalTimer`: words of `W` = 2 values and three high words: the low word wraps in the
  middle of a call, and more than once. `RtcFreq` = 2, `Moves` {0, 2} and `Again` = 1 are compare
  values in this word and in the next. `MaxHi` stops the clock, and nothing else.
* `MetalClock`: any two (`ClkMost`) of the four drivers that have callbacks in one program; rates that the PLL makes, that it bypasses for, and that it cannot make; a `PwmRates` of 1 Hz, at
  which 320 MHz overflows every prescaler; duties 0 and 50; both run modes, one after the other and together.
* `MetalI2c`: up to two bytes either way. `MetalSpi`: up to `SpiMostBytes` = 2 bytes of data
  beside the parts before it, and `SpiMostTimeouts` = 1 transfer that timed out; the theorem
  has no bound.
* `MetalImage`: offsets 0 to 3 and sizes in blocks of memory: every place in the smallest node, and more places than a node
  has regions, so that they come in every order, two at one address beside a third among them; at most
  `RamMost` = 3 memories to scrub, and ranges cut at `RamMax` = 4 blocks; three harts, so that one
  may scrub the stack of a hart that runs; a heap that ends at byte 9 between requests
  of 0, 1, 2, 5 and 8.
* `MetalCache`: four ways, none, some and all of them given to the program's image; requests up to
  257, which a byte cuts to 1. Words of `PmWord` = 2 values, of a counter up to 3.
* `MetalDemos`: a second of three ticks, an echo of two at most. The theorem is for any
  second that is longer than an echo.
* `MetalInterrupts`: two sources, one threshold. `MetalTraps`: lines 3 and 7, one exception, two
  nested traps. `MetalClic`: one interrupt beside line 3, values that differ in level and
  priority bits, level bits 0 and 2 of 3.
* `MetalCalls`: the timer's line and line 0, one source, one level and one time beside those at the start; lines,
  sources, commands and modes that are refused.
* `MetalPins`: PWM 2, whose pins I2C wants too, an LED and a pin with an interrupt; `MetalUart`: FIFO of two,
  a watermark of 2, and no further call once a race or a lost byte is recorded; `MetalPwm`: two
  channels, no further call once a mode change was missed.
* `MetalWatchdog`: counts up to 3, rates that need a scale and that do not, and no
  further call once a write was lost. `MetalRtc`: words of four values, counts up to 9, compare values
  that need no scale, one of two and one of four, less than a
  word of ticks in a call (a call is a handful of instructions). `MetalHpm`: words of three
  values, four ticks.
* `MetalPmp`: two regions and addresses of three bits: of 5, 6 and 7 each has another lowest zero. The grains
  are that of 4 bytes, where no bit is hidden, of 8, where one is and an address may be taken for shown that is
  not, and of 16. The theorem is for addresses of up to 32 bits and any grain of up to 2^31 bytes: a hart with a
  larger one would have its grain shifted out of the word that pmp.c:41 computes it in.
* `MetalBoard`: pins on both sides of the lines they share, indices one past a table.

### Fairness

* `Interrupts!FairSpec`: weak fairness of the foreground's next write, of the service
  routine's next step, and of the PLIC gateway. The hart always executes one or the
  other, and a gateway forwards a line that stays high. Nothing is assumed of
  devices. `CallsReturn` is conditional: devices become quiet, and every outstanding
  source dispatches to a registered handler. Without the second condition it
  is false (finding 1).
* `Spi!FairSpec`: weak fairness of each actor's step and of the controller's two steps;
  the controller shifts on its own clock. Nothing forces the service routine to
  be called, or the foreground to make another call.
* `Drivers`: an open UART shifts, and the foreground and the service routine of `RtcTimer` go on.
  Main is not enabled while the routine runs, so an interrupt that is raised again at
  once may starve it; that is why `TickServed` is about "rearm" only. The clock
  need not tick.
* `MetalWaits`: harts execute; the timer's foreground, handler and clock go on; the
  PLL locks, a line that has a byte sends it, the call that changes the rate
  goes on; an I2C call executes and seconds pass; a demo executes, its clock ticks, its pulse
  and an echo end. Nothing is assumed of slaves, of motion, or of a program's next call.
* `MetalDevices` states no fairness and no liveness.

### What is assumed of the hardware

The PLIC ignores the completion of a source that is not enabled. Pending bits of GPIO
are cleared by writing ones, those of PWM are stored as they are written. The watchdog's key lets one write through and locks again. The PLL's
reference is the 16 MHz crystal. A hart may lack mcounteren, and then writing it traps. Unimplemented
bits of a CLIC's fields read as ones. Flash stores trap. The L2 cache takes no
way back, and what it does with a number of ways it does not have is arbitrary. The linker refuses
sections that overlap. Functions with the interrupt attribute save registers and
not mepc. A distance sensor's echo is over within less than a second of its trigger.
What metal's watchdog gets for its clock's rate is a constant (`WdogClock`):
the low frequency oscillator's registers are looked for at an address that is not theirs.

## 4. What is checked

A run's property stands for a component's promise, and names its parts.

### The driver collection

* **Interrupts.** `NullCallOnlyMidDisable`: the routine calls through NULL in exactly one
  window, between the two table writes of a disable call (gpio.c:176).
  `ReadyBeforeEnabled`: no order of writes enables a source in the PLIC before its
  handler and active flag are set, whatever another call does to another source in
  between. `ClaimsBalance`: a claim is never empty, names an enabled source, is
  completed while enabled, and nothing stays claimed. `NoTrapWhileReprogramming`,
  `LostVectorIsForGood`: traps never see a half-made mstatus or mie, and a program that
  calls a CLINT or PLIC enable before `cpu_interrupt_enable` never gets its vector.
  `CallsReturn`: progress.
* **Alarm.** `AlarmIsServed` contains a refinement: under the mapping `Promise`, every
  behaviour of `RtcTimer` is one of `Alarm`. The mapping reads mode and due time off the calls in
  progress, MTIE and mtimecmp. It rules out an early alarm caused by a torn read of
  mtime or a torn write of mtimecmp, and allows what the code does not exclude: an
  alarm late by one wrap of the low word. `TickServed` is progress of the main loop.
* **Watchdog.** `WdtKeysWork` is three: registers are locked at rest; writes hold, with the one exception
  that an interrupt's feed steals the unlock; a feed is never lost, because a stolen one has been
  made by the thief. `ScaleFitsPeriod`: the least scale that fits.
* **Spi.** `BacklogBounded` relates both FIFOs, the wire and every call in progress.
  What it means for RXFIFO is proved as `NoAnswerDropped`: were it two deeper than TXFIFO
  (three with a sending routine), nothing would be dropped. The real ones are equally
  deep, so answers are dropped, and the run lets it happen. `AnswersAreRecent`: how old a
  returned byte may be, and that `spi_transmit` never returns one from before its frame.
  `PollsWork`: a frame is lost only to preemption, every call returns whose index can reach its
  size, and one on a longer buffer never does.
* **PinMux.** `PinsStayTheirs`: every step of every call changes bits of its own pins only, with the
  read-modify-write race as the one exception: the pin that suffers is the
  service routine's, never the foreground's; and a device stays connected to its pins while
  others are opened and closed.
* **Uart.** `UartKeepsItsBytes`: a byte is dropped only in a call that the routine overtook on the same
  port; a receive returns every other byte at most; a port opens once and its interrupts never; a send returns.
* **I2c.** `I2cBusTraffic`: whatever the buffers, three bytes at most go on the bus in a call, one is
  read, a call that is late to its inverted wait never ends, and a missing acknowledge holds the bus
  over three starts at most: the start refused, one that may have loaded CR before the controller took the
  bus, and the one whose load has BUSY and writes it back as the stop.
* **Pwm.** `PwmFieldsAgree`: no pulse without a period that somebody stored, no division by zero, an
  echo's count bounded by the period the unit's last user left.
* **Clocks.** `RatesAsTold`, for the presets but the 32 MHz one: that one sets SEL in the store
  that changes the multiplier, and runs the core at 96 MHz until it divides. The sloth
  preset leaves its division by 128 behind for the next one, and runs at 0.25 MHz where
  it says 0.375 MHz: slower than told, which is why `FreqTold` leaves a core behind
  the final division to `NeverFasterThanTold`. `RateAsAsked`: a device opened since runs at its rate if the quotient
  fits the divisor; `CutIsFaster`: if not, it is faster than asked by at least a division
  (SPI at 1000 baud and 16 MHz: about 2049 Hz).

### freedom-metal and the demos

* **Start-up and lock.** `BootOrder`, `LockExcludes`, `HartsGetOn`. A handler that asks for the lock of its own foreground waits
  for ever, and is the one exception.
* **Timer.** `TimeIsWhole`: reads and writes of 64-bit times in two words, by foreground and handler.
  `DemosKeepTime`: the demos' wait is again an `Alarm` (second refinement), it ends, HCSR04 triggers
  a sensor at rest, the LED shows the motion, both go round for ever.
* **Clock.** `DevicesFollow`: the core never runs from an unlocked PLL, the rate told is the closest there is,
  dividers follow, PWM is no faster than told
  (if the count fits some prescaler: sifive_pwm0.c:162 goes on to 16, of which the register keeps no bit), no longer
  runs continuously after a change and keeps its duty, but a one-shot from before may finish its cycle at the new rate; bytes survive a change below 214 MHz. `RateChangesEnd`: they do, but
  for a program that initialised I2C (its callback waits for itself) or registered a callback twice.
* **I2C, SPI.** `I2cCallsWork`: calls end whatever the slave does, and OK means acknowledged, with
  the exceptions the code has. `FramesAndAnswers`: a transfer that timed out shifts the answers of all
  later ones by one, with no error.
* **Image, heap, caches.** `ImageIsLaidOut`: memories apart but for three regions on a node, main
  finds its image, stacks are kept but for the next hart's, RAM is scrubbed to its names, the heap is clean.
  `CachesAreAsTold`.
* **Interrupts, traps, CLIC.** `InterruptsAreServed`, `TrapsAreDispatched`, `ClicIsAsAsked`: the right handler with
  its data, and back, with every exception named where it is an `=>` of the property. The first has two
  parts, `SourcesAreServed` about PLIC and vectors and `CallsAreAnswered`: once the CLINT is initialised the hart's calls
  find it, a setting, the hart's own enable among them, stays until its own call, and a call that is refused
  has changed nothing.
* **Shared registers.** `PinsAreShared`, `UartIsShared`, `PwmWordIsShared`, `WdogIsAsTold`: what a call asks is so, unless
  the routine came between its read and its write, which the history variables record.
* **Running counts.** `RtcKeepsTime`, `CountersAreSound`.
* **Protection.** `RegionsAreAsAsked`: PMP regions, their locks and rounding: a power of two is what was asked, but
  where the hart hides one bit of an address and pmp.c:151 takes it for written, which makes it twice as big. `LandsAsAsked`: where
  a drop of privilege lands when interrupts come.
* **Board.** `BoardIsAsDescribed`: metal.h against the chip's map, and the offsets by which freedom-metal's drivers
  reach the registers against the collection's. The two agree wherever a driver looks; a block of
  metal-platform.h for the whole always-on unit, which nobody uses, has RTCHI and BACKUP7 four bytes low.

### Findings

1. `interrupts_unhandled` (`RegisteredSourceIsHandled`): plic.h:84 dispatches on `claim - 1`, the drivers register at
   the source's own number. A registered handler is not called; the device is never
   acknowledged and interrupts for ever.
2. `interrupts_pwm_enable` (`EnablesOwnSource`): pwm.c:319 shifts by 31 - source, a negative number, and sets
   another source's enable bit (I2C's, for source 43).
3. `spi_polarity` (`SckIdlesHighWhenEnabled`): spi.h:234 shifts the polarity to the phase's place.
4. `pins_i2c` (`OpenHasItsPins`): i2c.c:12 uses GPIO numbers as masks.
5. `clocks_32` (`FreqToldDivided`): prci.h:108-115 makes 24 MHz out of "final divide by 4 to get 32".
6. `board_handles` (`HandlesAreDevices`): gpio.c:35 and watchdog.c:32 of freedom-metal test the index with `>`, so that one past the last
   device passes; rtc.c:26 lets negative ones pass. gpio.h:55 promises NULL.

Met on the way and not run as violations, because no text of the repository says otherwise, or
the text is a plain slip: uart.c:91 (`TXFIFO |=`), i2c.c:39 (inverted waits),
i2c.c:146 (a slot past the end of `irq_functions`), cpu.c:73 (`&` for `==`), pwm.c:196 (fall-through),
sifive_i2c0.c:137 (a callback that waits for itself), sifive_buserror0.c:49 (the disabling
call returns the register where its header promises 0), trap.S:53 (keeps the mode bits of mtvec where
its comment masks them off), pmp.c:151 (an address that reads as asked is not written, so that a hidden bit stays), base.lds:353 (the length of `ram` with only a testram), HCSR04:135 (its loop ends at
once if the echo has not begun). Most are listed as hazards with the property that states what they do.

## 5. What is proved

TLAPS checks every proof down to its leaves, with Z3, Zenon and LS4. The only
assumptions are the named ASSUMEs of the modules, about the constants: their types, mostly;
TLC evaluates them in every run.

* **`InterruptsProofs`**, for any sources, edges, priorities, calls, and both builds.
  `TypeCorrect`. Then the inductive invariant `IInv` = `TypeOK`, `TableInv`,
  `RoutineInv`. `ReadyBeforeEnabled` is not inductive: it needs to know how far an
  enable call has come (`Installing`: past its first write the handler is in,
  past its second the slot is active) and, for a disable call, that the PLIC bit is
  gone before the table entry is (`Removing`), that an active slot has a handler
  except in the window (`HandlerPresent`), and that PWM and I2C bits are never counted
  as direct (`NoMaskedDirect`). `RoutineSees` carries what the routine found at
  dispatch to the point of the call. Results: `NullCallWindow`, `HandlerBeforeEnable`,
  `ClaimCompleteBalance`. A second invariant, `CsrInv`, follows the CSRs through `cpu_interrupt_enable`:
  interrupts are masked while a call rewrites mie, and the timer's while one rewrites mtimecmp (`Masked`); until
  mtvec is written nothing but a wild trap happens, and the call writes it before it sets MIE (`VectorFirst`). Results: `ReprogrammingIsMasked`, `LostVectorStaysLost`.
* **`WatchdogProofs`**, for any arguments, any bound, with or without the interrupt.
  `WatchdogTypeCorrect`; the inductive invariant adds `KeyBalance` (the register
  is unlocked exactly when the actor that runs is between key and write, or main was
  robbed), `RobberIsIsr` and `FedThisCall`. Result: `KeysWork`, from `NoUnlockLeftBehind`,
  `WritesHoldUnlessRobbed` and `FeedsAreNeverLost`.
  `ScaleIsLeast`: the halvings of a period are its quotients by the powers of two (`HalvingsIs`) and come to an
  end (`HalvingsFit`), so that the scale is the least that fits; the register has it until the next call
  (`ScaleKept`).
* **`PowersProofs`**: what the recursive definitions of the modules are, for every argument. The prover has no
  induction over a predicate, so it is a fact about sets: a set of naturals has a least element (`LeastElement`, from
  the well-foundedness of finite sets), hence `SetInduction`. `RecursionEnds` says that a function given by a
  recursive equation exists if some measure of its argument falls, with the equation's parts as functions;
  `PowerOf2Is`, the halvings of a period and of a comparator, and the passes of `metal_mem_scrub` are instances.
  `DivisionIs`, `DivisionTwice`, `PowerOfSum` and `PowersGrow` are the arithmetic of shifts. The code's shifts are `PowerOf2[n]` in the
  modules, since of `2 ^ n` the provers know nothing.
* **`SpiProofs`**, for FIFOs of any depth and transfers of any size.
  `BacklogBounded` becomes inductive once each call is known to poll in its first step,
  write in its second and read from its third on (`TurnShape`, `CallsOK`); a push makes
  the backlog and the debt grow together, a read or an empty RXFIFO pays it back.
  Results: `BacklogInductive`, `BacklogStaysBounded`, `NoAnswerDropped`. How old an answer can be
  needs more (`LagInv`): the frames in TXFIFO, on the wire and in RXFIFO are in the order they were sent
  (`FramesInOrder`, `NothingOvertakes`), and how far the oldest lags behind the last is bounded by what the
  calls owe (`LagBounded`). Results: `LagInductive`, `AnswersStayRecent`. For an index of any width a call on a buffer
  longer than it counts stays in its loop: `LongTransfersStay`, part of `PollsWork`.
* **`DriversProofs`**, for each part of `Drivers` and then for the whole.
  - PWM, for any units, comparators, times and stores: a pulse was accepted only for a
    period (`FieldsNeedStore`), and nobody writes the comparator of a unit that times an echo
    (`CountIsBounded`). Result: `PwmAgrees`.
  - UART, for any ports, FIFOs and numbers of bytes: a caller that is about to push finds room unless the routine
    overtook it (`RoomAtPush`). Result: `UartLosesOnlyByRace`, the safety part of `UartKeepsItsBytes`.
  - I2C, for any buffers and slaves: the bytes on the bus and those the call has still to put
    there make three (`PutsAccount`, `ReadsAccount`), and after a missing acknowledge a stop is at most two
    further starts away, whatever was loaded before (`StopFollows`). Result: `I2cTrafficBounded`.
  - Pins, for any devices but I2C: what the foreground has loaded is current but for the routine's own outputs
    (`LoadedIsCurrent`), and the statements left of a call end with the device connected (`PromisesKept`).
    Result: `PinsArePrivate`. It assumes `I2cUnused`, since I2C's masks are not its pins (finding 4), and for the
    connection of open devices `PinsApart`: a pin set up as an input or for PWM is not another device's.
  - Clocks, for any frequencies of the crystal and rates of the clients: the presets are straight lines, so the invariant says which
    statement of which preset was the last, and the registers that follow from it (`Progress`). Result:
    `ClocksRunAsTold`, for divisors that hold their quotient and for those cut to the register, under `RoscIsTrimmed` (the oscillator has the 16 MHz that `cpu_freq` starts with) and
    `SelectsLast` (without the 32 MHz preset, finding 5).
  - The alarm, for words of any size: `RtcInv` bounds what each step of a request has read by
    the clock then and now. Result: `RtcKeepsItsPromise`, that every step of `RtcTimer` is one of `Alarm` or
    a stutter, under the mapping of `Promise`.
  - `DriversImplementParts`: a behaviour of `Drivers` is one of each part, so that what a part promises holds
    of the program (`DriversAreSafe`, `DriversKeepPins`, `DriversRunAsTold`).
* **`MetalWaitsProofs`**, for each part of `MetalWaits` and then for the whole.
  - Start-up, for any number of harts and any boot hart: `BootInv` says what the boot hart's place implies for the
    barrier, `LockInv` that the lock word is set exactly while somebody holds it. Results: `BootComesInOrder`,
    `LockHasOneHolder`.
  - Timer, for words of any size and any bound on the clock: what an actor has read is bounded on both sides
    because the clock only moves forward (`ReadSoFar`); what is written is whole because the largest high word,
    stored first, keeps the handler out until the last store (`WrittenSoFar`). Result: `TimesAreWhole`, with the
    action property that no interrupt comes early.
  - The demos' wait, for any `RTC_FREQ`: the timer's interrupt is enabled only while the program waits for it, and
    the flag is up only after the handler ran (`AlarmIInv`). With `ReadSoFar`, the time that is set is one of the
    request's. Result: `WaitImplementsAlarm`, that every step of the wait is one of `Alarm` or a stutter, under the
    mapping of `Promise`: the specification that `RtcKeepsItsPromise` shows of the other library.
  - Demos, for any second that is longer than an echo: the flag that ends a wait belongs to that wait
    (`FlagIsThisWaits`), and while the sensor is busy the ticks left and those since the trigger make a second at
    least (`WaitOutlastsEcho`). Result: `TriggersFindSilence`, the first part of `DemosGoOn`.
  - Clock, for any rates, devices and baud rates. `ClockIInv` says what the PLL's registers hold in each phase of a
    change. The list of callbacks is a sequence of nodes that an invariant only says to exist (`OpenList`; once a
    device has registered twice, `ClosedList`): the walk stands at one of its places, and the devices before that
    place have been called (`WalkAt`, `DevicesAt`). `Registering` shows what a registration does to either kind of
    list, `EndsAre` that the walk to its end is one. The PWM's frequency rests on `FrequencyIsTold`. Result: `DevicesFollowClock`, all of
    `DevicesFollow`, and that a change with I2C registered never returns, the safety of `RateChangesEnd`.
  - I2C, for buffers of any length and any number of time-outs: the last byte carries the stop if the call asks for it
    (`CommandAccount`), and a refused byte is seen by the next look at RXACK, unless its transfer goes on to read
    (`RefusedAccount`). Result: `I2cKeepsItsWord`, the safety part of `I2cCallsWork`.
  - Image, for any tree and number of harts: a section is in its place, or the boot hart has not passed its copy
    (`ContentAccount`). Result: `ImageReachesMain`, two of the invariants of `ImageIsLaidOut`.
    The heap, of any size: all that the program has lies below the break (`HeapAccount`), and the recursion of
    `metal_mem_scrub`, by words where it can, goes over each byte once. Result: `HeapIsZeroed`, its action property.
  - Caches, for any ways, counter and events: the halves that a count has read are of values the counter held since
    the call began, in that order (`EventAccount`); a call that captured the trap and met none has done what its place
    says (`TrapAccount`); the cache has one way until its constructor runs (`WaysAccount`). Result: `CachesKeepWord`.
    It rests on `LimAssumption`: the linker puts no more into the loosely integrated memory than the ways hold.
  - `WaitsImplementParts`: a behaviour of `MetalWaits` is one of each part, so that what a part promises holds of
    the program (`WaitsDoAsTold`, `WaitsKeepTheirWords`).
* **`MetalDevicesProofs`**, for each part of `MetalDevices`, and then for the whole.
  - PLIC, for any sources and handlers: handlers have their own data or the call is about to store them
    (`DataAreOwn`), and the word a call has read is current unless a handler overtook it (`WordIsCurrent`). Result:
    `SourcesAreServedInOrder`. Calls, for any lines, levels and times: each kind of call writes one controller's
    registers, which one lemma says of each kind. Result: `CallsReachTheirs`. The two make `InterruptsAreServed`.
  - Traps, for any lines and any depth of nesting: each frame returns into the one below it (`FramesAccount`), the
    innermost finds mepc and MPIE as it left them until its handler traps (`ReturnAccount`), and what is left to store
    is all that a given handler lacks (`GivenAccount`). Result: `TrapsAreDispatchedInOrder`.
  - Registers that calls share with a service routine: what an actor has read is still there when it writes, but for
    what the history variables record (`SeenIsCurrent`, `HeldIsCurrent`, `MissedIsTold`). Results: `PinsAreAsShared`,
    `UartIsAsShared` (with `SeenIsSo`, what a polling loop saw), `PwmWordIsAsShared`.
  - Watchdog, for any clock, rates and time-outs: whose the key is (`KeyAccount`), that what is left to write makes the
    registers what was asked (`WantAccount`), and that the counter stands from the feed to the start
    (`StartAccount`). Result: `WritesArriveOnce`.
  - Real time counter, for words of any size: a count has its high word from a time of its call (`CountAccount`), and
    less than a word of ticks passes in a set (`SetAccount`). The comparator's recursive shifts halve until one word
    holds the value, and not beyond (`ShiftedShrinks`). Result: `RtcIsInTime`.
  - Performance counters, for words of any size: both words of a reading are of values since the first
    (`ReadingAccount`); a low word that was cleared may have wrapped (`ClearingAccount`); the vector is the
    program's outside the probe (`VectorAccount`). Result: `CountersAreTold`.
  - CLIC, for any implemented bits: those that are not read as ones (`BytesAreWhole`), and an accepted handler is in
    the table it is called from (`ViaAccount`). Result: `ClicKeepsItsTables`.
  - Board: every entry of the table of handlers is of a source at its own line, and a source that shares its line with
    no other is in it (`BoardAccount`); the offsets of both libraries agree, register by register
    (`RegistersAgree`). Result: `CallsReachTheBoard`.
  - SPI, for transfers of any length and any number of time-outs: the invariant counts the answers that are still to
    be read, of which exactly the first so many are another's (`Answers`). Result: `TransfersKeepAccount`.
  - Privilege, from any mstatus, wherever interrupts come. Result: `HartLands`.
  - PMP, for addresses of any width up to the hart's 32 bits and any grain below 2^31 bytes: an address has exactly one lowest one and one lowest zero
    (`OneLowest`, `OnesBelow`), so the loops over bits find the hart's grain (`GrainFound`) and a region's size
    (`ZeroFound`), and an address that the code accepts has no one below the grain (`NotTooFine`). A region stays as it was set until a
    call about it (`SetKept`). Result: `RegionsAreSound`. The proof found what no bound of the run had:
    with one hidden bit, a region that is off shows an address that was not written.
  - `DevicesImplementParts`: a behaviour of `MetalDevices` is one of each of its fourteen parts, so that what they
    promise holds of the program (`DevicesKeepTheirWords`, `DevicesDoAsTold`, `DevicesKeepTheirAccounts`).

Only model-checked, and why:

* liveness (`CallsReturn`, `PollsWork`, `TickServed`, `UartSendReturns`, `HartsGetOn`, `RateChangesEnd`,
  `I2cCallsReturn`, `WaitEnds`, the rounds of the demos), which needs fairness and ENABLED;
* `RamsAreCovered` and `MemoriesAreApart`, invariants of `ImageIsLaidOut`: the generator's passes are a fold and a sort with
  operators as parameters, which the provers cannot instantiate. The run enumerates every tree of the four nodes that a
  region can be chosen on, with the offsets of `MetalImage`'s bounds.

## 6. Not modelled

* CPU identification, and the register definitions but for the offsets in `MetalRegisters`: constants.
* SPI's chip-select registers and delays; `aon_rtc_enable`; calls that only read a
  register (`gpio_getinput`, watchdog getters). `uart_interrupt_enable` refuses always (uart.c:202), so that it writes nothing.
* The pins that HCSR04's library sets up itself.
* What C leaves undefined: indexing `variant_pin_map` out of range (assumed away by
  `UncheckedAssumption`), a rate of 0 (`BaudsAssumption`), the entry behind the end of
  `irq_functions` that I2C uses (a separate cell).
* freedom-metal: its atomics (single instructions that nobody calls), drivers of devices that the board does not
  have and that hold no control (`global` and `local` external interrupts, trace, simuart, test, htif), its C library stubs but sbrk
  (`_write` returns 0, others a constant), ECC registers and way masks of the cache, event
  selectors, trap.S, the timebase constant (16 MHz, where the demos' RTC_FREQ is 32768).
* The calls of spi.h that take a chip select check it and use it for nothing else.
* `src/bsp/install` holds copies of the headers under `src/bsp` and `src/freedom-metal`; the linker scripts in
  `src/bsp` are generated already; `encoding.h` (two copies) is constants. Build scripts are tooling.

## 7. What is left

1. `MemoriesAreApart` and `RamsAreCovered`, with the order of a sorted sequence as a lemma.
2. The order of start-up between the libraries' parts that `Drivers` and `MetalDevices` put side by
   side, as one program: `Interrupts` over `Uart` and `PinMux`.
