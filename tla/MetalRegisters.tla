----------------------------- MODULE MetalRegisters -----------------------------
(***************************************************************************)
(* The registers of the board's units, twice: as bsp/metal-platform.h has     *)
(* them, by which freedom-metal's drivers reach them, and as the driver        *)
(* collection's headers have them.  Offsets are in bytes; the names are those *)
(* of metal-platform.h.  Its block of the always-on unit is left out: no      *)
(* driver uses it, RTC and watchdog have their own.                           *)
(***************************************************************************)
EXTENDS Integers

Block(size, at) == [size |-> size, at |-> at]

-----------------------------------------------------------------------------
(* metal-platform.h.                                                        *)

METAL_RISCV_CLINT0 == Block(65536, [MSIP |-> 0, MTIMECMP |-> 16384, MTIME |-> 49144])
METAL_RISCV_PLIC0 ==
    LET context == 2097152
    IN  Block(67108864, [PRIORITY |-> 0, PENDING |-> 4096, ENABLE |-> 8192,
                         THRESHOLD |-> context + 0, CLAIM |-> context + 4])
METAL_SIFIVE_PRCI == Block(32768, [HFROSCCFG |-> 0, HFXOSCCFG |-> 4, PLLCFG |-> 8, PLLOUTDIV |-> 12])
METAL_SIFIVE_GPIO0 ==
    Block(4096, [VALUE |-> 0, INPUT_EN |-> 4, OUTPUT_EN |-> 8, PORT |-> 12, PUE |-> 16, DS |-> 20, RISE_IE |-> 24,
                 RISE_IP |-> 28, FALL_IE |-> 32, FALL_IP |-> 36, HIGH_IE |-> 40, HIGH_IP |-> 44, LOW_IE |-> 48,
                 LOW_IP |-> 52, IOF_EN |-> 56, IOF_SEL |-> 60, OUT_XOR |-> 64])
METAL_SIFIVE_I2C0 ==
    Block(4096, [PRESCALE_LOW |-> 0, PRESCALE_HIGH |-> 4, CONTROL |-> 8, TRANSMIT |-> 12, RECEIVE |-> 12,
                 COMMAND |-> 16, STATUS |-> 16])
METAL_SIFIVE_PWM0 ==
    Block(4096, [PWMCFG |-> 0, PWMCOUNT |-> 8, PWMS |-> 16, PWMCMP0 |-> 32, PWMCMP1 |-> 36, PWMCMP2 |-> 40, PWMCMP3 |-> 44])
METAL_SIFIVE_RTC0 ==
    Block(32768, [RTCCFG |-> 64, RTCCOUNTLO |-> 72, RTCCOUNTHI |-> 76, RTCS |-> 80, RTCCMP0 |-> 96])
METAL_SIFIVE_SPI0 ==
    Block(4096, [SCKDIV |-> 0, SCKMODE |-> 4, CSID |-> 16, CSDEF |-> 20, CSMODE |-> 24, DELAY0 |-> 40, DELAY1 |-> 44,
                 FMT |-> 64, TXDATA |-> 72, RXDATA |-> 76, TXMARK |-> 80, RXMARK |-> 84, FCTRL |-> 96, FFMT |-> 100,
                 IE |-> 112, IP |-> 116])
METAL_SIFIVE_UART0 ==
    Block(4096, [TXDATA |-> 0, RXDATA |-> 4, TXCTRL |-> 8, RXCTRL |-> 12, IE |-> 16, IP |-> 20, DIV |-> 24])
METAL_SIFIVE_WDOG0 ==
    Block(32768, [WDOGCFG |-> 0, WDOGCOUNT |-> 8, WDOGS |-> 16, WDOGFEED |-> 24, WDOGKEY |-> 28, WDOGCMP |-> 32])

-----------------------------------------------------------------------------
(* The driver collection.                                                   *)

CLINT == [MSIP |-> \h0, MTIMECMP |-> \h4000, MTIME |-> \hBFF8]
PLIC  == [PRIORITY |-> \h0, PENDING |-> \h1000, ENABLE |-> \h2000, THRESHOLD |-> \h200000, CLAIM |-> \h200004]
PRCI  == [HFROSCCFG |-> \h0, HFXOSCCFG |-> \h4, PLLCFG |-> \h8, PLLOUTDIV |-> \hC]
GPIO ==
    [VALUE |-> \h0, INPUT_EN |-> \h4, OUTPUT_EN |-> \h8, PORT |-> \hC, PUE |-> \h10, DS |-> \h14, RISE_IE |-> \h18,
     RISE_IP |-> \h1C, FALL_IE |-> \h20, FALL_IP |-> \h24, HIGH_IE |-> \h28, HIGH_IP |-> \h2C, LOW_IE |-> \h30,
     LOW_IP |-> \h34, IOF_EN |-> \h38, IOF_SEL |-> \h3C, OUT_XOR |-> \h40]
I2C ==
    [PRESCALE_LOW |-> \h0, PRESCALE_HIGH |-> \h4, CONTROL |-> \h8, TRANSMIT |-> \hC, RECEIVE |-> \hC,
     COMMAND |-> \h10, STATUS |-> \h10]
PWM ==
    [PWMCFG |-> \h0, PWMCOUNT |-> \h8, PWMS |-> \h10, PWMCMP0 |-> \h20, PWMCMP1 |-> \h24, PWMCMP2 |-> \h28, PWMCMP3 |-> \h2C]
\* TXCTRL and RXCTRL are the marks; the delays are two halves each.
SPI ==
    [SCKDIV |-> \h0, SCKMODE |-> \h4, CSID |-> \h10, CSDEF |-> \h14, CSMODE |-> \h18, DELAY0 |-> \h28, DELAY1 |-> \h2C,
     FMT |-> \h40, TXDATA |-> \h48, RXDATA |-> \h4C, TXMARK |-> \h50, RXMARK |-> \h54, FCTRL |-> \h60, FFMT |-> \h64,
     IE |-> \h70, IP |-> \h74]
UART == [TXDATA |-> \h0, RXDATA |-> \h4, TXCTRL |-> \h8, RXCTRL |-> \hC, IE |-> \h10, IP |-> \h14, DIV |-> \h18]
AON ==
    [WDOGCFG |-> \h0, WDOGCOUNT |-> \h8, WDOGS |-> \h10, WDOGFEED |-> \h18, WDOGKEY |-> \h1C, WDOGCMP |-> \h20,
     RTCCFG |-> \h40, RTCCOUNTLO |-> \h48, RTCCOUNTHI |-> \h4C, RTCS |-> \h50, RTCCMP0 |-> \h60]

\* Every register is where the other library has it, and inside its unit.
Agrees(block, unit) ==
    /\ DOMAIN block.at \subseteq DOMAIN unit
    /\ \A r \in DOMAIN block.at : block.at[r] = unit[r] /\ block.at[r] + 4 <= block.size
=============================================================================
