----------------------------- MODULE MetalWaits -----------------------------
(***************************************************************************)
(* The parts of freedom-metal that bring a program up or wait for something: *)
(* its image and the caches, and the harts, a lock, the time, the PLL, the   *)
(* bus, and the two demos.  A program uses one of them; they share nothing   *)
(* that they are about.                                                      *)
(***************************************************************************)
EXTENDS MetalBoot, MetalTimer, MetalClock, MetalI2c, MetalImage, MetalCache, MetalDemos

VARIABLE part       \* the part the program uses

waitsVars == <<part, bootVars, timerVars, clkVars, i2c0Vars, imageVars, cacheVars, demosVars>>

\* What a part that is not used would choose at reset stays at one of its values.
WaitsInit ==
    /\ part \in {"boot", "timer", "clock", "i2c", "image", "cache", "demos"}
    /\ part = "timer" \/ handler = CHOOSE h \in TimerHandlers : TRUE
    /\ part = "clock" \/ users = CHOOSE u \in SUBSET {"uart", "spi", "i2c", "pwm"} : Cardinality(u) = ClkMost
    /\ part = "image" \/ (tree = NoTree /\ rams = <<>> /\ brk = -1)
    /\ part = "cache" \/ (uses = "l2pf0" /\ has = FALSE)
    /\ part = "demos" \/ (demo = "HCSR04" /\ ahead = 0 /\ led = FALSE)
    /\ BootInit /\ TimerInit /\ ClkInit /\ I2c0Init /\ ImageInit /\ CacheInit /\ DemosInit

\* The parts that the program does not use stand still.
Others(p) ==
    /\ UNCHANGED part
    /\ p # "boot" => UNCHANGED bootVars
    /\ p # "timer" => UNCHANGED timerVars
    /\ p # "clock" => UNCHANGED clkVars
    /\ p # "i2c" => UNCHANGED i2c0Vars
    /\ p # "image" => UNCHANGED imageVars
    /\ p # "cache" => UNCHANGED cacheVars
    /\ p # "demos" => UNCHANGED demosVars

WaitsNext ==
    \/ part = "boot" /\ BootNext /\ Others("boot")
    \/ part = "timer" /\ TimerNext /\ Others("timer")
    \/ part = "clock" /\ ClkNext /\ Others("clock")
    \/ part = "i2c" /\ I2c0Next /\ Others("i2c")
    \/ part = "image" /\ ImageNext /\ Others("image")
    \/ part = "cache" /\ CacheNext /\ Others("cache")
    \/ part = "demos" /\ DemosNext /\ Others("demos")

\* Harts execute and time passes, the line takes bytes and the PLL locks; a call to
\* the I2C driver, once made, is executed.
WaitsFairness ==
    /\ \A h \in Harts : WF_waitsVars(part = "boot" /\ BootProgress(h) /\ Others("boot"))
    /\ WF_waitsVars(part = "timer" /\ MainTimer /\ Others("timer"))
    /\ WF_waitsVars(part = "timer" /\ IsrTimer /\ Others("timer"))
    /\ WF_waitsVars(part = "timer" /\ TimerTick /\ Others("timer"))
    /\ WF_waitsVars(part = "clock" /\ RateChange /\ Others("clock"))
    /\ WF_waitsVars(part = "clock" /\ Line /\ Others("clock"))
    /\ WF_waitsVars(part = "clock" /\ Lock /\ Others("clock"))
    /\ WF_waitsVars(part = "i2c" /\ at # "idle" /\ I2c0Program /\ Others("i2c"))
    /\ WF_waitsVars(part = "i2c" /\ SecondPasses /\ Others("i2c"))
    /\ WF_waitsVars(part = "demos" /\ (DemoMain \/ timer_isr) /\ Others("demos"))
    /\ WF_waitsVars(part = "demos" /\ (DemoTick \/ PulseEnds \/ EchoEnds) /\ Others("demos"))

WaitsSpec == WaitsInit /\ [][WaitsNext]_waitsVars /\ WaitsFairness

(* The demos' wait, access by access (MetalTimer), and what they are for       *)
(* with it (MetalDemos): a wait is over, never early, and their rounds go on.  *)
DemosKeepTime == WaitsKeepTime /\ DemosGoOn
=============================================================================
