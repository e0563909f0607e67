CONSTANTS
    Build = "header"
    Sources = {6, 43, 52}
    Kinds = {"FALL"}
    Prios = {9}
    Calls = {"cpu_interrupt_enable", "plic_interrupt_enable", "clint_interrupt_timer_enable", "clint_interrupt_software_enable", "aon_rtc_next_wake_time", "i2c_interrupt_enable", "i2c_interrupt_disable", "pwm_interrupt_enable", "pwm_interrupt_disable", "spi_interrupt_enable", "spi_interrupt_disable"}
SPECIFICATION Spec
INVARIANT NoTrapWhileReprogramming
PROPERTY LostVectorIsForGood
CHECK_DEADLOCK FALSE
