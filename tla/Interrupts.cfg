CONSTANTS
    Build = "header"
    Sources = {4, 10, 11}
    Kinds = {"FALL"}
    Prios = {1}
    Calls = {"cpu_interrupt_enable", "plic_interrupt_enable", "gpio_interrupt_enable", "gpio_interrupt_disable", "uart_interrupt_disable"}
SPECIFICATION FairSpec
INVARIANTS NullCallOnlyMidDisable ReadyBeforeEnabled ClaimsBalance
PROPERTIES CallsReturn
CHECK_DEADLOCK FALSE
